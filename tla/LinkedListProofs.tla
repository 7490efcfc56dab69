-------------------------- MODULE LinkedListProofs --------------------------
(***************************************************************************)
(* Proofs about LinkedList, for any number of nodes and any values, for    *)
(* callers that take the first element out with linked_list_pop_front only *)
(* and do not walk backwards (the specification Spec).                     *)
(***************************************************************************)
EXTENDS LinkedList, TLAPS

\* What a removing walk will not do: take out the first element.
HeadKept ==
  /\ loop.at = "remove_at" => loop.arg # 0
  /\ loop.at = "remove_eq" /\ order # <<>> => elt[order[1]].value # loop.arg

NoWalkBack == loop.at # "for_each_rev"

ListInv ==
  /\ TypeOK /\ ListInOrder /\ WalkInOrder /\ HeadKept /\ NoWalkBack
  /\ loop.at = "gone" => loop = Gone /\ order = <<>>
  /\ loop.at = "free" => loop.i = 0
-----------------------------------------------------------------------------
\* What Without returns.
LEMMA WithoutElement ==
  ASSUME NEW S, NEW s \in Seq(S), NEW k \in DOMAIN s
  PROVE  /\ Without(s, k) \in Seq(S)
         /\ Len(Without(s, k)) = Len(s) - 1
         /\ DOMAIN Without(s, k) = 1..(Len(s) - 1)
         /\ \A j \in 1..(Len(s) - 1) :
              Without(s, k)[j] = IF j < k THEN s[j] ELSE s[j + 1]
<1> DEFINE n == Len(s) - 1
<1>1. n \in Nat /\ DOMAIN s = 1..Len(s)
  OBVIOUS
<1>2. \A j \in 1..n : s[j] \in S /\ s[j + 1] \in S
  BY <1>1
<1>3. Without(s, k) \in [1..n -> S]
  BY <1>1, <1>2 DEF Without
<1> QED
  BY <1>1, <1>3 DEF Without

LEMMA OrderDomain ==
  ASSUME TypeOK
  PROVE  /\ Len(order) \in Nat /\ DOMAIN order = 1..Len(order)
         /\ \A k \in DOMAIN order : order[k] \in Node /\ order[k] # Nil
         /\ \A k \in DOMAIN order : Nth(k) = order[k]
         /\ \A k : k \notin DOMAIN order => Nth(k) = Nil
BY ListAssumption DEF TypeOK, Nth

\* The fields of a node stay pointers and values.
LEMMA EltFields ==
  ASSUME TypeOK, NEW n \in Node
  PROVE  /\ elt[n] = [prev |-> elt[n].prev, next |-> elt[n].next,
                      value |-> elt[n].value]
         /\ elt[n].prev \in Pointer /\ elt[n].next \in Pointer
         /\ elt[n].value \in Value \cup {Nil}
BY DEF TypeOK, EltT

LEMMA BlankType == Blank \in EltT
BY DEF Blank, EltT, Pointer

(***************************************************************************)
(* Removing the k-th element: if the pointers of its neighbours are made   *)
(* to pass over it and the others stay, the nodes are in order again.      *)
(***************************************************************************)
LEMMA Removal ==
  ASSUME TypeOK, NodesInOrder, NEW k \in DOMAIN order,
         order' = Without(order, k),
         live' = live \ {order[k]},
         \A j \in DOMAIN order \ {k} :
           elt'[order[j]].next = IF j = k - 1 THEN Nth(k + 1)
                                 ELSE elt[order[j]].next,
         \A j \in DOMAIN order \ {k} : j > 1 /\ ~(k = 1 /\ j = 2) =>
           elt'[order[j]].prev = IF j = k + 1 THEN Nth(k - 1)
                                 ELSE elt[order[j]].prev
  PROVE  /\ NodesInOrder' /\ order' \in Seq(Node) /\ live' \subseteq Node
         /\ Len(order') = Len(order) - 1
<1> DEFINE n == Len(order)
           old(j) == IF j < k THEN j ELSE j + 1
<1>1. /\ n \in Nat /\ DOMAIN order = 1..n /\ k \in 1..n
      /\ order \in Seq(Node) /\ live \subseteq Node
  BY OrderDomain DEF TypeOK
<1>2. /\ order' \in Seq(Node) /\ Len(order') = n - 1 /\ DOMAIN order' = 1..(n - 1)
      /\ \A j \in 1..(n - 1) : order'[j] = order[old(j)]
  BY <1>1, WithoutElement
<1>3. \A j \in 1..(n - 1) : old(j) \in 1..n /\ old(j) # k
  BY <1>1
<1>4. \A i, j \in 1..n : order[i] = order[j] => i = j
  BY <1>1 DEF NodesInOrder
<1>5. live' = {order'[j] : j \in DOMAIN order'}
  <2>1. ASSUME NEW m \in live' PROVE m \in {order'[j] : j \in DOMAIN order'}
    <3>1. PICK i \in 1..n : m = order[i] /\ i # k
      BY <1>1 DEF NodesInOrder
    <3>2. CASE i < k
      <4>1. i \in 1..(n - 1) /\ old(i) = i
        BY <3>1, <3>2, <1>1
      <4> QED
        BY <4>1, <3>1, <1>2
    <3>3. CASE i > k
      <4>1. i - 1 \in 1..(n - 1) /\ old(i - 1) = i
        BY <3>1, <3>3, <1>1
      <4> QED
        BY <4>1, <3>1, <1>2
    <3> QED
      BY <3>1, <3>2, <3>3, <1>1
  <2>2. ASSUME NEW j \in DOMAIN order' PROVE order'[j] \in live'
    <3>1. j \in 1..(n - 1)
      BY <1>2
    <3>2. order[old(j)] \in live /\ order[old(j)] # order[k]
      BY <3>1, <1>1, <1>3, <1>4 DEF NodesInOrder
    <3> QED
      BY <3>1, <3>2, <1>2
  <2> QED
    BY <2>1, <2>2
<1>6. \A i, j \in DOMAIN order' : order'[i] = order'[j] => i = j
  <2> SUFFICES ASSUME NEW i \in 1..(n - 1), NEW j \in 1..(n - 1),
                      order'[i] = order'[j]
               PROVE  i = j
    BY <1>2
  <2>1. order[old(i)] = order[old(j)]
    BY <1>2
  <2>2. old(i) = old(j)
    BY <2>1, <1>3, <1>4
  <2> QED
    BY <2>2, <1>1
<1>7. \A i : Nth(i)' = IF i \in 1..(n - 1) THEN order[old(i)] ELSE Nil
  BY <1>2 DEF Nth
<1>8. \A j \in DOMAIN order' : elt'[order'[j]].next = Nth(j + 1)'
  <2> SUFFICES ASSUME NEW j \in 1..(n - 1)
               PROVE  elt'[order[old(j)]].next = Nth(j + 1)'
    BY <1>2
  <2> HIDE DEF n
  <2>1. old(j) \in DOMAIN order \ {k}
    BY <1>1, <1>3
  <2>2. elt'[order[old(j)]].next =
          IF old(j) = k - 1 THEN Nth(k + 1) ELSE Nth(old(j) + 1)
    BY <2>1 DEF NodesInOrder
  <2>3. \A i : Nth(i) = IF i \in 1..n THEN order[i] ELSE Nil
    BY <1>1 DEF Nth
  <2>4. Nth(j + 1)' = IF j + 1 \in 1..(n - 1) THEN order[old(j + 1)] ELSE Nil
    BY <1>7
  <2>5. CASE j = k - 1
    BY <2>5, <2>2, <2>3, <2>4, <1>1
  <2>6. CASE j # k - 1 /\ j < k
    BY <2>6, <2>2, <2>3, <2>4, <1>1
  <2>7. CASE j >= k
    BY <2>7, <2>2, <2>3, <2>4, <1>1
  <2> QED
    BY <2>5, <2>6, <2>7, <1>1
<1>9. \A j \in DOMAIN order' : j > 1 => elt'[order'[j]].prev = Nth(j - 1)'
  <2> SUFFICES ASSUME NEW j \in 1..(n - 1), j > 1
               PROVE  elt'[order[old(j)]].prev = Nth(j - 1)'
    BY <1>2
  <2> HIDE DEF n
  <2>1. old(j) \in DOMAIN order \ {k} /\ old(j) > 1 /\ ~(k = 1 /\ old(j) = 2)
    BY <1>1, <1>3
  <2>2. elt'[order[old(j)]].prev =
          IF old(j) = k + 1 THEN Nth(k - 1) ELSE Nth(old(j) - 1)
    BY <2>1 DEF NodesInOrder
  <2>3. \A i : Nth(i) = IF i \in 1..n THEN order[i] ELSE Nil
    BY <1>1 DEF Nth
  <2>4. Nth(j - 1)' = IF j - 1 \in 1..(n - 1) THEN order[old(j - 1)] ELSE Nil
    BY <1>7
  <2>5. CASE j < k
    BY <2>5, <2>2, <2>3, <2>4, <1>1
  <2>6. CASE j = k
    BY <2>6, <2>2, <2>3, <2>4, <1>1
  <2>7. CASE j > k
    BY <2>7, <2>2, <2>3, <2>4, <1>1
  <2> QED
    BY <2>5, <2>6, <2>7, <1>1
<1>10. live' \subseteq Node
  BY <1>1
<1> QED
  BY <1>2, <1>5, <1>6, <1>8, <1>9, <1>10 DEF NodesInOrder
-----------------------------------------------------------------------------
LEMMA InitListInv == Init => ListInv
<1> SUFFICES ASSUME Init PROVE ListInv
  OBVIOUS
<1>1. Idle \in LoopT /\ Empty \in ListT
  BY DEF Idle, Empty, LoopT, ListT, Pointer
<1>2. TypeOK
  <2>1. elt \in [Node -> EltT]
    BY BlankType DEF Init
  <2>2. list \in ListT /\ loop \in LoopT
    BY <1>1 DEF Init
  <2>3. live \subseteq Node /\ fault \in BOOLEAN
    BY DEF Init
  <2>4. order \in Seq(Node)
    <3>1. <<>> \in Seq(Node)
      OBVIOUS
    <3> QED
      BY <3>1 DEF Init
  <2> QED
    BY <2>1, <2>2, <2>3, <2>4 DEF TypeOK
<1>3. order = <<>> /\ DOMAIN order = {} /\ Len(order) = 0
  BY DEF Init
<1>4. NodesInOrder
  BY <1>3 DEF Init, NodesInOrder
<1>5. EndsInOrder
  BY <1>3 DEF Init, EndsInOrder, Empty, Nth
<1> QED
  BY <1>2, <1>3, <1>4, <1>5
  DEF Init, ListInv, ListInOrder, WalkInOrder, HeadKept, NoWalkBack, Idle, Walks

LEMMA AddKeeps ==
  ASSUME ListInv, NEW n \in Node, NEW v \in Value, Add(n, v)
  PROVE  ListInv'
<1> DEFINE len == Len(order)
           placed == [elt EXCEPT ![n] = [prev |-> list.tail, next |-> Nil, value |-> v]]
           told == [placed EXCEPT ![list.tail].next = n]
<1>1. /\ TypeOK /\ len \in Nat /\ DOMAIN order = 1..len /\ order \in Seq(Node)
      /\ \A k \in 1..len : order[k] \in Node /\ order[k] # Nil
      /\ \A k : Nth(k) = IF k \in 1..len THEN order[k] ELSE Nil
  <2>1. TypeOK /\ order \in Seq(Node)
    BY DEF ListInv, TypeOK
  <2> QED
    BY <2>1, OrderDomain
<1>2. /\ loop = Idle /\ n \notin live
      /\ list = [head |-> Nth(1), tail |-> Nth(len), size |-> len]
  BY DEF ListInv, ListInOrder, EndsInOrder, Add, Ready, Idle
<1>3. list.tail = Nil <=> len = 0
  BY <1>1, <1>2
<1>4. len > 0 => list.head = order[1] /\ list.tail = order[len]
                 /\ order[1] \in live /\ order[len] \in live
  BY <1>1, <1>2 DEF ListInv, ListInOrder, NodesInOrder
<1>5. /\ elt' = Linked(n, v)
      /\ list' = [head |-> IF list.tail = Nil THEN n ELSE list.head,
                  tail |-> n, size |-> list.size + 1]
      /\ live' = live \cup {n} /\ order' = Append(order, n)
      /\ UNCHANGED <<loop, fault>>
  BY <1>1, <1>3, <1>4 DEF Add
<1>6. /\ Len(order') = len + 1 /\ order' \in Seq(Node) /\ DOMAIN order' = 1..(len + 1)
      /\ \A k \in 1..len : order'[k] = order[k]
      /\ order'[len + 1] = n
  BY <1>1, <1>5
<1>7. \A k \in 1..len : order[k] \in live /\ order[k] # n
  BY <1>1, <1>2 DEF ListInv, ListInOrder, NodesInOrder
<1>8. \A i, j \in 1..len : order[i] = order[j] => i = j
  BY <1>1 DEF ListInv, ListInOrder, NodesInOrder
<1>9. \A i : Nth(i)' = IF i \in 1..len THEN order[i]
                       ELSE IF i = len + 1 THEN n ELSE Nil
  BY <1>1, <1>6 DEF Nth
<1>10. elt \in [Node -> EltT]
  BY <1>1 DEF TypeOK
<1>0. len \in Nat /\ Len(order) = len
  BY <1>1
<1> HIDE DEF len
<1>11. /\ \A k \in 1..len : k # len => elt'[order[k]].next = elt[order[k]].next
       /\ len > 0 => elt'[order[len]].next = n
       /\ elt'[n].next = Nil /\ elt'[n].prev = list.tail /\ elt'[n].value = v
       /\ \A k \in 2..len : elt'[order[k]].prev = elt[order[k]].prev
       /\ elt' \in [Node -> EltT]
  <2>0. [prev |-> list.tail, next |-> Nil, value |-> v] \in EltT
    BY <1>1 DEF TypeOK, ListT, EltT, Pointer
  <2>1. CASE len = 0
    <3>1. elt' = placed
      BY <2>1, <1>3, <1>5 DEF Linked
    <3> QED
      BY <3>1, <2>0, <2>1, <1>10
  <2>2. CASE len > 0
    <3> DEFINE h == list.head
               t == list.tail
    <3>0. list.tail # Nil /\ h = order[1] /\ t = order[len]
      BY <2>2, <1>0, <1>3, <1>4
    <3>1. elt' = [told EXCEPT ![h].prev = n] /\ told = [placed EXCEPT ![t].next = n]
      BY <3>0, <1>5 DEF Linked
    <3>2. h \in Node /\ t \in Node /\ h # n /\ t # n
      BY <2>2, <3>0, <1>0, <1>1, <1>7
    <3> HIDE DEF h, t
    <3>3. placed \in [Node -> EltT] /\ placed[n] = [prev |-> list.tail, next |-> Nil, value |-> v]
          /\ \A m \in Node \ {n} : placed[m] = elt[m]
      BY <2>0, <1>10
    <3>4. [placed[t] EXCEPT !.next = n] \in EltT
      BY <3>2, <3>3 DEF EltT, Pointer
    <3> HIDE DEF placed
    <3>5. told \in [Node -> EltT] /\ told[t] = [placed[t] EXCEPT !.next = n]
          /\ \A m \in Node \ {t} : told[m] = placed[m]
      BY <3>1, <3>2, <3>3, <3>4
    <3> HIDE DEF told
    <3>6. [told[h] EXCEPT !.prev = n] \in EltT
      BY <3>2, <3>5 DEF EltT, Pointer
    <3>7. elt' \in [Node -> EltT] /\ elt'[h] = [told[h] EXCEPT !.prev = n]
          /\ \A m \in Node \ {h} : elt'[m] = told[m]
      BY <3>1, <3>2, <3>5, <3>6
    <3>8. \A m \in Node : elt'[m].next = told[m].next
      BY <3>5, <3>7 DEF EltT
    <3>9. \A m \in Node : told[m].prev = placed[m].prev
      <4>1. told[t].prev = placed[t].prev
        BY <3>2, <3>3, <3>5 DEF EltT
      <4> QED
        BY <4>1, <3>5
    <3>10. \A k \in 1..len : k # len => elt'[order[k]].next = elt[order[k]].next
      <4> SUFFICES ASSUME NEW k \in 1..len, k # len
                   PROVE  elt'[order[k]].next = elt[order[k]].next
        OBVIOUS
      <4>1. order[k] \in Node /\ order[k] # t /\ order[k] # n
        BY <2>2, <3>0, <1>0, <1>1, <1>7, <1>8
      <4> QED
        BY <4>1, <3>3, <3>5, <3>8
    <3>11. elt'[order[len]].next = n
      <4>1. told[t].next = n
        BY <3>2, <3>3, <3>5 DEF EltT
      <4> QED
        BY <4>1, <3>0, <3>2, <3>8
    <3>12. elt'[n].next = Nil /\ elt'[n].prev = list.tail /\ elt'[n].value = v
      BY <3>2, <3>3, <3>5, <3>7
    <3>13. \A k \in 2..len : elt'[order[k]].prev = elt[order[k]].prev
      <4> SUFFICES ASSUME NEW k \in 2..len
                   PROVE  elt'[order[k]].prev = elt[order[k]].prev
        OBVIOUS
      <4>1. order[k] \in Node /\ order[k] # h /\ order[k] # n
        BY <2>2, <3>0, <1>0, <1>1, <1>7, <1>8
      <4> QED
        BY <4>1, <3>3, <3>7, <3>9
    <3> QED
      BY <3>7, <3>10, <3>11, <3>12, <3>13
  <2> QED
    BY <2>1, <2>2, <1>1
<1> HIDE DEF placed, told
<1>12. NodesInOrder'
  <2>1. live' = {order'[k] : k \in DOMAIN order'}
    <3>1. live = {order[k] : k \in 1..len}
      BY <1>1 DEF ListInv, ListInOrder, NodesInOrder
    <3>2. \A m \in live' : \E k \in 1..(len + 1) : m = order'[k]
      <4>1. \A m \in live : \E k \in 1..len : m = order[k]
        BY <3>1
      <4>2. len + 1 \in 1..(len + 1) /\ 1..len \subseteq 1..(len + 1)
        BY <1>0
      <4> QED
        BY <4>1, <4>2, <1>5, <1>6
    <3>3. \A k \in 1..(len + 1) : order'[k] \in live'
      BY <1>1, <1>5, <1>6, <1>7
    <3> QED
      BY <3>2, <3>3, <1>6
  <2>2. \A i, j \in DOMAIN order' : order'[i] = order'[j] => i = j
    BY <1>1, <1>6, <1>7, <1>8
  <2>3. \A k \in DOMAIN order' : elt'[order'[k]].next = Nth(k + 1)'
    <3> SUFFICES ASSUME NEW k \in 1..(len + 1)
                 PROVE  elt'[order'[k]].next = Nth(k + 1)'
      BY <1>6
    <3>1. CASE k = len + 1
      <4>1. order'[k] = n /\ Nth(k + 1)' = Nil
        BY <3>1, <1>0, <1>6, <1>9
      <4> QED
        BY <4>1, <1>11
    <3>2. CASE k = len
      <4>1. k \in 1..len /\ len > 0 /\ k + 1 = len + 1 /\ k + 1 \notin 1..len
        BY <3>2, <1>0
      <4>2. order'[k] = order[len] /\ Nth(k + 1)' = n
        BY <4>1, <3>2, <1>6, <1>9
      <4> QED
        BY <4>1, <4>2, <1>11
    <3>3. CASE k < len
      <4>1. k \in 1..len /\ k # len /\ k + 1 \in 1..len
        BY <3>3, <1>0
      <4>2. elt[order[k]].next = order[k + 1]
        BY <4>1, <1>1 DEF ListInv, ListInOrder, NodesInOrder
      <4> QED
        BY <4>1, <4>2, <1>6, <1>9, <1>11
    <3> QED
      BY <3>1, <3>2, <3>3, <1>0
  <2>4. \A k \in DOMAIN order' : k > 1 => elt'[order'[k]].prev = Nth(k - 1)'
    <3> SUFFICES ASSUME NEW k \in 1..(len + 1), k > 1
                 PROVE  elt'[order'[k]].prev = Nth(k - 1)'
      BY <1>6
    <3>1. CASE k = len + 1
      <4>1. list.tail = order[len] /\ len \in 1..len /\ k - 1 = len
        BY <3>1, <1>1, <1>4
      <4> QED
        BY <4>1, <3>1, <1>6, <1>9, <1>11
    <3>2. CASE k <= len
      <4>1. k \in 2..len /\ k - 1 \in 1..len /\ k \in 1..len
        BY <3>2, <1>1
      <4>2. elt[order[k]].prev = order[k - 1]
        BY <4>1, <1>1 DEF ListInv, ListInOrder, NodesInOrder
      <4> QED
        BY <4>1, <4>2, <1>6, <1>9, <1>11
    <3> QED
      BY <3>1, <3>2, <1>1
  <2> QED
    BY <2>1, <2>2, <2>3, <2>4 DEF NodesInOrder
<1>13. EndsInOrder'
  <2>1. IF list.tail = Nil THEN n = Nth(1)' ELSE list.head = Nth(1)'
    BY <1>1, <1>3, <1>4, <1>9
  <2>2. n = Nth(Len(order))' /\ list.size + 1 = Len(order')
    BY <1>1, <1>2, <1>6, <1>9
  <2> QED
    BY <2>1, <2>2, <1>5 DEF EndsInOrder
<1>14. TypeOK'
  <2>1. list' \in ListT
    BY <1>1, <1>5 DEF TypeOK, ListT, Pointer
  <2> QED
    BY <2>1, <1>1, <1>5, <1>6, <1>11 DEF TypeOK
<1> QED
  BY <1>2, <1>5, <1>12, <1>13, <1>14
  DEF ListInv, ListInOrder, WalkInOrder, HeadKept, NoWalkBack, Idle, Walks

\* What ListInv says when no call is under way.
LEMMA AtRest ==
  ASSUME ListInv, Ready
  PROVE  /\ TypeOK /\ NodesInOrder /\ Len(order) \in Nat
         /\ list = [head |-> Nth(1), tail |-> Nth(Len(order)), size |-> Len(order)]
         /\ list.head = Nil <=> Len(order) = 0
         /\ list.tail = Nil <=> Len(order) = 0
         /\ \A k \in 1..Len(order) : Nth(k) = order[k] /\ order[k] \in live
<1>1. TypeOK /\ NodesInOrder /\ loop = Idle
  BY DEF ListInv, ListInOrder, Ready
<1>2. list = [head |-> Nth(1), tail |-> Nth(Len(order)), size |-> Len(order)]
  BY <1>1 DEF ListInv, ListInOrder, EndsInOrder, Idle
<1>3. \A k \in 1..Len(order) : Nth(k) = order[k] /\ order[k] \in live
  BY <1>1, OrderDomain DEF NodesInOrder
<1>4. list.head = Nil <=> Len(order) = 0
  BY <1>1, <1>2, OrderDomain
<1>5. list.tail = Nil <=> Len(order) = 0
  BY <1>1, <1>2, OrderDomain
<1> QED
  BY <1>1, <1>2, <1>3, <1>4, <1>5, OrderDomain

\* A call that returns at once: nothing is under way before or after.
LEMMA RestKeeps ==
  ASSUME ListInv, Ready, UNCHANGED <<loop, fault>>, TypeOK', NodesInOrder',
         EndsInOrder'
  PROVE  ListInv'
BY DEF ListInv, ListInOrder, WalkInOrder, HeadKept, NoWalkBack, Ready, Idle, Walks

\* Wiping a node changes no other; storing into one field keeps the others.
LEMMA WipedNode ==
  ASSUME NEW e \in [Node -> EltT], NEW n \in Node
  PROVE  /\ Wiped(e, n) \in [Node -> EltT]
         /\ \A m \in Node \ {n} : Wiped(e, n)[m] = e[m]
BY BlankType DEF Wiped

LEMMA StoredNext ==
  ASSUME NEW e \in [Node -> EltT], NEW p \in Node, NEW x \in Pointer
  PROVE  /\ [e EXCEPT ![p].next = x] \in [Node -> EltT]
         /\ [e EXCEPT ![p].next = x][p].next = x
         /\ [e EXCEPT ![p].next = x][p].prev = e[p].prev
         /\ [e EXCEPT ![p].next = x][p].value = e[p].value
         /\ \A m \in Node \ {p} : [e EXCEPT ![p].next = x][m] = e[m]
<1>1. [e[p] EXCEPT !.next = x] \in EltT /\ [e[p] EXCEPT !.next = x].next = x
      /\ [e[p] EXCEPT !.next = x].prev = e[p].prev
      /\ [e[p] EXCEPT !.next = x].value = e[p].value
  BY DEF EltT
<1>2. [e EXCEPT ![p].next = x] = [e EXCEPT ![p] = [e[p] EXCEPT !.next = x]]
  OBVIOUS
<1> QED
  BY <1>1, <1>2

LEMMA StoredPrev ==
  ASSUME NEW e \in [Node -> EltT], NEW p \in Node, NEW x \in Pointer
  PROVE  /\ [e EXCEPT ![p].prev = x] \in [Node -> EltT]
         /\ [e EXCEPT ![p].prev = x][p].prev = x
         /\ [e EXCEPT ![p].prev = x][p].next = e[p].next
         /\ [e EXCEPT ![p].prev = x][p].value = e[p].value
         /\ \A m \in Node \ {p} : [e EXCEPT ![p].prev = x][m] = e[m]
<1>1. [e[p] EXCEPT !.prev = x] \in EltT /\ [e[p] EXCEPT !.prev = x].prev = x
      /\ [e[p] EXCEPT !.prev = x].next = e[p].next
      /\ [e[p] EXCEPT !.prev = x].value = e[p].value
  BY DEF EltT
<1>2. [e EXCEPT ![p].prev = x] = [e EXCEPT ![p] = [e[p] EXCEPT !.prev = x]]
  OBVIOUS
<1> QED
  BY <1>1, <1>2

LEMMA PopFrontKeeps ==
  ASSUME ListInv, PopFront
  PROVE  ListInv'
<1> DEFINE len == Len(order)
           h == list.head
           x == elt[h].next
<1>1. /\ Ready /\ h # Nil /\ TypeOK /\ NodesInOrder /\ len \in Nat
      /\ list = [head |-> Nth(1), tail |-> Nth(len), size |-> len]
      /\ \A k \in 1..len : Nth(k) = order[k] /\ order[k] \in live
      /\ len # 0
  BY AtRest DEF PopFront
<1>2. 1 \in 1..len /\ len \in 1..len /\ h = order[1] /\ h \in live /\ h \in Node
  BY <1>1 DEF TypeOK
<1>3. DOMAIN order = 1..len /\ order \in Seq(Node)
      /\ \A y : y \notin 1..len => Nth(y) = Nil
      /\ \A k \in 1..len : order[k] \in Node /\ order[k] # Nil
  BY <1>1, OrderDomain DEF TypeOK
<1>4. \A i, j \in 1..len : order[i] = order[j] => i = j
  BY <1>1, <1>3 DEF NodesInOrder
<1>5. x = Nth(2) /\ (h = list.tail <=> len = 1)
  <2>1. x = Nth(2)
    BY <1>1, <1>2, <1>3 DEF NodesInOrder
  <2>2. list.tail = order[len]
    BY <1>1, <1>2
  <2> QED
    BY <2>1, <2>2, <1>1, <1>2, <1>4
<1>6. len > 1 => x = order[2] /\ x \in live /\ x \in Node /\ x # h
  <2> SUFFICES ASSUME len > 1 PROVE x = order[2] /\ x \in live /\ x \in Node /\ x # h
    OBVIOUS
  <2>1. 2 \in 1..len
    BY <1>1
  <2>2. order[2] # order[1]
    BY <2>1, <1>2, <1>4
  <2> QED
    BY <2>1, <2>2, <1>1, <1>2, <1>3, <1>5
<1>7. /\ list' = IF len = 1 THEN [head |-> x, tail |-> Nil, size |-> 0]
                 ELSE [list EXCEPT !.head = x, !.size = list.size - 1]
      /\ elt' = IF len = 1 THEN Wiped(elt, h)
                ELSE Wiped([elt EXCEPT ![x].prev = Nil], h)
      /\ live' = live \ {order[1]} /\ order' = Without(order, 1)
      /\ UNCHANGED <<loop, fault>>
  BY <1>1, <1>2, <1>5, <1>6 DEF PopFront, Free
<1>8. elt \in [Node -> EltT] /\ Nil \in Pointer
  BY <1>1 DEF TypeOK, Pointer
<1> HIDE DEF len, h, x
<1>9. /\ elt' \in [Node -> EltT]
      /\ \A m \in Node \ {h} : elt'[m].next = elt[m].next
      /\ \A m \in Node \ {h, x} : elt'[m].prev = elt[m].prev
  <2>1. CASE len = 1
    BY <2>1, <1>2, <1>7, <1>8, WipedNode
  <2>2. CASE len # 1
    <3>1. x \in Node
      BY <2>2, <1>1, <1>6
    <3> DEFINE e == [elt EXCEPT ![x].prev = Nil]
    <3>2. /\ e \in [Node -> EltT] /\ e[x].next = elt[x].next
          /\ \A m \in Node \ {x} : e[m] = elt[m]
      BY <3>1, <1>8, StoredPrev
    <3>3. elt' = Wiped(e, h)
      BY <2>2, <1>7
    <3> HIDE DEF e
    <3>4. elt' \in [Node -> EltT] /\ \A m \in Node \ {h} : elt'[m] = e[m]
      BY <3>2, <3>3, <1>2, WipedNode
    <3> QED
      BY <3>2, <3>4
  <2> QED
    BY <2>1, <2>2
<1>10. \A j \in DOMAIN order \ {1} :
         elt'[order[j]].next = IF j = 1 - 1 THEN Nth(1 + 1) ELSE elt[order[j]].next
  BY <1>1, <1>2, <1>3, <1>4, <1>9
<1>11. \A j \in DOMAIN order \ {1} : j > 1 /\ ~(1 = 1 /\ j = 2) =>
         elt'[order[j]].prev = IF j = 1 + 1 THEN Nth(1 - 1) ELSE elt[order[j]].prev
  <2> SUFFICES ASSUME NEW j \in 1..len, j > 2
               PROVE  elt'[order[j]].prev = elt[order[j]].prev
    BY <1>1, <1>3
  <2>1. 2 \in 1..len /\ len > 1
    BY <1>1
  <2>2. order[j] # order[1] /\ order[j] # order[2] /\ order[j] \in Node
    BY <2>1, <1>1, <1>2, <1>3, <1>4
  <2> QED
    BY <2>1, <2>2, <1>2, <1>6, <1>9
<1>12. NodesInOrder' /\ order' \in Seq(Node) /\ live' \subseteq Node /\ Len(order') = Len(order) - 1
  BY <1>1, <1>2, <1>3, <1>7, <1>10, <1>11, Removal
<1>13. \A k \in 1..(len - 1) : order'[k] = order[k + 1]
  BY <1>2, <1>3, <1>7, <1>1, WithoutElement DEF len
<1>14. EndsInOrder' /\ list' \in ListT
  <2>1. Len(order') = len - 1 /\ DOMAIN order' = 1..(len - 1)
    BY <1>12 DEF len
  <2>2. CASE len = 1
    <3>1. list' = [head |-> Nil, tail |-> Nil, size |-> 0]
      BY <2>2, <1>3, <1>5, <1>7
    <3>2. Nth(1)' = Nil /\ Nth(0)' = Nil /\ Nth(Len(order))' = Nil
      BY <2>1, <2>2 DEF Nth
    <3> QED
      BY <3>1, <3>2, <2>1, <2>2, <1>8 DEF EndsInOrder, ListT
  <2>3. CASE len > 1
    <3>1. list' = [head |-> order[2], tail |-> order[len], size |-> len - 1]
      <4>1. list' = [list EXCEPT !.head = x, !.size = list.size - 1]
        BY <2>3, <1>7, <1>1
      <4>2. list = [head |-> Nth(1), tail |-> order[len], size |-> len]
        BY <1>1, <1>2
      <4> QED
        BY <4>1, <4>2, <2>3, <1>6
    <3>2. 1 \in 1..(len - 1) /\ len - 1 \in 1..(len - 1) /\ len - 1 \in Nat
      BY <2>3, <1>1
    <3>3. Nth(1)' = order[2] /\ Nth(Len(order))' = order[len]
      BY <3>2, <2>1, <1>13, <1>1 DEF Nth
    <3> QED
      BY <3>1, <3>2, <3>3, <2>1, <2>3, <1>1, <1>2, <1>3, <1>6 DEF EndsInOrder, ListT, Pointer
  <2> QED
    BY <2>2, <2>3, <1>1
<1>15. TypeOK'
  BY <1>1, <1>7, <1>9, <1>12, <1>14 DEF TypeOK
<1> QED
  BY <1>1, <1>7, <1>12, <1>14, <1>15, RestKeeps

LEMMA PopTailKeeps ==
  ASSUME ListInv, HeadPopped, PopTail
  PROVE  ListInv'
<1> DEFINE len == Len(order)
           t == list.tail
           p == elt[t].prev
<1>1. /\ Ready /\ t # Nil /\ TypeOK /\ NodesInOrder /\ len \in Nat
      /\ list = [head |-> Nth(1), tail |-> Nth(len), size |-> len]
      /\ \A k \in 1..len : Nth(k) = order[k] /\ order[k] \in live
      /\ len # 0
  BY AtRest DEF PopTail
<1>2. len > 1
  BY <1>1 DEF PopTail, Allowed
<1>3. DOMAIN order = 1..len /\ order \in Seq(Node)
      /\ \A x : x \notin 1..len => Nth(x) = Nil
      /\ \A k \in 1..len : order[k] \in Node /\ order[k] # Nil
  BY <1>1, OrderDomain DEF TypeOK
<1>4. \A i, j \in 1..len : order[i] = order[j] => i = j
  BY <1>1, <1>3 DEF NodesInOrder
<1>5. 1 \in 1..len /\ len \in 1..len /\ len - 1 \in 1..len
  BY <1>1, <1>2
<1>6. /\ t = order[len] /\ list.head = order[1] /\ t # list.head
      /\ p = order[len - 1] /\ p # t /\ p \in live /\ p \in Node /\ t \in live
      /\ t \in Node
  <2>1. t = order[len] /\ list.head = order[1]
    BY <1>1, <1>5
  <2>2. p = order[len - 1]
    BY <2>1, <1>1, <1>2, <1>3, <1>5 DEF NodesInOrder
  <2> QED
    BY <2>1, <2>2, <1>1, <1>2, <1>3, <1>4, <1>5
<1>7. /\ list' = [list EXCEPT !.tail = p, !.size = list.size - 1]
      /\ elt' = Wiped([elt EXCEPT ![p].next = Nil], t)
      /\ live' = live \ {order[len]} /\ order' = Without(order, len)
      /\ UNCHANGED <<loop, fault>>
  BY <1>6 DEF PopTail, Free
<1>8. elt \in [Node -> EltT] /\ Nil \in Pointer
  BY <1>1 DEF TypeOK, Pointer
<1> HIDE DEF len, t, p
<1> DEFINE e == [elt EXCEPT ![p].next = Nil]
<1>9. /\ elt' \in [Node -> EltT]
      /\ elt'[p].next = Nil
      /\ \A m \in Node \ {t, p} : elt'[m].next = elt[m].next
      /\ \A m \in Node \ {t} : elt'[m].prev = elt[m].prev
  <2>1. /\ e \in [Node -> EltT] /\ e[p].next = Nil /\ e[p].prev = elt[p].prev
        /\ \A m \in Node \ {p} : e[m] = elt[m]
    BY <1>6, <1>8, StoredNext
  <2>2. elt' = Wiped(e, t)
    BY <1>7
  <2> HIDE DEF e
  <2>3. elt' \in [Node -> EltT] /\ \A m \in Node \ {t} : elt'[m] = e[m]
    BY <2>1, <2>2, <1>6, WipedNode
  <2> QED
    BY <2>1, <2>3, <1>6
<1>10. \A j \in DOMAIN order \ {len} :
         elt'[order[j]].next = IF j = len - 1 THEN Nth(len + 1) ELSE elt[order[j]].next
  <2> SUFFICES ASSUME NEW j \in 1..len, j # len
               PROVE  elt'[order[j]].next = IF j = len - 1 THEN Nth(len + 1)
                                            ELSE elt[order[j]].next
    BY <1>3
  <2>1. CASE j = len - 1
    <3>1. Nth(len + 1) = Nil
      BY <1>1, <1>3
    <3> QED
      BY <2>1, <3>1, <1>6, <1>9
  <2>2. CASE j # len - 1
    BY <2>2, <1>3, <1>4, <1>5, <1>6, <1>9
  <2> QED
    BY <2>1, <2>2
<1>11. \A j \in DOMAIN order \ {len} : j > 1 /\ ~(len = 1 /\ j = 2) =>
         elt'[order[j]].prev = IF j = len + 1 THEN Nth(len - 1) ELSE elt[order[j]].prev
  <2> SUFFICES ASSUME NEW j \in 1..len, j # len
               PROVE  elt'[order[j]].prev = elt[order[j]].prev
    BY <1>1, <1>3
  <2> QED
    BY <1>3, <1>4, <1>5, <1>6, <1>9
<1>12. NodesInOrder' /\ order' \in Seq(Node) /\ live' \subseteq Node /\ Len(order') = len - 1
  BY <1>1, <1>3, <1>5, <1>7, <1>10, <1>11, Removal DEF len
<1>13. \A k \in 1..(len - 1) : order'[k] = order[k]
  <2>1. \A k \in 1..(len - 1) : Without(order, len)[k] = IF k < len THEN order[k] ELSE order[k + 1]
    BY <1>3, <1>5, WithoutElement DEF len
  <2> QED
    BY <2>1, <1>1, <1>7
<1>14. EndsInOrder' /\ list' \in ListT
  <2>1. Len(order') = len - 1 /\ DOMAIN order' = 1..(len - 1)
    BY <1>12
  <2>2. list' = [head |-> order[1], tail |-> order[len - 1], size |-> len - 1]
    <3>1. list = [head |-> order[1], tail |-> order[len], size |-> len]
      BY <1>1, <1>5
    <3> QED
      BY <3>1, <1>6, <1>7
  <2>3. 1 \in 1..(len - 1) /\ len - 1 \in 1..(len - 1) /\ len - 1 \in Nat
    BY <1>1, <1>2
  <2>4. Nth(1)' = order[1] /\ Nth(Len(order))' = order[len - 1]
    BY <2>1, <2>3, <1>13 DEF Nth
  <2> QED
    BY <2>1, <2>2, <2>3, <2>4, <1>3, <1>5 DEF EndsInOrder, ListT, Pointer
<1>15. TypeOK'
  BY <1>1, <1>7, <1>9, <1>12, <1>14 DEF TypeOK
<1> QED
  BY <1>1, <1>7, <1>12, <1>14, <1>15, RestKeeps
-----------------------------------------------------------------------------
\* The element a walk is at, and the one behind it.
LEMMA WalkPosition ==
  ASSUME ListInv, loop.at \in Walks
  PROVE  /\ loop.i \in Nat /\ loop.cur = Nth(loop.i + 1)
         /\ loop.cur \in live => /\ loop.i + 1 \in DOMAIN order
                                 /\ loop.cur = order[loop.i + 1] /\ loop.cur \in Node
                                 /\ elt[loop.cur].next = Nth(loop.i + 2)
         /\ loop.cur \notin live => loop.cur = Nil /\ loop.i + 1 \notin DOMAIN order
<1>1. TypeOK /\ NodesInOrder /\ ~fault /\ loop.at # "for_each_rev"
  BY DEF ListInv, ListInOrder, NoWalkBack
<1>2. loop.i \in Nat /\ live \subseteq Node
  BY <1>1 DEF TypeOK, LoopT
<1>3. loop.cur = Nth(loop.i + 1)
  BY <1>1 DEF ListInv, WalkInOrder
<1>4. loop.cur \in live =>
        loop.i + 1 \in DOMAIN order /\ loop.cur = order[loop.i + 1] /\ loop.cur \in Node
  BY <1>1, <1>2, <1>3, OrderDomain, ListAssumption
<1>5. loop.i + 1 \in DOMAIN order => elt[order[loop.i + 1]].next = Nth(loop.i + 2)
  <2>1. (loop.i + 1) + 1 = loop.i + 2
    BY <1>2
  <2> QED
    BY <1>1, <2>1 DEF NodesInOrder
<1>6. loop.i + 1 \in DOMAIN order => loop.cur \in live
  BY <1>1, <1>3, OrderDomain DEF NodesInOrder
<1>7. loop.i + 1 \notin DOMAIN order => loop.cur = Nil
  BY <1>1, <1>3, OrderDomain
<1> QED
  BY <1>2, <1>3, <1>4, <1>5, <1>6, <1>7

LEMMA NewKeeps ==
  ASSUME ListInv, New
  PROVE  ListInv'
<1>1. /\ TypeOK /\ NodesInOrder /\ ~fault /\ order = <<>>
      /\ list' = Empty /\ loop' = Idle /\ UNCHANGED <<elt, live, fault, order>>
  BY DEF ListInv, ListInOrder, New, Gone
<1>2. Empty \in ListT /\ Idle \in LoopT
  BY DEF Empty, ListT, Pointer, Idle, LoopT
<1>3. TypeOK'
  BY <1>1, <1>2 DEF TypeOK
<1>4. EndsInOrder'
  <2>1. Nth(1)' = Nil /\ Nth(Len(order))' = Nil /\ Len(order') = 0
    BY <1>1 DEF Nth
  <2> QED
    BY <1>1, <2>1 DEF EndsInOrder, Empty
<1>5. NodesInOrder'
  BY <1>1 DEF NodesInOrder, Nth
<1> QED
  BY <1>1, <1>3, <1>4, <1>5
  DEF ListInv, ListInOrder, WalkInOrder, HeadKept, NoWalkBack, Idle, Walks

\* A step that only moves the walk.
LEMMA NodesKept ==
  ASSUME NodesInOrder, UNCHANGED <<elt, live, order>>
  PROVE  NodesInOrder'
BY DEF NodesInOrder, Nth

\* The start of a walk at the head.
LEMMA BeginKeeps ==
  ASSUME ListInv, NEW at \in Walks, NEW arg \in Nat \cup Value \cup {Nil},
         Begin(at, list.head, 0, arg), at # "for_each_rev",
         at = "remove_at" => arg # 0,
         at = "remove_eq" /\ order # <<>> => elt[order[1]].value # arg
  PROVE  ListInv'
<1>1. /\ TypeOK /\ NodesInOrder /\ Ready
      /\ list = [head |-> Nth(1), tail |-> Nth(Len(order)), size |-> Len(order)]
      /\ UNCHANGED <<list, elt, live, fault, order>>
      /\ loop' = [at |-> at, cur |-> list.head, i |-> 0, arg |-> arg]
  BY AtRest DEF Begin
<1>2. loop' \in LoopT
  BY <1>1 DEF LoopT, TypeOK, ListT
<1>3. TypeOK'
  BY <1>1, <1>2 DEF TypeOK
<1>4. NodesInOrder'
  BY <1>1, NodesKept
<1>5. list.head = Nth(1) /\ Nth(1)' = Nth(1) /\ Nth(Len(order))' = Nth(Len(order))
  BY <1>1 DEF Nth
<1>6. EndsInOrder'
  BY <1>1, <1>5 DEF EndsInOrder
<1>7. WalkInOrder'
  <2>1. loop'.cur = list.head /\ loop'.i + 1 = 1
    BY <1>1
  <2> QED
    BY <1>5, <2>1 DEF WalkInOrder
<1>8. HeadKept' /\ NoWalkBack' /\ ~fault' /\ loop'.at # "gone"
      /\ (loop'.at = "free" => loop'.i = 0)
  BY <1>1 DEF HeadKept, NoWalkBack, Ready, Walks
<1> QED
  BY <1>3, <1>4, <1>6, <1>7, <1>8 DEF ListInv, ListInOrder

LEMMA CallsKeep ==
  ASSUME ListInv, HeadPopped
  PROVE  /\ \A index \in 0..Len(order) :
              GetCall(index) \/ RemoveAtCall(index) => ListInv'
         /\ \A v \in Value : RemoveEqCall(v) => ListInv'
         /\ ForEachCall \/ FreeCall => ListInv'
<1>1. ASSUME NEW index \in 0..Len(order), GetCall(index) PROVE ListInv'
  BY <1>1, BeginKeeps DEF GetCall, Walks
<1>2. ASSUME NEW index \in 0..Len(order), RemoveAtCall(index) PROVE ListInv'
  <2>1. index # 0 /\ Begin("remove_at", list.head, 0, index)
    BY <1>2 DEF RemoveAtCall, Allowed
  <2> QED
    BY <2>1, BeginKeeps DEF Walks
<1>3. ASSUME NEW v \in Value, RemoveEqCall(v) PROVE ListInv'
  <2>1. order # <<>> => elt[order[1]].value # v
    BY <1>3 DEF RemoveEqCall, Allowed
  <2>2. Begin("remove_eq", list.head, 0, v)
    BY <1>3 DEF RemoveEqCall
  <2> QED
    BY <2>1, <2>2, BeginKeeps DEF Walks
<1>4. ASSUME ForEachCall PROVE ListInv'
  BY <1>4, BeginKeeps DEF ForEachCall, Walks
<1>5. ASSUME FreeCall PROVE ListInv'
  BY <1>5, BeginKeeps DEF FreeCall, Walks
<1> QED
  BY <1>1, <1>2, <1>3, <1>4, <1>5

LEMMA PassKeeps ==
  ASSUME ListInv, Pass
  PROVE  ListInv'
<1>1. /\ loop.at \in {"get", "remove_at", "remove_eq", "for_each"}
      /\ loop.cur \in live /\ ~fault
      /\ loop' = [loop EXCEPT !.cur = elt[loop.cur].next, !.i = loop.i + 1]
      /\ UNCHANGED <<list, elt, live, fault, order>>
  BY DEF Pass, At, NextElt
<1>2. /\ TypeOK /\ NodesInOrder /\ EndsInOrder /\ HeadKept
  BY DEF ListInv, ListInOrder
<1>3. loop.i \in Nat /\ loop.cur \in Node /\ elt[loop.cur].next = Nth(loop.i + 2)
  BY <1>1, WalkPosition DEF Walks
<1>4. /\ loop' \in LoopT /\ loop'.at = loop.at /\ loop'.arg = loop.arg
      /\ loop'.cur = elt[loop.cur].next /\ loop'.i = loop.i + 1
  <2> DEFINE x == elt[loop.cur].next
  <2>1. loop \in LoopT /\ x \in Pointer /\ loop.i + 1 \in Nat
    BY <1>2, <1>3, EltFields DEF TypeOK
  <2>2. loop' = [loop EXCEPT !.cur = x, !.i = loop.i + 1]
    BY <1>1
  <2> HIDE DEF x
  <2>3. loop' = [at |-> loop.at, cur |-> x, i |-> loop.i + 1, arg |-> loop.arg]
    BY <2>1, <2>2 DEF LoopT
  <2>4. loop' \in LoopT
    BY <2>1, <2>3 DEF LoopT
  <2> QED
    BY <2>3, <2>4 DEF x
<1>5. TypeOK' /\ NodesInOrder'
  BY <1>1, <1>2, <1>4, NodesKept DEF TypeOK
<1>6. EndsInOrder' /\ HeadKept'
  BY <1>1, <1>2, <1>4 DEF EndsInOrder, HeadKept, Nth
<1>7. WalkInOrder'
  <2>1. loop'.i + 1 = loop.i + 2
    BY <1>3, <1>4
  <2>2. \A k : Nth(k)' = Nth(k)
    BY <1>1 DEF Nth
  <2>3. (loop.cur)' = Nth(loop.i + 1)'
    BY <2>1, <2>2, <1>3, <1>4
  <2> QED
    BY <2>3 DEF WalkInOrder
<1> QED
  BY <1>1, <1>4, <1>5, <1>6, <1>7 DEF ListInv, ListInOrder, NoWalkBack

\* The end of a call that has moved nothing.
LEMMA BackToIdle ==
  ASSUME ListInv, loop.at \in Walks, loop.at # "free", loop' = Idle,
         UNCHANGED <<list, elt, live, fault, order>>
  PROVE  ListInv'
<1>1. TypeOK /\ NodesInOrder /\ EndsInOrder /\ ~fault
  BY DEF ListInv, ListInOrder
<1>2. TypeOK' /\ NodesInOrder'
  <2>1. Idle \in LoopT
    BY DEF Idle, LoopT, Pointer
  <2> QED
    BY <1>1, <2>1, NodesKept DEF TypeOK
<1>3. EndsInOrder'
  BY <1>1 DEF EndsInOrder, Nth, Walks
<1> QED
  BY <1>1, <1>2, <1>3
  DEF ListInv, ListInOrder, WalkInOrder, HeadKept, NoWalkBack, Idle, Walks

LEMMA ReturnKeeps ==
  ASSUME ListInv, Return
  PROVE  ListInv'
<1>1. loop.at \in Walks /\ loop.cur \notin live /\ ~fault
  BY DEF Return
<1>2. loop.cur = Nil /\ loop.i + 1 \notin DOMAIN order
  BY <1>1, WalkPosition
<1>3. loop' = (IF loop.at = "free" THEN Gone ELSE Idle)
      /\ UNCHANGED <<list, elt, live, fault, order>>
  BY <1>2 DEF Return
<1>4. CASE loop.at # "free"
  BY <1>1, <1>3, <1>4, BackToIdle
<1>5. CASE loop.at = "free"
  <2>1. TypeOK /\ NodesInOrder
    BY DEF ListInv, ListInOrder
  <2>2. order = <<>>
    <3>1. loop.i = 0
      BY <1>5 DEF ListInv
    <3>2. Len(order) = 0 /\ order \in Seq(Node)
      BY <3>1, <2>1, <1>2, OrderDomain DEF TypeOK
    <3> QED
      BY <3>2
  <2>3. TypeOK' /\ NodesInOrder'
    <3>1. Gone \in LoopT
      BY DEF Gone, LoopT, Pointer
    <3> QED
      BY <3>1, <1>3, <1>5, <2>1, NodesKept DEF TypeOK
  <2> QED
    BY <2>2, <2>3, <1>1, <1>3, <1>5
    DEF ListInv, ListInOrder, EndsInOrder, WalkInOrder, HeadKept, NoWalkBack, Gone, Walks
<1> QED
  BY <1>4, <1>5

LEMMA FreeEltKeeps ==
  ASSUME ListInv, FreeElt
  PROVE  ListInv'
<1> DEFINE len == Len(order)
           c == loop.cur
           x == elt[c].next
<1>1. /\ loop.at = "free" /\ c \in live /\ ~fault /\ loop.i = 0
      /\ loop' = [loop EXCEPT !.cur = x]
      /\ elt' = Wiped(elt, c) /\ live' = live \ {c} /\ order' = Without(order, 1)
      /\ UNCHANGED <<list, fault>>
  BY DEF FreeElt, At, Free, ListInv
<1>2. TypeOK /\ NodesInOrder
  BY DEF ListInv, ListInOrder
<1>3. 1 \in DOMAIN order /\ c = order[1] /\ c \in Node /\ x = Nth(2)
  BY <1>1, WalkPosition DEF Walks
<1>4. len \in Nat /\ DOMAIN order = 1..len /\ order \in Seq(Node)
      /\ \A k \in 1..len : order[k] \in Node
  BY <1>2, OrderDomain DEF TypeOK
<1>5. \A i, j \in 1..len : order[i] = order[j] => i = j
  BY <1>2, <1>4 DEF NodesInOrder
<1>6. elt' \in [Node -> EltT] /\ \A m \in Node \ {c} : elt'[m] = elt[m]
  BY <1>1, <1>2, <1>3, WipedNode DEF TypeOK
<1> HIDE DEF len, c, x
<1>7. \A j \in DOMAIN order \ {1} : elt'[order[j]] = elt[order[j]]
  BY <1>3, <1>4, <1>5, <1>6
<1>8. \A j \in DOMAIN order \ {1} :
        elt'[order[j]].next = IF j = 1 - 1 THEN Nth(1 + 1) ELSE elt[order[j]].next
  BY <1>4, <1>7
<1>9. \A j \in DOMAIN order \ {1} : j > 1 /\ ~(1 = 1 /\ j = 2) =>
        elt'[order[j]].prev = IF j = 1 + 1 THEN Nth(1 - 1) ELSE elt[order[j]].prev
  BY <1>4, <1>7
<1>10. NodesInOrder' /\ order' \in Seq(Node) /\ live' \subseteq Node /\ Len(order') = len - 1
  BY <1>1, <1>2, <1>3, <1>8, <1>9, Removal DEF len
<1>11. Nth(1)' = Nth(2)
  <2>1. \A k \in 1..(len - 1) : order'[k] = order[k + 1]
    BY <1>1, <1>3, <1>4, WithoutElement DEF len
  <2>2. DOMAIN order' = 1..(len - 1)
    BY <1>10
  <2>3. CASE len = 1
    BY <2>2, <2>3, <1>4 DEF Nth
  <2>4. CASE len > 1
    <3>1. 1 \in 1..(len - 1) /\ 2 \in 1..len
      BY <2>4, <1>4
    <3> QED
      BY <2>1, <2>2, <3>1, <1>4 DEF Nth
  <2> QED
    BY <2>3, <2>4, <1>3, <1>4
<1>12. /\ loop' \in LoopT /\ loop'.at = "free" /\ loop'.i = 0 /\ loop'.cur = x
  <2>1. loop \in LoopT /\ x \in Pointer
    BY <1>2, <1>3, EltFields DEF TypeOK, x
  <2> QED
    BY <2>1, <1>1 DEF LoopT
<1>13. TypeOK'
  BY <1>1, <1>2, <1>6, <1>10, <1>12 DEF TypeOK
<1>14. WalkInOrder'
  <2>1. loop'.i + 1 = 1
    BY <1>12
  <2> QED
    BY <2>1, <1>3, <1>11, <1>12 DEF WalkInOrder
<1>15. EndsInOrder' /\ HeadKept' /\ NoWalkBack'
  BY <1>12 DEF EndsInOrder, HeadKept, NoWalkBack
<1> QED
  BY <1>1, <1>10, <1>12, <1>13, <1>14, <1>15 DEF ListInv, ListInOrder

(***************************************************************************)
(* remove_elt, at any element but the first.                               *)
(***************************************************************************)
LEMMA UnlinkedNodes ==
  ASSUME NEW n \in Node, elt \in [Node -> EltT],
         elt[n].prev \in Node, elt[n].prev # n,
         elt[n].next \in Node \cup {Nil}, elt[n].next # n,
         elt[n].next # elt[n].prev
  PROVE  LET u == Wiped(Unlinked(n), n)
         IN /\ u \in [Node -> EltT]
            /\ u[elt[n].prev].next = elt[n].next
            /\ elt[n].next # Nil => u[elt[n].next].prev = elt[n].prev
            /\ \A m \in Node \ {n, elt[n].prev} : u[m].next = elt[m].next
            /\ \A m \in Node \ {n, elt[n].next} : u[m].prev = elt[m].prev
            /\ \A m \in Node \ {n} : u[m].value = elt[m].value
<1> DEFINE p == elt[n].prev
           x == elt[n].next
           front == [elt EXCEPT ![p].next = x]
           back == [front EXCEPT ![x].prev = p]
           un == IF x = Nil THEN front ELSE back
           u == Wiped(un, n)
<1>1. p # Nil /\ p \in Node /\ p # n /\ x # n /\ x # p /\ x \in Node \cup {Nil}
      /\ Nil \notin Node /\ p \in Pointer /\ x \in Pointer
  BY ListAssumption DEF Pointer
<1>2. Unlinked(n) = un
  BY <1>1 DEF Unlinked
<1> HIDE DEF p, x
<1>3. /\ front \in [Node -> EltT] /\ front[p].next = x /\ front[p].prev = elt[p].prev
      /\ front[p].value = elt[p].value /\ \A m \in Node \ {p} : front[m] = elt[m]
  BY <1>1, StoredNext
<1> HIDE DEF front
<1>4. x # Nil =>
      /\ back \in [Node -> EltT] /\ back[x].prev = p /\ back[x].next = front[x].next
      /\ back[x].value = front[x].value /\ \A m \in Node \ {x} : back[m] = front[m]
  BY <1>1, <1>3, StoredPrev
<1> HIDE DEF back
<1>5. /\ un \in [Node -> EltT] /\ un[p].next = x
      /\ x # Nil => un[x].prev = p
      /\ \A m \in Node \ {n, p} : un[m].next = elt[m].next
      /\ \A m \in Node \ {n, x} : un[m].prev = elt[m].prev
      /\ \A m \in Node \ {n} : un[m].value = elt[m].value
  <2>1. CASE x = Nil
    <3>1. un = front
      BY <2>1
    <3>2. \A m \in Node : front[m].prev = elt[m].prev /\ front[m].value = elt[m].value
      BY <1>3
    <3> HIDE DEF un
    <3> QED
      BY <2>1, <3>1, <3>2, <1>1, <1>3
  <2>2. CASE x # Nil
    <3>1. un = back /\ x \in Node
      BY <2>2, <1>1
    <3>2. \A m \in Node : front[m].prev = elt[m].prev /\ front[m].value = elt[m].value
      BY <1>3
    <3>3. \A m \in Node : back[m].next = front[m].next /\ back[m].value = front[m].value
      BY <2>2, <1>4
    <3> HIDE DEF un
    <3> QED
      BY <2>2, <3>1, <3>2, <3>3, <1>1, <1>3, <1>4
  <2> QED
    BY <2>1, <2>2
<1> HIDE DEF un
<1>6. u \in [Node -> EltT] /\ \A m \in Node \ {n} : u[m] = un[m]
  BY <1>5, WipedNode
<1> HIDE DEF u
<1>7. /\ u \in [Node -> EltT] /\ u[p].next = x
      /\ x # Nil => u[x].prev = p
      /\ \A m \in Node \ {n, p} : u[m].next = elt[m].next
      /\ \A m \in Node \ {n, x} : u[m].prev = elt[m].prev
      /\ \A m \in Node \ {n} : u[m].value = elt[m].value
  BY <1>1, <1>5, <1>6
<1>8. u = Wiped(Unlinked(n), n)
  BY <1>2 DEF u
<1> QED
  BY <1>7, <1>8 DEF p, x

LEMMA RemoveKeeps ==
  ASSUME ListInv, Remove
  PROVE  ListInv'
<1> DEFINE len == Len(order)
           c == loop.cur
           k == loop.i + 1
<1>1. /\ loop.at \in {"remove_at", "remove_eq"} /\ c \in live /\ ~fault
      /\ loop.at = "remove_at" => loop.i = loop.arg
      /\ loop.at = "remove_eq" => elt[c].value = loop.arg
  BY DEF Remove, At
<1>2. TypeOK /\ NodesInOrder /\ EndsInOrder /\ HeadKept
  BY DEF ListInv, ListInOrder
<1>3. /\ loop.i \in Nat /\ k \in DOMAIN order /\ c = order[k] /\ c \in Node
      /\ elt[c].next = Nth(k + 1)
  <2>1. (loop.i + 1) + 1 = loop.i + 2
    BY <1>1, WalkPosition DEF Walks
  <2> QED
    BY <2>1, <1>1, WalkPosition DEF Walks
<1>4. len \in Nat /\ DOMAIN order = 1..len /\ order \in Seq(Node)
      /\ \A j \in 1..len : order[j] \in Node /\ order[j] # Nil
      /\ \A x : Nth(x) = IF x \in 1..len THEN order[x] ELSE Nil
  BY <1>2, OrderDomain DEF TypeOK
<1>5. \A i, j \in 1..len : order[i] = order[j] => i = j
  BY <1>2, <1>4 DEF NodesInOrder
<1>6. k > 1
  <2>1. CASE loop.at = "remove_at"
    BY <2>1, <1>1, <1>2, <1>3 DEF HeadKept
  <2>2. CASE loop.at = "remove_eq"
    <3>1. order # <<>>
      BY <1>3, <1>4
    <3>2. c # order[1]
      BY <2>2, <3>1, <1>1, <1>2 DEF HeadKept
    <3> QED
      BY <3>2, <1>3, <1>4
  <2> QED
    BY <2>1, <2>2, <1>1
<1> HIDE DEF len, c, k
<1>7. k \in 1..len /\ k - 1 \in 1..len /\ 1 \in 1..len /\ len \in 1..len
      /\ k \in Nat /\ k - 1 # k
  BY <1>3, <1>4, <1>6
<1>8. elt[c].prev = order[k - 1] /\ order[k - 1] \in Node /\ order[k - 1] # c
      /\ order[k - 1] \in live
  <2>1. elt[c].prev = Nth(k - 1)
    BY <1>2, <1>3, <1>6 DEF NodesInOrder
  <2>2. \A j \in 1..len : order[j] \in live
    BY <1>2, <1>4 DEF NodesInOrder
  <2> QED
    BY <2>1, <2>2, <1>3, <1>4, <1>5, <1>7
<1>9. /\ elt[c].next \in Node \cup {Nil} /\ elt[c].next # c
      /\ elt[c].next # order[k - 1]
      /\ elt[c].next \in live \cup {Nil}
  <2>1. \A j \in 1..len : order[j] \in live
    BY <1>2, <1>4 DEF NodesInOrder
  <2>2. CASE k = len
    <3>1. elt[c].next = Nil
      BY <2>2, <1>3, <1>4
    <3> QED
      BY <3>1, <1>3, <1>8, ListAssumption
  <2>3. CASE k # len
    <3>1. k + 1 \in 1..len /\ k + 1 # k /\ k + 1 # k - 1
      BY <2>3, <1>7, <1>4
    <3>2. elt[c].next = order[k + 1]
      BY <3>1, <1>3, <1>4
    <3>3. order[k + 1] # order[k] /\ order[k + 1] # order[k - 1]
      BY <3>1, <1>5, <1>7
    <3> QED
      BY <2>1, <3>1, <3>2, <3>3, <1>3, <1>4
  <2> QED
    BY <2>2, <2>3
<1>10. /\ elt' = Wiped(Unlinked(c), c)
       /\ list' = [head |-> IF list.head = c THEN elt[c].next ELSE list.head,
                   tail |-> IF list.tail = c THEN elt[c].prev ELSE list.tail,
                   size |-> list.size - 1]
       /\ live' = live \ {c} /\ order' = Without(order, k) /\ UNCHANGED fault
       /\ loop' = IF loop.at = "remove_at" THEN Idle
                  ELSE [loop EXCEPT !.cur = elt[c].next]
  <2>1. Around(c) \subseteq live
    BY <1>8, <1>9 DEF Around
  <2> QED
    BY <2>1 DEF Remove, RemoveElt, Free, c, k
<1>11. elt \in [Node -> EltT]
  BY <1>2 DEF TypeOK
<1>12. /\ elt' \in [Node -> EltT]
       /\ elt'[elt[c].prev].next = elt[c].next
       /\ elt[c].next # Nil => elt'[elt[c].next].prev = elt[c].prev
       /\ \A m \in Node \ {c, elt[c].prev} : elt'[m].next = elt[m].next
       /\ \A m \in Node \ {c, elt[c].next} : elt'[m].prev = elt[m].prev
       /\ \A m \in Node \ {c} : elt'[m].value = elt[m].value
  BY <1>3, <1>8, <1>9, <1>10, <1>11, UnlinkedNodes
<1>13. \A j \in DOMAIN order \ {k} :
         elt'[order[j]].next = IF j = k - 1 THEN Nth(k + 1) ELSE elt[order[j]].next
  <2> SUFFICES ASSUME NEW j \in 1..len, j # k
               PROVE  elt'[order[j]].next = IF j = k - 1 THEN Nth(k + 1)
                                            ELSE elt[order[j]].next
    BY <1>4
  <2>1. CASE j = k - 1
    BY <2>1, <1>3, <1>8, <1>12
  <2>2. CASE j # k - 1
    <3>1. order[j] \in Node \ {c, elt[c].prev}
      BY <2>2, <1>3, <1>4, <1>5, <1>7, <1>8
    <3> QED
      BY <2>2, <3>1, <1>12
  <2> QED
    BY <2>1, <2>2
<1>14. \A j \in DOMAIN order \ {k} : j > 1 /\ ~(k = 1 /\ j = 2) =>
         elt'[order[j]].prev = IF j = k + 1 THEN Nth(k - 1) ELSE elt[order[j]].prev
  <2> SUFFICES ASSUME NEW j \in 1..len, j # k
               PROVE  elt'[order[j]].prev = IF j = k + 1 THEN Nth(k - 1)
                                            ELSE elt[order[j]].prev
    BY <1>4
  <2>1. CASE j = k + 1
    <3>1. elt[c].next = order[j] /\ order[j] # Nil /\ Nth(k - 1) = order[k - 1]
      BY <2>1, <1>3, <1>4, <1>7
    <3> QED
      BY <2>1, <3>1, <1>8, <1>12
  <2>2. CASE j # k + 1
    <3>1. order[j] # elt[c].next
      BY <2>2, <1>3, <1>4, <1>5
    <3>2. order[j] \in Node \ {c, elt[c].next}
      BY <3>1, <1>3, <1>4, <1>5, <1>7
    <3> QED
      BY <2>2, <3>2, <1>12
  <2> QED
    BY <2>1, <2>2
<1>15. NodesInOrder' /\ order' \in Seq(Node) /\ live' \subseteq Node /\ Len(order') = len - 1
  BY <1>2, <1>3, <1>10, <1>13, <1>14, Removal DEF len
<1>16. /\ DOMAIN order' = 1..(len - 1)
       /\ \A j \in 1..(len - 1) : order'[j] = IF j < k THEN order[j] ELSE order[j + 1]
  BY <1>3, <1>4, <1>10, WithoutElement DEF len
<1>17. 1 \in 1..(len - 1) /\ len - 1 \in 1..(len - 1) /\ len - 1 \in Nat
       /\ order'[1] = order[1]
  BY <1>4, <1>6, <1>7, <1>16
<1>18. list' = [head |-> order[1], tail |-> IF k = len THEN order[len - 1] ELSE order[len],
                size |-> len - 1]
  <2>1. list = [head |-> Nth(1), tail |-> Nth(Len(order)), size |-> Len(order)]
    BY <1>1, <1>2 DEF EndsInOrder
  <2>2. list.head = order[1] /\ list.tail = order[len] /\ list.size = len
    BY <2>1, <1>4, <1>7 DEF len
  <2>3. order[1] # c /\ (order[len] = c <=> k = len)
    BY <1>3, <1>5, <1>6, <1>7
  <2> QED
    BY <2>2, <2>3, <1>8, <1>10
<1>19. EndsInOrder' /\ list' \in ListT
  <2>1. order'[len - 1] = IF k = len THEN order[len - 1] ELSE order[len]
    BY <1>4, <1>7, <1>16, <1>17
  <2>2. Nth(1)' = order[1] /\ Nth(Len(order))' = order'[len - 1]
    BY <1>15, <1>16, <1>17 DEF Nth
  <2>3. order'[len - 1] \in Node
    BY <2>1, <1>4, <1>7, <1>17
  <2> QED
    BY <2>1, <2>2, <2>3, <1>4, <1>7, <1>15, <1>17, <1>18 DEF EndsInOrder, ListT, Pointer
<1>20. \A j : j = k => Nth(j)' = Nth(k + 1)
  <2>1. \A j : Nth(j)' = IF j \in 1..(len - 1) THEN order'[j] ELSE Nil
    BY <1>16 DEF Nth
  <2>2. CASE k = len
    <3>1. k \notin 1..(len - 1) /\ k + 1 \notin 1..len
      BY <2>2, <1>4, <1>7
    <3>2. Nth(k + 1) = Nil
      BY <3>1, <1>4, <1>7
    <3> QED
      BY <2>1, <3>1, <3>2
  <2>3. CASE k # len
    <3>1. k \in 1..(len - 1) /\ k + 1 \in 1..len
      BY <2>3, <1>4, <1>7
    <3>2. order'[k] = order[k + 1] /\ Nth(k + 1) = order[k + 1]
      BY <3>1, <1>4, <1>7, <1>16
    <3> QED
      BY <2>1, <3>1, <3>2
  <2> QED
    BY <2>2, <2>3
<1>21. loop' \in LoopT
  <2>1. Idle \in LoopT /\ loop \in LoopT /\ elt[c].next \in Pointer
    BY <1>2, <1>3, EltFields DEF TypeOK, Idle, LoopT, Pointer
  <2> QED
    BY <2>1, <1>10 DEF LoopT
<1>22. TypeOK'
  BY <1>2, <1>10, <1>12, <1>15, <1>19, <1>21 DEF TypeOK
<1>23. ListInOrder'
  BY <1>1, <1>10, <1>15, <1>19 DEF ListInOrder
<1>24. CASE loop.at = "remove_at"
  <2>1. loop' = Idle
    BY <1>10, <1>24
  <2> QED
    BY <2>1, <1>22, <1>23 DEF ListInv, WalkInOrder, HeadKept, NoWalkBack, Idle, Walks
<1>25. CASE loop.at = "remove_eq"
  <2>1. /\ loop'.at = "remove_eq" /\ loop'.cur = elt[c].next
        /\ loop'.i = loop.i /\ loop'.arg = loop.arg
    BY <1>2, <1>10, <1>25 DEF TypeOK, LoopT
  <2>2. WalkInOrder'
    <3>1. loop'.i + 1 = k
      BY <2>1 DEF k
    <3> QED
      BY <2>1, <3>1, <1>3, <1>20 DEF WalkInOrder
  <2>3. elt'[order'[1]].value = elt[order[1]].value
    <3>1. order[1] # c /\ order[1] \in Node
      BY <1>3, <1>4, <1>5, <1>6, <1>7
    <3> QED
      BY <3>1, <1>12, <1>17
  <2>4. HeadKept'
    <3>1. order # <<>>
      BY <1>4, <1>7 DEF len
    <3>2. elt[order[1]].value # loop.arg
      BY <3>1, <1>2, <1>25 DEF HeadKept
    <3> QED
      BY <2>1, <2>3, <3>2 DEF HeadKept
  <2> QED
    BY <2>1, <2>2, <2>4, <1>22, <1>23 DEF ListInv, NoWalkBack
<1> QED
  BY <1>1, <1>24, <1>25
-----------------------------------------------------------------------------
LEMMA GetFoundKeeps ==
  ASSUME ListInv, GetFound
  PROVE  ListInv'
<1>1. loop.at = "get" /\ loop' = Idle /\ UNCHANGED <<list, elt, live, fault, order>>
  BY DEF GetFound, At
<1> QED
  BY <1>1, BackToIdle DEF Walks

LEMMA StutterKeeps ==
  ASSUME ListInv, UNCHANGED vars
  PROVE  ListInv'
<1>1. UNCHANGED <<list, elt, live, loop, fault, order>> /\ \A k : Nth(k)' = Nth(k)
  BY DEF vars, Nth
<1>2. TypeOK' /\ NodesInOrder' /\ EndsInOrder'
  <2>1. TypeOK /\ NodesInOrder /\ EndsInOrder
    BY DEF ListInv, ListInOrder
  <2>2. TypeOK'
    BY <1>1, <2>1 DEF TypeOK
  <2>3. NodesInOrder'
    BY <1>1, <2>1 DEF NodesInOrder
  <2>4. EndsInOrder'
    BY <1>1, <2>1 DEF EndsInOrder, Nth
  <2> QED
    BY <2>2, <2>3, <2>4
<1>3. WalkInOrder'
  BY <1>1 DEF ListInv, WalkInOrder, Nth
<1> QED
  BY <1>1, <1>2, <1>3 DEF ListInv, ListInOrder, HeadKept, NoWalkBack

LEMMA NextListInv ==
  ASSUME HeadPopped
  PROVE  ListInv /\ [Next]_vars => ListInv'
<1> SUFFICES ASSUME ListInv, [Next]_vars PROVE ListInv'
  OBVIOUS
<1>1. CASE New
  BY <1>1, NewKeeps
<1>2. CASE PopTail
  BY <1>2, PopTailKeeps
<1>3. CASE PopFront
  BY <1>3, PopFrontKeeps
<1>4. ASSUME NEW n \in Node, NEW v \in Value, Add(n, v) PROVE ListInv'
  BY <1>4, AddKeeps
<1>5. ASSUME NEW index \in 0..Len(order), GetCall(index) \/ RemoveAtCall(index)
      PROVE  ListInv'
  BY <1>5, CallsKeep
<1>6. ASSUME NEW v \in Value, RemoveEqCall(v) PROVE ListInv'
  BY <1>6, CallsKeep
<1>7. CASE ForEachCall \/ FreeCall
  BY <1>7, CallsKeep
<1>8. CASE Step
  BY <1>8, PassKeeps, GetFoundKeeps, RemoveKeeps, FreeEltKeeps, ReturnKeeps DEF Step
<1>9. CASE UNCHANGED vars
  BY <1>9, StutterKeeps
<1> QED
  BY <1>1, <1>2, <1>3, <1>4, <1>5, <1>6, <1>7, <1>8, <1>9 DEF Next

(***************************************************************************)
(* The invariant holds throughout: what linked_list.c does to a list whose *)
(* first element leaves through linked_list_pop_front only.                *)
(***************************************************************************)
THEOREM ListInvariant ==
  ASSUME HeadPopped
  PROVE  Spec => []ListInv
<1>1. ListInv /\ [Next]_vars => ListInv'
  BY NextListInv
<1> QED
  BY InitListInv, <1>1, PTL DEF Spec

\* The list, its nodes and the walk stay within their types.
THEOREM ListTypeCorrect ==
  ASSUME HeadPopped
  PROVE  Spec => []TypeOK
<1>1. ListInv => TypeOK
  BY DEF ListInv
<1> QED
  BY ListInvariant, <1>1, PTL

\* The nodes are those of the sequence the calls made, linked both ways but
\* for the prev of the first, and no freed node is touched.
THEOREM ListIsTheSequence ==
  ASSUME HeadPopped
  PROVE  Spec => []ListInOrder
<1>1. ListInv => ListInOrder
  BY DEF ListInv
<1> QED
  BY ListInvariant, <1>1, PTL

\* linked_list_get, remove_at, remove_eq, for_each and free meet the elements
\* one after the other, each at its index.
THEOREM WalksMeetTheSequence ==
  ASSUME HeadPopped
  PROVE  Spec => []WalkInOrder
<1>1. ListInv => WalkInOrder
  BY DEF ListInv
<1> QED
  BY ListInvariant, <1>1, PTL

\* linked_list_free leaves no node behind.
THEOREM FreeLeavesNothing ==
  ASSUME HeadPopped
  PROVE  Spec => []FreedAll
<1>1. ListInv => FreedAll
  <2> SUFFICES ASSUME ListInv, loop.at = "gone" PROVE live = {}
    BY DEF FreedAll
  <2>1. order = <<>> /\ live = {order[k] : k \in DOMAIN order}
    BY DEF ListInv, ListInOrder, NodesInOrder
  <2> QED
    BY <2>1
<1> QED
  BY ListInvariant, <1>1, PTL
=============================================================================

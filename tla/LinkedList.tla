----------------------------- MODULE LinkedList -----------------------------
(***************************************************************************)
(* The doubly linked list of src/linked_list.c: nodes on the heap and the  *)
(* pointers between them, next to the sequence the calls were to make of   *)
(* them ("order").  A call that walks the list takes one step per element. *)
(* An access to a freed node, or through a null pointer, has no defined    *)
(* result: the model records the fault and says nothing of what follows.   *)
(***************************************************************************)
EXTENDS Naturals, Sequences

CONSTANTS Node,        \* the addresses malloc may return
          Value,       \* what the elements hold
          Nil,         \* NULL
          Uint,        \* the number of values of an unsigned int
          HeadPopped   \* the callers take the first element out with
                       \* linked_list_pop_front only

ASSUME ListAssumption ==
  /\ Nil \notin Node /\ Uint \in Nat \ {0} /\ HeadPopped \in BOOLEAN

VARIABLES list,   \* the linked_list_t: head, tail, size
          elt,    \* the fields of each node
          live,   \* the nodes that are allocated
          loop,   \* the walk a call is making: its element, and its index
          fault,  \* a node that is not allocated was accessed
          order   \* the elements, in the order the calls gave them

vars == <<list, elt, live, loop, fault, order>>

Pointer == Node \cup {Nil}

EltT == [prev : Pointer, next : Pointer, value : Value \cup {Nil}]
ListT == [head : Pointer, tail : Pointer, size : Nat]

Walks == {"get", "remove_at", "remove_eq", "for_each", "for_each_rev", "free"}
LoopT == [at : Walks \cup {"idle", "gone"}, cur : Pointer, i : Nat,
          arg : Nat \cup Value \cup {Nil}]

TypeOK ==
  /\ list \in ListT /\ elt \in [Node -> EltT] /\ live \subseteq Node
  /\ loop \in LoopT /\ fault \in BOOLEAN /\ order \in Seq(Node)

\* What malloc and free leave in a node; it is never read.
Blank == [prev |-> Nil, next |-> Nil, value |-> Nil]
Empty == [head |-> Nil, tail |-> Nil, size |-> 0]
Idle == [at |-> "idle", cur |-> Nil, i |-> 0, arg |-> Nil]
Gone == [at |-> "gone", cur |-> Nil, i |-> 0, arg |-> Nil]

Init ==
  /\ list = Empty /\ elt = [n \in Node |-> Blank] /\ live = {}
  /\ loop = Idle /\ fault = FALSE /\ order = <<>>
-----------------------------------------------------------------------------
Ready == loop = Idle /\ ~fault
Fault == fault' = TRUE /\ UNCHANGED <<list, elt, live, loop, order>>

\* Sequence s without its k-th element.
Without(s, k) == [j \in 1..(Len(s) - 1) |-> IF j < k THEN s[j] ELSE s[j + 1]]

Free(n) == live' = live \ {n}
Wiped(e, n) == [e EXCEPT ![n] = Blank]

\* The contract HeadPopped at a call that would take out the k-th element.
Allowed(k) == HeadPopped => k # 1

\* linked_list_new, after a linked_list_free.
New ==
  /\ loop = Gone /\ ~fault
  /\ list' = Empty /\ loop' = Idle
  /\ UNCHANGED <<elt, live, fault, order>>

\* The fields of the nodes after n with value v was put behind the tail.
Linked(n, v) ==
  LET placed == [elt EXCEPT ![n] = [prev |-> list.tail, next |-> Nil, value |-> v]]
  IN IF list.tail = Nil THEN placed
     ELSE [[placed EXCEPT ![list.tail].next = n] EXCEPT ![list.head].prev = n]

\* Mutant: a new element does not become the tail.
Add_KeepsTail(n, v) ==
  /\ Ready /\ n \in Node \ live
  /\ list.tail = Nil \/ {list.tail, list.head} \subseteq live
  /\ elt' = Linked(n, v)
  /\ list' = [head |-> IF list.tail = Nil THEN n ELSE list.head,
              tail |-> IF list.tail = Nil THEN n ELSE list.tail,
              size |-> list.size + 1]
  /\ live' = live \cup {n} /\ order' = Append(order, n)
  /\ UNCHANGED <<loop, fault>>

(***************************************************************************)
(* linked_list_add.  It makes the head's prev point at the new element,    *)
(* whatever the length.                                                    *)
(***************************************************************************)
Add(n, v) ==
  /\ Ready /\ n \in Node \ live
  /\ IF list.tail = Nil \/ {list.tail, list.head} \subseteq live
     THEN /\ elt' = Linked(n, v)
          /\ list' = [head |-> IF list.tail = Nil THEN n ELSE list.head,
                      tail |-> n, size |-> list.size + 1]
          /\ live' = live \cup {n} /\ order' = Append(order, n)
          /\ UNCHANGED <<loop, fault>>
     ELSE Fault

\* linked_list_pop_tail: the new tail is the old one's prev, also when the
\* list has become empty.
PopTail ==
  LET t == list.tail
      p == elt[t].prev
  IN
  /\ Ready /\ t # Nil /\ Allowed(Len(order))
  /\ IF t \in live /\ (t = list.head \/ p \in live)
     THEN /\ IF t = list.head
             THEN /\ list' = [head |-> Nil, tail |-> p, size |-> 0]
                  /\ elt' = Wiped(elt, t)
             ELSE /\ list' = [list EXCEPT !.tail = p, !.size = list.size - 1]
                  /\ elt' = Wiped([elt EXCEPT ![p].next = Nil], t)
          /\ Free(t) /\ order' = Without(order, Len(order))
          /\ UNCHANGED <<loop, fault>>
     ELSE Fault

\* Mutant: the size is counted down for the only element too.
PopFront_CountsDown ==
  LET h == list.head
      x == elt[h].next
  IN
  /\ Ready /\ h # Nil /\ h \in live /\ (h = list.tail \/ x \in live)
  /\ list' = IF h = list.tail THEN [head |-> x, tail |-> Nil, size |-> 0 - 1]
             ELSE [list EXCEPT !.head = x, !.size = list.size - 1]
  /\ elt' = Wiped(IF x = Nil THEN elt ELSE [elt EXCEPT ![x].prev = Nil], h)
  /\ Free(h) /\ order' = Without(order, 1)
  /\ UNCHANGED <<loop, fault>>

\* linked_list_pop_front.
PopFront ==
  LET h == list.head
      x == elt[h].next
  IN
  /\ Ready /\ h # Nil
  /\ IF h \in live /\ (h = list.tail \/ x \in live)
     THEN /\ IF h = list.tail
             THEN /\ list' = [head |-> x, tail |-> Nil, size |-> 0]
                  /\ elt' = Wiped(elt, h)
             ELSE /\ list' = [list EXCEPT !.head = x, !.size = list.size - 1]
                  /\ elt' = Wiped([elt EXCEPT ![x].prev = Nil], h)
          /\ Free(h) /\ order' = Without(order, 1)
          /\ UNCHANGED <<loop, fault>>
     ELSE Fault
-----------------------------------------------------------------------------
(***************************************************************************)
(* The calls that walk.                                                    *)
(***************************************************************************)
Begin(at, cur, i, arg) ==
  /\ Ready
  /\ loop' = [at |-> at, cur |-> cur, i |-> i, arg |-> arg]
  /\ UNCHANGED <<list, elt, live, fault, order>>

GetCall(index) == Begin("get", list.head, 0, index)
RemoveAtCall(index) ==
  Allowed(index + 1) /\ Begin("remove_at", list.head, 0, index)
RemoveEqCall(v) ==
  /\ order # <<>> /\ elt[order[1]].value = v => Allowed(1)
  /\ Begin("remove_eq", list.head, 0, v)
ForEachCall == Begin("for_each", list.head, 0, Nil)
FreeCall_FromTail == Begin("free", list.tail, 0, Nil)  \* mutant
FreeCall == Begin("free", list.head, 0, Nil)

\* The index counts down from size - 1, in an unsigned int.
ForEachRevCall ==
  Begin("for_each_rev", list.tail, (list.size + (Uint - 1)) % Uint, Nil)

At(walks) == loop.at \in walks /\ loop.cur \in live /\ ~fault

Next_Forgotten == loop' = loop  \* mutant: the walk does not move on
NextElt == loop' = [loop EXCEPT !.cur = elt[loop.cur].next, !.i = loop.i + 1]

\* An element that is passed over, or given to the function of for_each.
Pass ==
  /\ \/ At({"get", "remove_at"}) /\ loop.i # loop.arg
     \/ At({"remove_eq"}) /\ elt[loop.cur].value # loop.arg
     \/ At({"for_each"})
  /\ NextElt
  /\ UNCHANGED <<list, elt, live, fault, order>>

PassBack ==
  /\ At({"for_each_rev"})
  /\ loop' = [loop EXCEPT !.cur = elt[loop.cur].prev,
                          !.i = (loop.i + (Uint - 1)) % Uint]
  /\ UNCHANGED <<list, elt, live, fault, order>>

\* linked_list_get returns the value of the element.
GetFound ==
  /\ At({"get"}) /\ loop.i = loop.arg
  /\ loop' = Idle /\ UNCHANGED <<list, elt, live, fault, order>>

\* The neighbours of n, as remove_elt finds them.
Around(n) == {elt[n].prev, elt[n].next} \ {Nil}

\* Mutant: the element behind the one removed is not told.
Unlinked_OneWay(n) ==
  LET p == elt[n].prev
      x == elt[n].next
  IN IF p = Nil THEN elt ELSE [elt EXCEPT ![p].next = x]

Unlinked(n) ==
  LET p == elt[n].prev
      x == elt[n].next
      front == IF p = Nil THEN elt ELSE [elt EXCEPT ![p].next = x]
  IN IF x = Nil THEN front ELSE [front EXCEPT ![x].prev = p]

\* remove_elt of the element the walk is at.
RemoveElt(n) ==
  /\ elt' = Wiped(Unlinked(n), n)
  /\ list' = [head |-> IF list.head = n THEN elt[n].next ELSE list.head,
              tail |-> IF list.tail = n THEN elt[n].prev ELSE list.tail,
              size |-> list.size - 1]
  /\ Free(n) /\ order' = Without(order, loop.i + 1)
  /\ UNCHANGED fault

\* linked_list_remove_at returns; linked_list_remove_eq goes on at the next
\* element, which has taken the index.
Remove ==
  /\ \/ At({"remove_at"}) /\ loop.i = loop.arg
     \/ At({"remove_eq"}) /\ elt[loop.cur].value = loop.arg
  /\ IF Around(loop.cur) \subseteq live
     THEN /\ RemoveElt(loop.cur)
          /\ loop' = IF loop.at = "remove_at" THEN Idle
                     ELSE [loop EXCEPT !.cur = elt[loop.cur].next]
     ELSE Fault

\* linked_list_free: the next pointer is read before the node is freed.
FreeElt ==
  /\ At({"free"})
  /\ loop' = [loop EXCEPT !.cur = elt[loop.cur].next]
  /\ elt' = Wiped(elt, loop.cur)
  /\ Free(loop.cur) /\ order' = Without(order, 1)
  /\ UNCHANGED <<list, fault>>

(***************************************************************************)
(* The end of the list: the call returns; linked_list_free frees the list. *)
(* A walk that came to a freed node goes astray.                           *)
(***************************************************************************)
Return ==
  /\ loop.at \in Walks /\ loop.cur \notin live /\ ~fault
  /\ IF loop.cur = Nil
     THEN /\ loop' = IF loop.at = "free" THEN Gone ELSE Idle
          /\ UNCHANGED <<list, elt, live, fault, order>>
     ELSE Fault

Step == Pass \/ GetFound \/ Remove \/ FreeElt \/ Return

\* All but the walk backwards: what the library uses, and more.
Next ==
  \/ New \/ PopTail \/ PopFront
  \/ \E n \in Node, v \in Value : Add(n, v)
  \/ \E index \in 0..Len(order) : GetCall(index) \/ RemoveAtCall(index)
  \/ \E v \in Value : RemoveEqCall(v)
  \/ ForEachCall \/ FreeCall
  \/ Step

Spec == Init /\ [][Next]_vars

\* A call, once made, runs to its end.
FairSpec == Spec /\ WF_vars(Step)

\* With linked_list_for_each_rev.
SpecBack == Init /\ [][Next \/ ForEachRevCall \/ PassBack]_vars
-----------------------------------------------------------------------------
\* The k-th element, NULL behind the last.
Nth(k) == IF k \in DOMAIN order THEN order[k] ELSE Nil

\* No element is lost or there twice, and the pointers forward, and those
\* backward from all but the first, are to the neighbours.
NodesInOrder ==
  /\ live = {order[k] : k \in DOMAIN order}
  /\ \A j, k \in DOMAIN order : order[j] = order[k] => j = k
  /\ \A k \in DOMAIN order : elt[order[k]].next = Nth(k + 1)
  /\ \A k \in DOMAIN order : k > 1 => elt[order[k]].prev = Nth(k - 1)

EndsInOrder ==
  loop.at \notin {"free", "gone"} =>
    list = [head |-> Nth(1), tail |-> Nth(Len(order)), size |-> Len(order)]

(***************************************************************************)
(* Whatever the sequence of calls, and in the middle of those that walk,   *)
(* the nodes, their pointers and the size are those of the sequence the    *)
(* calls made, and no freed node was touched: as long as the first element *)
(* leaves through linked_list_pop_front only, the wrong prev of the first  *)
(* node is never followed.                                                 *)
(***************************************************************************)
ListInOrder == NodesInOrder /\ EndsInOrder /\ ~fault

(***************************************************************************)
(* linked_list.h: "Call the specified function on each elements", "Get the *)
(* element at the specified index", "Remove the element at the spciefied   *)
(* index".  A walk forward meets at each index the element at that index   *)
(* of the sequence, and ends behind the last one.                          *)
(***************************************************************************)
WalkInOrder ==
  loop.at \in Walks \ {"for_each_rev"} /\ ~fault => loop.cur = Nth(loop.i + 1)

(***************************************************************************)
(* linked_list_free frees every node there is (and its value), also after  *)
(* removals from the middle of a walk: nothing is left when the list goes. *)
(***************************************************************************)
FreedAll == loop.at = "gone" => live = {}

(***************************************************************************)
(* Every call returns: no walk forward runs in a circle.                   *)
(***************************************************************************)
CallsEnd == (loop.at \in Walks) ~> (loop.at \notin Walks)
=============================================================================

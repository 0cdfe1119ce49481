------------------------------- MODULE StdDll -------------------------------
(***************************************************************************)
(* stdutil/src/stddll.c: a circular doubly linked list with a sentinel.    *)
(* Nodes are addresses: next and prev are what they hold, and heap is the  *)
(* set of nodes allocated and not freed.  The Flush library keeps its      *)
(* message and membership queues in such lists (libspread/fl.c).           *)
(* Client code reaches a position from stddll_begin with stddll_it_next,   *)
(* as fl.c does.                                                           *)
(***************************************************************************)
EXTENDS Integers, Sequences, FiniteSets

CONSTANTS End,                  \* the sentinel end_node
          Null,                 \* a field that was never set
          DllVal,               \* the elements a client stores
          StdsizeBits,          \* width of stdsize
          DllMaxSize            \* bound: elements a client stores

ASSUME DllAssumption == End # Null /\ StdsizeBits \in Nat /\ DllMaxSize \in Nat

\* Addresses.
Node == 1 .. DllMaxSize

VARIABLES dll,                  \* the list
          dllList,              \* what the client has asked for, a sequence
          dllRelied             \* a call has used a size that is wrong

dllVars == <<dll, dllList, dllRelied>>

stdsize(n) == n % 2 ^ StdsizeBits

stddll_construct ==
    [next |-> [n \in Node \cup {End} |-> IF n = End THEN End ELSE Null],
     prev |-> [n \in Node \cup {End} |-> IF n = End THEN End ELSE Null],
     val  |-> [n \in Node |-> Null],
     size |-> 0, heap |-> {}]

\* The nodes met when a link is followed n times: element i is met after i steps.
Walk(link, from, n) ==
    LET w[i \in 0 .. n] == IF i = 0 THEN from ELSE link[w[i - 1]] IN w

\* What malloc returns, call after call: the lowest free addresses.
Addresses(l, n) == CHOOSE f \in [1 .. n -> Node \ l.heap] :
                      /\ \A i, j \in 1 .. n : i < j => f[i] < f[j]
                      /\ \A m \in Node \ l.heap : n > 0 /\ m < f[n] => \E i \in 1 .. n : f[i] = m

\* A chain of new nodes with values, null terminated on both ends.
stddll_low_alloc_chain(l, vals) ==
    LET f == Addresses(l, Len(vals))
        At(n) == CHOOSE i \in DOMAIN f : f[i] = n
        new == {f[i] : i \in DOMAIN f}
    IN  [nodes |-> f,
         list |-> [l EXCEPT
            !.next = [n \in DOMAIN @ |-> IF n \in new /\ n # f[Len(vals)] THEN f[At(n) + 1] ELSE @[n]],
            !.prev = [n \in DOMAIN @ |-> IF n \in new /\ n # f[1] THEN f[At(n) - 1] ELSE @[n]],
            !.val = [n \in DOMAIN @ |-> IF n \in new THEN vals[At(n)] ELSE @[n]],
            !.heap = @ \cup new]]

\* The new nodes linked in before next; an allocation that fails leaves nothing behind.
stddll_low_insert(l, vals, next) ==
    IF vals = << >> \/ Len(vals) > Cardinality(Node \ l.heap) THEN {l}
    ELSE {l} \cup
         { LET chain == stddll_low_alloc_chain(l, vals)
               first == chain.nodes[1]
               last  == chain.nodes[Len(vals)]
               prev  == l.prev[next]
           IN  [chain.list EXCEPT !.next[prev] = first, !.prev[first] = prev,
                              !.next[last] = next,  !.prev[next] = last,
                              !.size = stdsize(@ + Len(vals))] }

\* free of the nodes in a set; their fields are gone.
Freed(l, nodes) ==
    [l EXCEPT !.heap = @ \ nodes,
              !.next = [n \in DOMAIN @ |-> IF n \in nodes THEN Null ELSE @[n]],
              !.prev = [n \in DOMAIN @ |-> IF n \in nodes THEN Null ELSE @[n]],
              !.val = [n \in DOMAIN @ |-> IF n \in nodes THEN Null ELSE @[n]]]

stddll_low_erase(l, first, n) ==
    LET w      == Walk(l.next, first, n)
        before == l.prev[first]
    IN  [Freed(l, {w[i] : i \in 0 .. n - 1})
            EXCEPT !.next[before] = w[n], !.prev[w[n]] = before, !.size = stdsize(@ - n)]

\* From first up to, not including, the node behind.
stddll_low_erase_seq(l, first, behind) ==
    LET n == CHOOSE k \in 0 .. DllMaxSize :
                /\ Walk(l.next, first, k)[k] = behind
                /\ \A j \in 0 .. k - 1 : Walk(l.next, first, k)[j] # behind
    IN  stddll_low_erase(l, first, n)

\* Backwards from behind.  num_erase has been counted down past 0 when it is
\* subtracted from the size: it is then stdsize(-1).
stddll_low_rerase(l, behind, n) ==
    LET w         == Walk(l.prev, l.prev[behind], n)
        num_erase == stdsize(-1)
    IN  [Freed(l, {w[i] : i \in 0 .. n - 1})
            EXCEPT !.next[w[n]] = behind, !.prev[behind] = w[n], !.size = stdsize(@ - num_erase)]

\* stddll_low_rerase would free the sentinel and go on from there.
ReraseUndefined(l, n) == End \in {Walk(l.prev, l.prev[End], n)[i] : i \in 0 .. n - 1}

stddll_get(l, k) ==
    IF k < l.size \div 2 THEN Walk(l.next, l.next[End], k)[k]
    ELSE Walk(l.prev, End, l.size - k)[l.size - k]

(***************************************************************************)
(* The client.                                                             *)
(***************************************************************************)
Position(k) == Walk(dll.next, dll.next[End], k)[k]

DllBatches == {<<v>> : v \in DllVal} \cup {<<v, w>> : v, w \in DllVal}

DllInsertAt(k, vals) ==
    /\ Len(dllList) + Len(vals) <= DllMaxSize
    /\ dll' \in stddll_low_insert(dll, vals, Position(k))
    /\ dllList' = IF dll' = dll THEN dllList
                  ELSE SubSeq(dllList, 1, k) \o vals \o SubSeq(dllList, k + 1, Len(dllList))
    /\ UNCHANGED dllRelied

\* insert, insert_n, insert_seq, insert_seq_n and insert_rep.
DllInsert == \E k \in 0 .. Len(dllList), vals \in DllBatches : DllInsertAt(k, vals)

DllPushFront == \E vals \in DllBatches : DllInsertAt(0, vals)

\* stddll_end is the sentinel, which the links reach after the last element.
DllPushBack == \E vals \in DllBatches : DllInsertAt(Len(dllList), vals)

DllPopFront ==
    \E n \in 0 .. Len(dllList) :
        /\ dll' = stddll_low_erase(dll, Position(0), n)
        /\ dllList' = SubSeq(dllList, n + 1, Len(dllList))
        /\ UNCHANGED dllRelied

\* erase, erase_n and erase_seq.
DllErase ==
    \E k \in 0 .. Len(dllList) : \E n \in 0 .. Len(dllList) - k :
        /\ \/ dll' = stddll_low_erase(dll, Position(k), n)
           \/ dll' = stddll_low_erase_seq(dll, Position(k), Position(k + n))
        /\ dllList' = SubSeq(dllList, 1, k) \o SubSeq(dllList, k + n + 1, Len(dllList))
        /\ UNCHANGED dllRelied

stddll_pop_back_n ==
    \E n \in 0 .. Len(dllList) :
        /\ dll' = stddll_low_rerase(dll, End, n)
        /\ dllList' = SubSeq(dllList, 1, Len(dllList) - n)
        /\ UNCHANGED dllRelied

\* Also clear, which resizes to 0.
stddll_resize ==
    \E n \in 0 .. DllMaxSize :
        /\ IF n < dll.size
           THEN /\ ~ReraseUndefined(dll, dll.size - n)
                /\ dll' = stddll_low_rerase(dll, End, dll.size - n)
           ELSE dll' \in stddll_low_insert(dll, [i \in 1 .. n - dll.size |-> Null], End)
        /\ dllList' = IF n > Len(dllList) /\ dll' = dll THEN dllList
                      ELSE [i \in 1 .. n |-> IF i <= Len(dllList) THEN dllList[i] ELSE Null]
        /\ dllRelied' = (dllRelied \/ dll.size # Len(dllList))

\* A new list is resized and set equal to the old one (copy_construct), the two
\* are swapped, and the old one is destructed.
DllCopy ==
    \E l \in stddll_low_insert(stddll_construct, dllList, End) :
        /\ Cardinality(l.heap) = Len(dllList)
        /\ dll' = l
        /\ dllRelied' = (dllRelied \/ dll.size # Len(dllList))
        /\ UNCHANGED dllList

DllInit == dll = stddll_construct /\ dllList = << >> /\ dllRelied = FALSE

DllNext ==
    ~dllRelied /\ (\/ DllInsert \/ DllPushFront \/ DllPushBack \/ DllErase \/ DllPopFront
                  \/ stddll_pop_back_n \/ stddll_resize \/ DllCopy)

(***************************************************************************)
(* Followed forwards the list has the elements asked for, followed back-   *)
(* wards their reverse, and every node that is allocated is linked: no     *)
(* insertion or erasure breaks a link, leaks a node or leaves one that was  *)
(* freed.  As long as no call relies on a wrong size; with a right size    *)
(* stddll_get finds every element.                                         *)
(***************************************************************************)
DllRight ==
    LET n        == Len(dllList)
        forward  == Walk(dll.next, End, n + 1)
        backward == Walk(dll.prev, End, n + 1)
    IN  ~dllRelied =>
          /\ forward[n + 1] = End /\ backward[n + 1] = End
          /\ \A i \in 1 .. n : /\ forward[i] = backward[n + 1 - i]
                               /\ dll.val[forward[i]] = dllList[i]
          /\ dll.heap = {forward[i] : i \in 1 .. n}
          /\ dll.size = n => \A k \in 0 .. n : stddll_get(dll, k) = forward[k + 1]

=============================================================================

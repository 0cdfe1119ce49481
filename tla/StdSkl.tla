------------------------------- MODULE StdSkl -------------------------------
(***************************************************************************)
(* stdutil/src/stdskl.c: a sorted skip list.  Every node is in the lists   *)
(* of the levels 0, ..., height; the sentinel end_node is in all of them   *)
(* and is replaced by a taller one when a taller node comes.  heap is what *)
(* is allocated; a node's links are nexts and prevs.  Nodes get a random   *)
(* height.  The daemon keeps its groups, the daemons of a group and its    *)
(* members in such lists (daemon/groups.c).  A call on several pairs is    *)
(* that many calls on one pair: stdskl_low_insert keeps the insertion      *)
(* point as a hint for the next, and any node may be the hint here.        *)
(***************************************************************************)
EXTENDS Integers, Sequences, FiniteSets, FiniteSetsExt, TLC

CONSTANTS SklKey, SklVal,        \* keys are numbers
          InitialHeight,         \* height of the first end_node, 4 in the code
          STDSKL_MAX_HEIGHT,
          SklSizeBits,           \* width of stdsize
          SklMaxSize             \* bound: pairs a client stores

ASSUME SklAssumption ==
    /\ SklKey \subseteq Nat /\ SklMaxSize \in Nat /\ SklSizeBits \in Nat
    /\ InitialHeight \in 1 .. STDSKL_MAX_HEIGHT

\* Addresses: one for every pair, an end_node and its successor.
SklNode == 0 .. SklMaxSize + 1

VARIABLES skl,                   \* the list
          sklPairs               \* how often the client has stored each pair

sklVars == <<skl, sklPairs>>

SklPair == SklKey \X SklVal

Opposite(dir) == IF dir = "nexts" THEN "prevs" ELSE "nexts"

\* A node that refers to itself on all levels.
SelfReferring(n, height, pair) ==
    [height |-> height, pair |-> pair,
     nexts |-> [lvl \in 0 .. height |-> n], prevs |-> [lvl \in 0 .. height |-> n]]

stdskl_construct(n) ==
    [heap |-> n :> SelfReferring(n, InitialHeight, << >>), end |-> n, size |-> 0]

Key(l, n) == l.heap[n].pair[1]

\* What malloc returns.  Addresses do not matter: see Renamed.
Unused(l) == Min(SklNode \ DOMAIN l.heap)

\* Whether a search in this direction passes the node.
Passes(l, dir, n, key) ==
    n # l.end /\ (IF dir = "nexts" THEN key > Key(l, n) ELSE key < Key(l, n))

RECURSIVE Run(_, _, _, _, _)
Run(l, dir, curr, lvl, key) ==
    LET next == l.heap[curr][dir][lvl]
    IN  IF Passes(l, dir, next, key) THEN Run(l, dir, next, lvl, key) ELSE curr

\* Down to the first level on which curr leads elsewhere than to the node already compared.
LevelBelow(l, dir, curr, next, lvl) ==
    Max({0} \cup {k \in 1 .. lvl - 1 : l.heap[curr][dir][k] # next})

RECURSIVE Search(_, _, _, _, _, _, _)
Search(l, dir, curr, lvl, seen, key, find_any) ==
    IF lvl = 0
    THEN IF l.heap[curr][dir][0] = seen THEN seen
         ELSE l.heap[Run(l, dir, curr, 0, key)][dir][0]
    ELSE LET at   == Run(l, dir, curr, lvl, key)
             next == l.heap[at][dir][lvl]
         IN  IF find_any /\ next # l.end /\ Key(l, next) = key THEN next
             ELSE Search(l, dir, at, LevelBelow(l, dir, at, next, lvl), next, key, find_any)

stdskl_low_find_right(l, key, find_any) ==
    Search(l, "nexts", l.end, l.heap[l.end].height, l.end, key, find_any)

stdskl_low_find_left(l, key, find_any) ==
    Search(l, "prevs", l.end, l.heap[l.end].height, l.end, key, find_any)

\* The first node in the direction that is taller than the level.
RECURSIVE Taller(_, _, _, _)
Taller(l, dir, n, lvl) ==
    IF l.heap[n].height = lvl THEN Taller(l, dir, l.heap[n][dir][lvl], lvl) ELSE n

SetLink(l, n, dir, lvl, to) == [l EXCEPT !.heap[n][dir][lvl] = to]

\* node linked to n, and n back to node, on this level and all higher ones of node.
RECURSIVE Link(_, _, _, _, _)
Link(l, dir, n, node, lvl) ==
    LET linked == SetLink(SetLink(l, node, dir, lvl, n), n, Opposite(dir), lvl, node)
    IN  IF lvl = l.heap[node].height THEN linked
        ELSE Link(linked, dir, Taller(linked, dir, n, lvl), node, lvl + 1)

LinkBeforeRightFirst(l, next, node) ==
    LET right == Link(l, "nexts", next, node, 0)
    IN  Link(right, "prevs", right.heap[next].prevs[0], node, 0)

\* link_left comes first: it reads the link that link_right overwrites.
LinkBefore(l, next, node) ==
    Link(Link(l, "prevs", l.heap[next].prevs[0], node, 0), "nexts", next, node, 0)

Without(f, S) == [x \in DOMAIN f \ S |-> f[x]]

\* A taller end_node takes over the links of the old one, whose neighbours are told; the old one is freed.
Ratchet(l, n, height) ==
    LET old == l.heap[l.end]
        new == SelfReferring(n, IF height < STDSKL_MAX_HEIGHT THEN height + 1 ELSE height, << >>)
        Took(links) == [lvl \in 0 .. new.height |->
                           IF lvl <= old.height /\ links[lvl] # l.end THEN links[lvl] ELSE n]
        Told(m, own, links) == [lvl \in DOMAIN own |->
                                   IF lvl <= old.height /\ links[lvl] = m THEN n ELSE own[lvl]]
        others == [m \in DOMAIN l.heap \ {l.end} |->
                      [l.heap[m] EXCEPT !.nexts = Told(m, @, old.prevs), !.prevs = Told(m, @, old.nexts)]]
    IN  [l EXCEPT !.heap = others @@ (n :> [new EXCEPT !.nexts = Took(old.nexts), !.prevs = Took(old.prevs)]),
                  !.end = n]

\* Whether the key belongs right before next.
Fits(l, next, key) ==
    LET prev == l.heap[next].prevs[0]
    IN  /\ next # l.end => key <= Key(l, next)
        /\ prev # l.end => key >= Key(l, prev)

\* The hint and the node behind it are tried before a full search.
InsertionPoint(l, hint, key) ==
    IF hint # {} /\ Fits(l, CHOOSE n \in hint : TRUE, key) THEN CHOOSE n \in hint : TRUE
    ELSE IF hint # {} /\ Fits(l, l.heap[CHOOSE n \in hint : TRUE].nexts[0], key)
    THEN l.heap[CHOOSE n \in hint : TRUE].nexts[0]
    ELSE stdskl_low_find_right(l, key, TRUE)

stdsklSize(n) == n % 2 ^ SklSizeBits

\* A new node of any height before next; either of the two allocations may fail.
Create(l, next, pair) ==
    {l} \cup
    UNION {LET added == [l EXCEPT !.heap = @ @@ (n :> SelfReferring(n, height, pair)),
                                  !.size = stdsklSize(@ + 1)]
           IN  IF height <= l.heap[l.end].height THEN {LinkBefore(added, next, n)}
               ELSE {LinkBefore(Ratchet(added, e, height), IF next = l.end THEN e ELSE next, n) :
                        e \in {Unused(added)}} :
           n \in {Unused(l)}, height \in 0 .. STDSKL_MAX_HEIGHT}

stdskl_low_insert(l, hint, pair, overwrite) ==
    LET next == InsertionPoint(l, hint, pair[1])
    IN  IF overwrite /\ next # l.end /\ Key(l, next) = pair[1]
        THEN {[l EXCEPT !.heap[next].pair = pair]}
        ELSE Create(l, next, pair)

\* The levels above 0 of what is left of the erased nodes and what is right of them.
RECURSIVE Stitch(_, _, _, _, _)
Stitch(l, prev, next, lvl, max_lvl) ==
    LET joined == SetLink(SetLink(l, prev, "nexts", lvl, next), next, "prevs", lvl, prev)
    IN  IF lvl = max_lvl THEN joined
        ELSE Stitch(joined, Taller(joined, "prevs", prev, lvl), Taller(joined, "nexts", next, lvl),
                    lvl + 1, max_lvl)

SklWalk(l, from, n) ==
    LET w[i \in 0 .. n] == IF i = 0 THEN from ELSE l.heap[w[i - 1]].nexts[0] IN w

\* count nodes from first; num_erase, which is subtracted, is (stdsize) -1 for a sequence [b, e).
stdskl_low_erase(l, first, count, num_erase) ==
    LET w       == SklWalk(l, first, count)
        gone    == {w[i] : i \in 0 .. count - 1}
        max_lvl == Max({0} \cup {l.heap[n].height : n \in gone})
    IN  Stitch([l EXCEPT !.heap = Without(@, gone), !.size = stdsklSize(@ - num_erase)],
               l.heap[first].prevs[0], w[count], 0, max_lvl)

stdskl_clear(l) ==
    [heap |-> l.end :> SelfReferring(l.end, l.heap[l.end].height, << >>), end |-> l.end, size |-> 0]

stdskl_lowerb(l, key) == stdskl_low_find_right(l, key, FALSE)

stdskl_upperb(l, key) == l.heap[stdskl_low_find_left(l, key, FALSE)].nexts[0]

stdskl_find(l, key) ==
    LET n == stdskl_low_find_right(l, key, TRUE)
    IN  IF n # l.end /\ Key(l, n) = key THEN n ELSE l.end

(***************************************************************************)
(* The client.                                                             *)
(***************************************************************************)
\* The nodes renamed by their place in the list, if it is a list: the states that
\* differ in addresses only are one.
Renamed(l) ==
    LET n     == Cardinality(DOMAIN l.heap)
        order == SklWalk(l, l.end, n - 1)
        Name(m) == CHOOSE i \in 0 .. n - 1 : order[i] = m
    IN  IF {order[i] : i \in 0 .. n - 1} # DOMAIN l.heap THEN l
        ELSE [l EXCEPT !.end = 0,
                       !.heap = [i \in 0 .. n - 1 |->
                          LET node == l.heap[order[i]]
                          IN  [node EXCEPT !.nexts = [lvl \in DOMAIN @ |-> Name(@[lvl])],
                                           !.prevs = [lvl \in DOMAIN @ |-> Name(@[lvl])]]]]

Stored(l) ==
    [x \in SklPair |-> Cardinality({n \in DOMAIN l.heap \ {l.end} : l.heap[n].pair = x})]

Pairs == Cardinality(DOMAIN skl.heap) - 1

Hints == {{}} \cup {{n} : n \in DOMAIN skl.heap}

SklInsert ==
    \E pair \in SklPair, hint \in Hints :
        /\ Pairs < SklMaxSize
        /\ skl' \in {Renamed(l) : l \in stdskl_low_insert(skl, hint, pair, FALSE)}
        /\ sklPairs' = IF skl' = skl THEN sklPairs ELSE [sklPairs EXCEPT ![pair] = @ + 1]

\* What the client may have after a put.  With a hint that points behind the pairs
\* of the key, the pair is added although the key exists.
AfterSklPut(pair, hint) ==
    LET olds == {v \in SklVal : sklPairs[pair[1], v] > 0}
    IN  {[[sklPairs EXCEPT ![pair[1], v] = @ - 1] EXCEPT ![pair] = @ + 1] : v \in olds}
        \cup (IF olds = {} \/ hint # {} THEN {[sklPairs EXCEPT ![pair] = @ + 1]} ELSE {})
        \cup (IF olds = {} \/ hint # {} THEN {sklPairs} ELSE {})

SklPut ==
    \E pair \in SklPair, hint \in Hints :
        /\ Pairs < SklMaxSize
        /\ skl' \in {Renamed(l) : l \in stdskl_low_insert(skl, hint, pair, TRUE)}
        /\ sklPairs' = IF Stored(skl') \in AfterSklPut(pair, hint) THEN Stored(skl')
                       ELSE CHOOSE pairs \in AfterSklPut(pair, hint) : TRUE

\* erase, erase_n and erase_seq.
SklErase ==
    \E k \in 0 .. Pairs : \E count \in 0 .. Pairs - k, seq \in BOOLEAN :
        LET w == SklWalk(skl, skl.heap[skl.end].nexts[0], k + count)
        IN  /\ skl' = Renamed(stdskl_low_erase(skl, w[k], count, IF seq THEN -1 ELSE count))
            /\ sklPairs' = [x \in SklPair |-> sklPairs[x]
                               - Cardinality({i \in k .. k + count - 1 : skl.heap[w[i]].pair = x})]

\* From lowerb on, one node at a time, as long as the key is the same.
stdskl_erase_key ==
    \E key \in SklKey :
        /\ skl' = LET n == Cardinality({m \in DOMAIN skl.heap \ {skl.end} : Key(skl, m) = key})
                      f[i \in 0 .. n] ==
                         IF i = 0 THEN skl
                         ELSE LET at == stdskl_lowerb(f[i - 1], key)
                              IN  IF at = f[i - 1].end \/ Key(f[i - 1], at) # key THEN f[i - 1]
                                  ELSE stdskl_low_erase(f[i - 1], at, 1, 1)
                  IN  Renamed(f[n])
        /\ sklPairs' = [x \in SklPair |-> IF x[1] = key THEN 0 ELSE sklPairs[x]]

SklClear == skl' = stdskl_clear(skl) /\ sklPairs' = [x \in SklPair |-> 0]

SklInit ==
    /\ skl = stdskl_construct(0)
    /\ sklPairs = [x \in SklPair |-> 0]

SklNext == SklInsert \/ SklPut \/ SklErase \/ stdskl_erase_key \/ SklClear

(***************************************************************************)
(* The list of every level has exactly the nodes that are as tall, in the  *)
(* order of the keys, the same backwards, and all nodes together are the   *)
(* pairs stored: links on several levels, changed one after the other on   *)
(* every insertion, erasure and replacement of end_node, never disagree.   *)
(***************************************************************************)
SklRight ==
    LET order == SklWalk(skl, skl.end, Pairs + 1)
        Next(i, lvl) == Min({j \in i + 1 .. Pairs + 1 : skl.heap[order[j]].height >= lvl})
    IN  /\ {order[i] : i \in 0 .. Pairs} = DOMAIN skl.heap /\ order[Pairs + 1] = skl.end
        /\ \A i \in 1 .. Pairs - 1 : Key(skl, order[i]) <= Key(skl, order[i + 1])
        /\ \A i \in 0 .. Pairs : \A lvl \in 0 .. skl.heap[order[i]].height :
              /\ skl.heap[order[i]].nexts[lvl] = order[Next(i, lvl)]
              /\ skl.heap[order[Next(i, lvl)]].prevs[lvl] = order[i]
        /\ Stored(skl) = sklPairs

(***************************************************************************)
(* find returns a pair of the key if there is one, lowerb the first pair   *)
(* whose key is not smaller, upperb the first whose key is greater: the    *)
(* searches that skip levels and comparisons agree with a plain walk.      *)
(***************************************************************************)
SklFinds ==
    LET order == SklWalk(skl, skl.end, Pairs + 1)
        First(Test(_)) == order[Min({i \in 1 .. Pairs : Test(Key(skl, order[i]))} \cup {Pairs + 1})]
    IN  \A key \in SklKey :
          /\ stdskl_lowerb(skl, key) = First(LAMBDA k : k >= key)
          /\ stdskl_upperb(skl, key) = First(LAMBDA k : k > key)
          /\ IF \E v \in SklVal : sklPairs[key, v] > 0
             THEN stdskl_find(skl, key) # skl.end /\ Key(skl, stdskl_find(skl, key)) = key
             ELSE stdskl_find(skl, key) = skl.end
=============================================================================

------------------------------- MODULE StdHash ------------------------------
(***************************************************************************)
(* stdutil/src/stdhash.c: a hash table with open addressing and double     *)
(* hashing.  A position of the table is Empty, Inactive (the node of an    *)
(* erased pair, which must not end a search) or a record of an active node *)
(* with its cached hash code.  A call on several pairs is that many calls  *)
(* on one pair: the loop of stdhash_low_insert keeps nothing but the       *)
(* iterator it returns between two of them.                                *)
(***************************************************************************)
EXTENDS Integers, Sequences, FiniteSets, FiniteSetsExt, SequencesExt

CONSTANTS HashKey, HashVal,
          HashCode,                 \* the code the client's function gives a key
          HcodeBits,                \* bits of a stdhcode
          STDHASH_MIN_AUTO_ALLOC,
          HashMaxSize,              \* bound: the size of a table
          Empty, Inactive           \* contents of a position without a pair

ASSUME HashAssumption ==
    /\ HcodeBits \in Nat /\ HashMaxSize \in Nat
    /\ STDHASH_MIN_AUTO_ALLOC \in Nat \ {0}
    /\ HashCode \in [HashKey -> 0 .. 2 ^ HcodeBits - 1]

VARIABLES hash,                     \* the table
          hashPairs                 \* how often the client has stored each pair

hashVars == <<hash, hashPairs>>

HashPair == HashKey \X HashVal

HashOpts == [noGrow : BOOLEAN, noShrink : BOOLEAN]

stdhash_construct(opts) ==
    [table |-> [i \in {} |-> Empty], cap |-> 0, begin |-> 0, num |-> 0, size |-> 0, opts |-> opts]

stdhash_low_hcode(k) == IF HashCode[k] = 0 THEN 1 ELSE HashCode[k]

Lg(n) == CHOOSE i \in 0 .. n : 2 ^ i = n

h1(hcode, cap) == hcode % cap

\* The highest lg(cap) bits with the lowest one set: odd, so every position is probed.
h2(hcode, cap) ==
    LET high == hcode \div 2 ^ (HcodeBits - Lg(cap)) IN IF high % 2 = 0 THEN high + 1 ELSE high

Probe(hcode, cap, i) == (h1(hcode, cap) + i * h2(hcode, cap)) % cap

IsActive(h, p) == h.table[p] \notin {Empty, Inactive}

stdpow2_up(x) == Min({2 ^ i : i \in 0 .. x} \cap {n \in 1 .. 2 * x : n >= x})

stdpow2_cap(x) ==
    IF stdpow2_up(x) < x + x \div 2 THEN 2 * stdpow2_up(x) ELSE stdpow2_up(x)

stdhash_high_thresh(h) == h.cap \div 2

stdhash_low_thresh(h) == h.cap \div 8

stdhash_low_next(h, p) == Min({q \in p + 1 .. h.cap - 1 : IsActive(h, q)} \cup {h.cap})

\* The first position of a probe sequence that is in stop; no such position: the search never ends.
FirstProbe(h, hcode, stop) ==
    LET hits == {i \in 0 .. h.cap - 1 : Probe(hcode, h.cap, i) \in stop}
    IN  IF hits = {} THEN {} ELSE {Probe(hcode, h.cap, Min(hits))}

Matches(h, p, k) ==
    /\ IsActive(h, p)
    /\ h.table[p].hcode = stdhash_low_hcode(k) /\ h.table[p].key = k

stdhash_low_find(h, find_match, k) ==
    FirstProbe(h, stdhash_low_hcode(k),
               {p \in DOMAIN h.table : \/ h.table[p] = Empty
                                       \/ find_match /\ Matches(h, p, k)
                                       \/ ~find_match /\ h.table[p] = Inactive})

stdhash_low_clear(h) ==
    IF h.num = 0 THEN h
    ELSE [h EXCEPT !.table = [p \in DOMAIN @ |-> Empty], !.begin = h.cap, !.num = 0, !.size = 0]

\* The active nodes, in the order of the old table, each to the first empty position of its sequence.
Moved(h, cap) ==
    FoldLeft(LAMBDA t, p :
                 IF ~IsActive(h, p) THEN t
                 ELSE LET free == {i \in 0 .. cap - 1 : t[Probe(h.table[p].hcode, cap, i)] = Empty}
                      IN  [t EXCEPT ![Probe(h.table[p].hcode, cap, Min(free))] = h.table[p]],
             [p \in 0 .. cap - 1 |-> Empty],
             [i \in 1 .. h.cap |-> i - 1])

stdhash_low_rehash(h, request) ==
    LET cap == 2 * stdpow2_cap(Max({request, STDHASH_MIN_AUTO_ALLOC}))
        new == [h EXCEPT !.table = Moved(h, cap), !.cap = cap, !.num = h.size]
    IN  [new EXCEPT !.begin = IF h.size # 0 THEN stdhash_low_next(new, -1) ELSE cap]

\* The pair written at position p; a put counts it even when it overwrites one.
SetNode(h, p, k, v) ==
    [h EXCEPT !.table[p] = [hcode |-> stdhash_low_hcode(k), key |-> k, val |-> v],
              !.num = IF h.table[p] = Empty THEN @ + 1 ELSE @,
              !.size = @ + 1,
              !.begin = Min({@, p})]

Returned(h, ret) == [c |-> h, ret |-> ret]

\* One round of the loop: the load is checked first, and each of the two allocations may fail.
stdhash_low_insert(h, k, v, overwrite) ==
    LET full == h.num >= stdhash_high_thresh(h)
        room == IF full THEN stdhash_low_rehash(h, h.size + 1) ELSE h
        Write(p) == {Returned(SetNode(room, p, k, v), "STDESUCCESS")}
                    \cup (IF room.table[p] = Empty THEN {Returned(room, "STDENOMEM")} ELSE {})
    IN  IF full /\ h.opts.noGrow THEN {Returned(h, "STDEACCES")}
        ELSE UNION {Write(p) : p \in stdhash_low_find(room, overwrite, k)}
             \cup (IF full THEN {Returned(h, "STDENOMEM")} ELSE {})

Shrinks(h) ==
    /\ ~h.opts.noShrink
    /\ h.cap # STDHASH_MIN_AUTO_ALLOC
    /\ h.size <= stdhash_low_thresh(h)

\* A rehash that is only meant to save memory may fail without notice.
Shrunk(h) == IF Shrinks(h) THEN {h, stdhash_low_rehash(h, h.size)} ELSE {h}

stdhash_clear(h) == Shrunk(stdhash_low_clear(h))

stdhash_reserve(h, n) ==
    IF n > stdhash_high_thresh(h)
    THEN {Returned(stdhash_low_rehash(h, n), "STDESUCCESS"), Returned(h, "STDENOMEM")}
    ELSE {Returned(h, "STDESUCCESS")}

stdhash_rehash(h) == {Returned(stdhash_low_rehash(h, h.size), "STDESUCCESS"), Returned(h, "STDENOMEM")}

MarkEmpty(h, p) ==
    LET marked == [h EXCEPT !.table[p] = Empty, !.size = @ - 1]
    IN  IF p = h.begin THEN [marked EXCEPT !.begin = stdhash_low_next(h, p)] ELSE marked

Mark(h, p) ==
    LET marked == [h EXCEPT !.table[p] = Inactive, !.size = @ - 1]
    IN  IF p = h.begin THEN [marked EXCEPT !.begin = stdhash_low_next(h, p)] ELSE marked

stdhash_erase(h, p) == Shrunk(Mark(h, p))

stdhash_find(h, k) ==
    IF h.size = 0 THEN h.cap
    ELSE LET p == CHOOSE q \in stdhash_low_find(h, TRUE, k) : TRUE
         IN  IF h.table[p] = Empty THEN h.cap ELSE p

\* The next match of the same key along the probe sequence, or the end at the first empty position.
stdhash_keyed_next(h, p) ==
    LET node == h.table[p]
        from == CHOOSE i \in 0 .. h.cap - 1 : Probe(node.hcode, h.cap, i) = p
        hits == {i \in 1 .. h.cap : LET q == Probe(node.hcode, h.cap, from + i)
                                    IN  h.table[q] = Empty \/ Matches(h, q, node.key)}
        q    == Probe(node.hcode, h.cap, from + Min(hits))
    IN  IF h.table[q] = Empty THEN h.cap ELSE q

\* The same backwards, up to the first position of the sequence.
stdhash_keyed_prev(h, p) ==
    LET node == h.table[p]
        from == CHOOSE i \in 0 .. h.cap - 1 : Probe(node.hcode, h.cap, i) = p
        hits == {i \in 0 .. from - 1 : Matches(h, Probe(node.hcode, h.cap, i), node.key)}
    IN  IF hits = {} THEN h.cap ELSE Probe(node.hcode, h.cap, Max(hits))

\* find and erase until find returns the end.
stdhash_erase_key(h, k) ==
    FoldLeft(LAMBDA tables, i :
                 UNION {IF stdhash_find(t, k) = t.cap THEN {t}
                        ELSE stdhash_erase(t, stdhash_find(t, k)) : t \in tables},
             {h}, [i \in 1 .. h.cap |-> i])

(***************************************************************************)
(* The client.                                                             *)
(***************************************************************************)
HashInsert ==
    \E k \in HashKey, v \in HashVal :
        /\ hash.size < HashMaxSize
        /\ \E r \in stdhash_low_insert(hash, k, v, FALSE) :
              /\ hash' = r.c
              /\ hashPairs' = IF r.ret = "STDESUCCESS" THEN [hashPairs EXCEPT ![k, v] = @ + 1]
                              ELSE hashPairs

Contents(h) ==
    [x \in HashPair |-> Cardinality({p \in DOMAIN h.table :
                            IsActive(h, p) /\ <<h.table[p].key, h.table[p].val>> = x})]

\* What the client may have after a put: if the key is there, one of its pairs
\* is replaced; which one is left to the table.
AfterPut(k, v) ==
    IF \A w \in HashVal : hashPairs[k, w] = 0 THEN {[hashPairs EXCEPT ![k, v] = 1]}
    ELSE {[[hashPairs EXCEPT ![k, w] = @ - 1] EXCEPT ![k, v] = @ + 1] :
             w \in {u \in HashVal : hashPairs[k, u] > 0}}

HashPut ==
    \E k \in HashKey, v \in HashVal :
        /\ hash.size < HashMaxSize
        /\ \E r \in stdhash_low_insert(hash, k, v, TRUE) :
              /\ hash' = r.c
              /\ hashPairs' = IF r.ret # "STDESUCCESS" THEN hashPairs
                              ELSE IF Contents(r.c) \in AfterPut(k, v) THEN Contents(r.c)
                              ELSE CHOOSE pairs \in AfterPut(k, v) : TRUE

HashErase ==
    \E p \in DOMAIN hash.table :
        /\ IsActive(hash, p)
        /\ hash' \in stdhash_erase(hash, p)
        /\ hashPairs' = [hashPairs EXCEPT ![hash.table[p].key, hash.table[p].val] = @ - 1]

HashEraseKey ==
    \E k \in HashKey :
        /\ hash' \in stdhash_erase_key(hash, k)
        /\ hashPairs' = [x \in HashPair |-> IF x[1] = k THEN 0 ELSE hashPairs[x]]

HashClear ==
    /\ hash' \in stdhash_clear(hash)
    /\ hashPairs' = [x \in HashPair |-> 0]

HashReserve ==
    /\ \E n \in 0 .. HashMaxSize : \E r \in stdhash_reserve(hash, n) : hash' = r.c
    /\ UNCHANGED hashPairs

HashRehash == (\E r \in stdhash_rehash(hash) : hash' = r.c) /\ UNCHANGED hashPairs

stdhash_set_opts ==
    \E opts \in HashOpts : hash' = [hash EXCEPT !.opts = opts] /\ UNCHANGED hashPairs

HashInit ==
    /\ hash \in {stdhash_construct(opts) : opts \in HashOpts}
    /\ hashPairs = [x \in HashPair |-> 0]

HashNext ==
    \/ HashInsert \/ HashPut \/ HashErase \/ HashEraseKey \/ HashClear
    \/ HashReserve \/ HashRehash \/ stdhash_set_opts

(***************************************************************************)
(* Whatever was inserted, overwritten and erased before, and however often *)
(* the table was rebuilt: walking with find and keyed_next meets exactly   *)
(* the pairs stored under the key, each once, keyed_prev walks back, begin *)
(* is the first pair, and an empty position is left to end every search.   *)
(***************************************************************************)
HashRight ==
    /\ DOMAIN hash.table = 0 .. hash.cap - 1
    /\ hash.cap # 0 => \E p \in DOMAIN hash.table : hash.table[p] = Empty
    /\ Cardinality({p \in DOMAIN hash.table : hash.table[p] # Empty}) <= hash.num
    /\ hash.begin = stdhash_low_next(hash, -1)
    /\ \A k \in HashKey :
          LET first == stdhash_find(hash, k)
              walk  == [i \in 0 .. hash.cap |-> 0]
              Step(w, i) == IF w[i - 1] = hash.cap THEN hash.cap ELSE stdhash_keyed_next(hash, w[i - 1])
              path  == FoldLeft(LAMBDA w, i : [w EXCEPT ![i] = Step(w, i)], [walk EXCEPT ![0] = first],
                                [i \in 1 .. hash.cap |-> i])
              met   == {i \in 0 .. hash.cap : path[i] # hash.cap}
          IN  /\ \A v \in HashVal :
                    Cardinality({i \in met : hash.table[path[i]].val = v}) = hashPairs[k, v]
              /\ \A i \in met : hash.table[path[i]].key = k
              /\ \A i \in met : stdhash_keyed_prev(hash, path[i]) = IF i = 0 THEN hash.cap ELSE path[i - 1]
=============================================================================

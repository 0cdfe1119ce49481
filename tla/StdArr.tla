------------------------------- MODULE StdArr -------------------------------
(***************************************************************************)
(* stdutil/src/stdarr.c: an array that grows and shrinks by itself.        *)
(* Iterators are offsets into the block; the pointers begin and end of the *)
(* code are 0 and size.  Where the code allocates, the result is a set:    *)
(* the allocation succeeds or fails.                                       *)
(***************************************************************************)
EXTENDS StdMemory

CONSTANTS STDARR_MIN_AUTO_ALLOC,
          ArrMaxSize            \* bound: elements a client stores

ASSUME ArrAssumption == STDARR_MIN_AUTO_ALLOC \in Nat \ {0} /\ ArrMaxSize \in Nat

VARIABLES arr,                  \* the array
          arrList               \* what the client has asked for, a sequence

arrVars == <<arr, arrList>>

Opts == [noGrow : BOOLEAN, noShrink : BOOLEAN]

stdarr_construct(opts) ==
    [mem |-> NewBlock(0), size |-> 0, cap |-> 0, opts |-> opts, sound |-> TRUE]

stdarr_high_capacity(a) == a.cap

stdarr_low_capacity(a) == a.cap \div 4

\* realloc: the cells that fit are kept.
Realloc(a, ncap) ==
    [a EXCEPT !.mem = Copied(NewBlock(ncap), 0, a.mem, 0, Smaller(a.cap, ncap)), !.cap = ncap]

Result(a, it, ret) == [c |-> a, it |-> it, ret |-> ret]

\* Space for n elements before it; fails without a change.
stdarr_low_insert_space(a, it, n) ==
    LET nsize == a.size + n
        grown == Realloc(a, Larger(2 * nsize, STDARR_MIN_AUTO_ALLOC))
        Open(b) == [MemMove(b, it + n, it, a.size - it) EXCEPT !.size = nsize]
    IN  IF nsize <= stdarr_high_capacity(a) THEN {Result(Open(a), it, "STDESUCCESS")}
        ELSE IF a.opts.noGrow THEN {Result(a, it, "STDEACCES")}
        ELSE {Result(Open(grown), it, "STDESUCCESS"), Result(a, it, "STDENOMEM")}

\* n elements from it removed; that the block cannot be made smaller is no failure.
stdarr_low_remove_space(a, it, n) ==
    LET closed == [MemMove(a, it, it + n, a.size - it - n) EXCEPT !.size = @ - n]
        ncap   == Larger(2 * closed.size, STDARR_MIN_AUTO_ALLOC)
    IN  {Result(closed, it, "STDESUCCESS")}
        \cup (IF /\ ~a.opts.noShrink
                 /\ closed.size <= stdarr_low_capacity(a)
                 /\ a.cap # STDARR_MIN_AUTO_ALLOC
              THEN {Result(Realloc(closed, ncap), it, "STDESUCCESS")} ELSE {})

stdarr_resize(a, n) ==
    IF n > a.size THEN stdarr_low_insert_space(a, a.size, n - a.size)
    ELSE IF n < a.size THEN stdarr_low_remove_space(a, n, a.size - n)
    ELSE {Result(a, n, "STDESUCCESS")}

stdarr_set_capacity(a, n) ==
    IF n = a.cap THEN {Result(a, 0, "STDESUCCESS")}
    ELSE {Result([Realloc(a, n) EXCEPT !.size = Smaller(@, n)], 0, "STDESUCCESS")}
         \cup (IF n # 0 THEN {Result(a, 0, "STDENOMEM")} ELSE {})

stdarr_reserve(a, n) ==
    IF n > a.cap THEN stdarr_set_capacity(a, n) ELSE {Result(a, 0, "STDESUCCESS")}

stdarr_insert_n(a, it, vals) ==
    { IF r.ret = "STDESUCCESS"
      THEN [r EXCEPT !.c.mem = Copied(@, r.it, [i \in 0 .. Len(vals) - 1 |-> vals[i + 1]], 0, Len(vals))]
      ELSE r : r \in stdarr_low_insert_space(a, it, Len(vals)) }

stdarr_erase_n(a, it, n) == stdarr_low_remove_space(a, it, n)

stdarr_copy_construct(a) ==
    [a EXCEPT !.mem = Copied(NewBlock(a.cap), 0, a.mem, 0, a.size)]

\* dst is given the contents of src: resized, then overwritten.
stdarr_set_eq(dst, src) ==
    { IF r.ret = "STDESUCCESS"
      THEN [r EXCEPT !.c.mem = Copied(@, 0, src.mem, 0, src.size)]
      ELSE r : r \in stdarr_resize(dst, src.size) }

(***************************************************************************)
(* The client.  A call that fails must change nothing.                     *)
(***************************************************************************)
Inserted(list, k, vals) == SubSeq(list, 1, k) \o vals \o SubSeq(list, k + 1, Len(list))

Erased(list, k, n) == SubSeq(list, 1, k) \o SubSeq(list, k + n + 1, Len(list))

Prefix(list, n) ==
    [i \in 1 .. n |-> IF i <= Len(list) THEN list[i] ELSE Junk]

Batches == {<<v>> : v \in Val} \cup {<<v, w>> : v, w \in Val}

\* What a cell behind the last element holds is unspecified.
ArrForget(a) == [a EXCEPT !.mem = Copied(NewBlock(a.cap), 0, @, 0, a.size)]

ArrReturns(results, wanted) ==
    \E r \in results :
        /\ arr' = ArrForget(r.c)
        /\ arrList' = IF r.ret = "STDESUCCESS" THEN wanted ELSE arrList

\* insert, insert_n, insert_seq, insert_seq_n and insert_rep.
ArrInsert ==
    \E k \in 0 .. arr.size, vals \in Batches :
        /\ arr.size + Len(vals) <= ArrMaxSize
        /\ ArrReturns(stdarr_insert_n(arr, k, vals), Inserted(arrList, k, vals))

ArrPushBack ==
    \E vals \in Batches :
        /\ arr.size + Len(vals) <= ArrMaxSize
        /\ ArrReturns(stdarr_insert_n(arr, arr.size, vals), arrList \o vals)

ArrPopBack ==
    \E n \in 0 .. arr.size :
        ArrReturns(stdarr_low_remove_space(arr, arr.size - n, n), Prefix(arrList, arr.size - n))

ArrErase ==
    \E k \in 0 .. arr.size : \E n \in 0 .. arr.size - k :
        ArrReturns(stdarr_erase_n(arr, k, n), Erased(arrList, k, n))

\* Also clear, which resizes to 0.
ArrResize ==
    \E n \in 0 .. ArrMaxSize : ArrReturns(stdarr_resize(arr, n), Prefix(arrList, n))

ArrSetCapacity ==
    \E n \in 0 .. ArrMaxSize :
        ArrReturns(stdarr_set_capacity(arr, n), Prefix(arrList, Smaller(n, Len(arrList))))

ArrReserve ==
    \E n \in 0 .. ArrMaxSize : ArrReturns(stdarr_reserve(arr, n), arrList)

stdarr_set_opts ==
    \E opts \in Opts : arr' = [arr EXCEPT !.opts = opts] /\ UNCHANGED arrList

\* A copy is made, swapped with the array, and the old one destructed.
ArrCopy ==
    \/ arr' = stdarr_copy_construct(arr) /\ UNCHANGED arrList
    \/ \E n \in 0 .. ArrMaxSize :
          \E r \in stdarr_reserve(stdarr_construct(arr.opts), n) :
              ArrReturns({q \in stdarr_set_eq(r.c, arr) : q.ret = "STDESUCCESS"}, arrList)

ArrInit ==
    /\ arr \in {stdarr_construct(opts) : opts \in Opts}
    /\ arrList = << >>

ArrNext ==
    \/ ArrInsert \/ ArrPushBack \/ ArrPopBack \/ ArrErase \/ ArrResize \/ ArrSetCapacity \/ ArrReserve
    \/ stdarr_set_opts \/ ArrCopy

(***************************************************************************)
(* STDARR_IS_LEGAL, and the cells the iterators reach are the elements     *)
(* asked for, in order: stdarr.c moves them on every insertion, erasure,   *)
(* growth and shrinking, and a failed allocation must lose none of them.   *)
(***************************************************************************)
ArrRight ==
    /\ arr.size <= arr.cap
    /\ DOMAIN arr.mem = 0 .. arr.cap - 1
    /\ arr.size = Len(arrList)
    /\ \A i \in 1 .. arr.size : arrList[i] # Junk => arr.mem[i - 1] = arrList[i]
=============================================================================

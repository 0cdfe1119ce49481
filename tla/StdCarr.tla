------------------------------- MODULE StdCarr -------------------------------
(***************************************************************************)
(* stdutil/src/stdcarr.c: a circular array.  base is cell 0, endbase the   *)
(* cell cap that does not exist; the elements lie from begin to the cell   *)
(* before end and may wrap around, and the cell end stays free.  Iterators *)
(* are cells.  Each of the four shift functions opens or closes a gap on   *)
(* the side where fewer elements have to move, with up to three copies.    *)
(***************************************************************************)
EXTENDS StdMemory

CONSTANTS STDCARR_MIN_AUTO_ALLOC,
          CarrMaxSize           \* bound: elements a client stores

ASSUME CarrAssumption == STDCARR_MIN_AUTO_ALLOC \in Nat \ {0} /\ CarrMaxSize \in Nat

VARIABLES carr,                 \* the array
          carrList,             \* what the client has asked for, a sequence
          carrIts               \* every iterator handed back pointed where it should

carrVars == <<carr, carrList, carrIts>>

CarrOpts == [noGrow : BOOLEAN, noShrink : BOOLEAN]

stdcarr_construct(opts) ==
    [mem |-> NewBlock(0), begin |-> 0, end |-> 0, size |-> 0, cap |-> 0,
     opts |-> opts, sound |-> TRUE]

stdcarr_low_forward(c, p, n) == IF p + n < c.cap THEN p + n ELSE p + n - c.cap

stdcarr_low_backwardStuck(c, p, n) == IF p - n > 0 THEN p - n ELSE p - n + c.cap - 1

stdcarr_low_backward(c, p, n) == IF p - n >= 0 THEN p - n ELSE p - n + c.cap

stdcarr_high_capacityAll(c) == c.cap

stdcarr_high_capacity(c) == IF c.cap # 0 THEN c.cap - 1 ELSE 0

stdcarr_low_capacity(c) == c.cap \div 4

stdcarr_rank(c, it) == IF it >= c.begin THEN it - c.begin ELSE c.cap - c.begin + it

stdcarr_it_cmp(c, it1, it2) ==
    IF (it1 >= c.begin) = (it2 >= c.begin) THEN it1 - it2
    ELSE IF it1 >= c.begin THEN (it1 - c.cap) + (0 - it2)
    ELSE (c.cap - it2) + it1

stdcarr_get(c, k) == stdcarr_low_forward(c, c.begin, k)

\* The elements from cell b to the cell before e, as a sequence.
stdcarr_low_copy_to_buf(c, b, e) ==
    IF b <= e THEN [i \in 1 .. e - b |-> c.mem[b + i - 1]]
    ELSE [i \in 1 .. c.cap - b + e |->
            IF i <= c.cap - b THEN c.mem[b + i - 1] ELSE c.mem[i - 1 - (c.cap - b)]]

\* Cheaper to move the elements behind the gap than those before it.
STDCARR_INS_SHIFT_RIGHT(c, p) ==
    IF p >= c.begin THEN p - c.begin > c.size \div 2 ELSE c.end - p <= c.size \div 2

STDCARR_ERS_SHIFT_RIGHT(c, p, n) ==
    IF p >= c.begin THEN p - c.begin < (c.size - n) \div 2
    ELSE c.end - p >= (c.size + n) \div 2

stdcarr_low_insert_shift_right(c, it, n) ==
    LET over  == c.end + n - c.cap     \* how many elements will lie in front
        tail  == c.end - it
        lower == MemMove(c, n, 0, c.end)
        upper == c.cap - it
        moved ==
          IF c.begin <= c.end
          THEN IF over <= 0 THEN MemMove(c, it + n, it, tail)
               ELSE IF tail <= over THEN MemCpy(c, over - tail, it, tail)
               ELSE MemMove(MemCpy(c, 0, c.end - over, over), it + n, it, tail - over)
          ELSE IF tail >= 0 THEN MemMove(c, it + n, it, tail)
               ELSE IF upper <= n THEN MemCpy(lower, n - upper, it, upper)
               ELSE MemMove(MemCpy(lower, 0, c.cap - n, n), it + n, it, upper - n)
    IN  [moved EXCEPT !.size = @ + n, !.end = stdcarr_low_forward(c, @, n)]

stdcarr_low_insert_shift_left(c, it, n) ==
    LET under == n - c.begin           \* how many elements will lie at the back
        head  == it - c.begin
        upper == MemMove(c, c.begin - n, c.begin, c.cap - c.begin)
        moved ==
          IF c.begin <= c.end
          THEN IF under <= 0 THEN MemMove(c, c.begin - n, c.begin, head)
               ELSE IF head <= under THEN MemCpy(c, c.cap - under, c.begin, head)
               ELSE MemMove(MemCpy(c, c.cap - under, c.begin, under),
                            0, c.begin + under, head - under)
          ELSE IF it >= c.begin THEN MemMove(c, c.begin - n, c.begin, head)
               ELSE IF it <= n THEN MemCpy(upper, c.cap - n, 0, it)
               ELSE MemMove(MemCpy(upper, c.cap - n, 0, n), 0, n, it - n)
    IN  [moved EXCEPT !.size = @ + n, !.begin = stdcarr_low_backward(c, @, n)]

\* eend: the cell behind the last one erased.
stdcarr_low_erase_shift_left(c, eend, n) ==
    LET ebegin == eend - n             \* may lie in front of the block
        tail   == c.end - eend
        back   == 0 - ebegin           \* erased at the end of the block
        upper  == MemMove(c, ebegin, eend, c.cap - eend)
        moved ==
          IF tail >= 0
          THEN IF back <= 0 THEN MemMove(c, ebegin, eend, tail)
               ELSE IF tail <= back THEN MemCpy(c, c.cap - back, eend, tail)
               ELSE MemMove(MemCpy(c, c.cap - back, eend, back), 0, eend + back, tail - back)
          ELSE IF c.end <= n THEN MemCpy(upper, c.cap - n, 0, c.end)
               ELSE MemMove(MemCpy(upper, c.cap - n, 0, n), 0, n, c.end - n)
    IN  [moved EXCEPT !.size = @ - n, !.end = stdcarr_low_backward(c, @, n)]

stdcarr_low_erase_shift_right(c, ebegin, n) ==
    LET eend  == ebegin + n            \* may lie behind the block
        head  == ebegin - c.begin
        front == eend - c.cap          \* erased at the start of the block
        lower == MemMove(c, n, 0, ebegin)
        upper == c.cap - c.begin
        moved ==
          IF head >= 0
          THEN IF front <= 0 THEN MemMove(c, c.begin + n, c.begin, head)
               ELSE IF front >= head THEN MemCpy(c, front - head, c.begin, head)
               ELSE MemMove(MemCpy(c, 0, ebegin - front, front), c.begin + n, c.begin, head - front)
          ELSE IF upper <= n THEN MemCpy(lower, n - upper, c.begin, upper)
               ELSE MemMove(MemCpy(lower, 0, c.cap - n, n), c.begin + n, c.begin, upper - n)
    IN  [moved EXCEPT !.size = @ - n, !.begin = stdcarr_low_forward(c, @, n)]

CarrResult(c, it, ret) == [c |-> c, it |-> it, ret |-> ret]

\* A new block of cap cells with the elements of a sequence at its start.
Refilled(c, cap, list) ==
    [c EXCEPT !.mem = [i \in 0 .. cap - 1 |-> IF i < Len(list) THEN list[i + 1] ELSE Junk],
              !.begin = 0, !.end = Len(list), !.size = Len(list), !.cap = cap]

stdcarr_low_insert_shift(c, it, n, right) ==
    LET room    == [i \in 1 .. n |-> Junk]
        before  == stdcarr_low_copy_to_buf(c, c.begin, it)
        after   == stdcarr_low_copy_to_buf(c, it, c.end)
        new_cap == Larger(2 * (c.size + n), STDCARR_MIN_AUTO_ALLOC)
    IN  IF n = 0 THEN {CarrResult(c, it, "STDESUCCESS")}
        ELSE IF c.size + n <= stdcarr_high_capacity(c)
        THEN {IF right
              THEN CarrResult(stdcarr_low_insert_shift_right(c, it, n), it, "STDESUCCESS")
              ELSE CarrResult(stdcarr_low_insert_shift_left(c, it, n),
                              stdcarr_low_backward(c, it, n), "STDESUCCESS")}
        ELSE IF c.opts.noGrow THEN {CarrResult(c, it, "STDEACCES")}
        ELSE {CarrResult(Refilled(c, new_cap, before \o room \o after), Len(before), "STDESUCCESS"),
              CarrResult(c, it, "STDENOMEM")}

\* right: it is the first cell to erase, otherwise the cell behind the last.
stdcarr_low_erase_shift(c, it, n, right) ==
    LET first   == IF right THEN it ELSE stdcarr_low_backward(c, it, n)
        behind  == IF right THEN stdcarr_low_forward(c, it, n) ELSE it
        before  == stdcarr_low_copy_to_buf(c, c.begin, first)
        after   == stdcarr_low_copy_to_buf(c, behind, c.end)
        new_cap == Larger(2 * (c.size - n), STDCARR_MIN_AUTO_ALLOC)
        shifted == IF right
                   THEN CarrResult(stdcarr_low_erase_shift_right(c, it, n), behind, "STDESUCCESS")
                   ELSE CarrResult(stdcarr_low_erase_shift_left(c, it, n), it, "STDESUCCESS")
    IN  IF n = 0 THEN {CarrResult(c, it, "STDESUCCESS")}
        ELSE {shifted} \cup
             (IF \/ c.opts.noShrink
                 \/ c.size - n > stdcarr_low_capacity(c)
                 \/ c.cap = STDCARR_MIN_AUTO_ALLOC
              THEN {}
              ELSE {CarrResult(Refilled(c, new_cap, before \o after), Len(before), "STDESUCCESS")})

stdcarr_resize(c, n) ==
    IF n > c.size THEN stdcarr_low_insert_shift(c, c.end, n - c.size, TRUE)
    ELSE IF n < c.size THEN stdcarr_low_erase_shift(c, c.end, c.size - n, FALSE)
    ELSE {CarrResult(c, c.end, "STDESUCCESS")}

\* The capacity a client asks for does not count the cell that stays free.
stdcarr_set_capacity(c, n) ==
    LET list == stdcarr_low_copy_to_buf(c, c.begin, stdcarr_low_forward(c, c.begin, Smaller(n, c.size)))
    IN  IF n = stdcarr_high_capacity(c) THEN {CarrResult(c, 0, "STDESUCCESS")}
        ELSE IF n = 0 THEN {CarrResult([stdcarr_construct(c.opts) EXCEPT !.sound = c.sound], 0, "STDESUCCESS")}
        ELSE {CarrResult(Refilled(c, n + 1, list), 0, "STDESUCCESS"), CarrResult(c, 0, "STDENOMEM")}

stdcarr_reserve(c, n) ==
    IF n > stdcarr_high_capacity(c) THEN stdcarr_set_capacity(c, n)
    ELSE {CarrResult(c, 0, "STDESUCCESS")}

\* Written cell by cell, wrapping around at the end of the block.
WithVals(c, it, vals) ==
    [c EXCEPT !.mem = [i \in DOMAIN @ |->
        LET j == IF i >= it THEN i - it ELSE i - it + c.cap
        IN  IF j < Len(vals) THEN vals[j + 1] ELSE @[i]]]

stdcarr_insert_n(c, it, vals) ==
    { IF r.ret = "STDESUCCESS" THEN [r EXCEPT !.c = WithVals(@, r.it, vals)] ELSE r :
      r \in stdcarr_low_insert_shift(c, it, Len(vals), STDCARR_INS_SHIFT_RIGHT(c, it)) }

stdcarr_erase_n(c, it, n) ==
    LET right == STDCARR_ERS_SHIFT_RIGHT(c, it, n)
    IN  stdcarr_low_erase_shift(c, IF right THEN it ELSE stdcarr_low_forward(c, it, n), n, right)

stdcarr_pop_front_n(c, n) == stdcarr_low_erase_shift(c, c.begin, n, TRUE)

stdcarr_pop_back_n(c, n) == stdcarr_low_erase_shift(c, c.end, n, FALSE)

stdcarr_copy_construct(c) ==
    LET list == stdcarr_low_copy_to_buf(c, c.begin, c.end)
    IN  Refilled(c, c.cap, list)

stdcarr_set_eq(dst, src) ==
    { IF r.ret = "STDESUCCESS"
      THEN [r EXCEPT !.c = [Refilled(r.c, r.c.cap, stdcarr_low_copy_to_buf(src, src.begin, src.end))
                            EXCEPT !.size = r.c.size]]
      ELSE r : r \in stdcarr_resize(dst, src.size) }

(***************************************************************************)
(* The client.  A call that fails must change nothing.                     *)
(***************************************************************************)
CarrInserted(list, k, vals) == SubSeq(list, 1, k) \o vals \o SubSeq(list, k + 1, Len(list))

CarrErased(list, k, n) == SubSeq(list, 1, k) \o SubSeq(list, k + n + 1, Len(list))

CarrPrefix(list, n) == [i \in 1 .. n |-> IF i <= Len(list) THEN list[i] ELSE Junk]

CarrBatches == {<<v>> : v \in Val} \cup {<<v, w>> : v, w \in Val}

Live(c, i) == stdcarr_rank(c, i) < c.size

\* What a cell without an element holds is unspecified.
CarrForget(c) == [c EXCEPT !.mem = [i \in DOMAIN @ |-> IF Live(c, i) THEN @[i] ELSE Junk]]

CarrReturns(results, wanted) ==
    \E r \in results :
        /\ carr' = CarrForget(r.c)
        /\ carrList' = IF r.ret = "STDESUCCESS" THEN wanted ELSE carrList
        /\ UNCHANGED carrIts

CarrInsertAt(k, vals) ==
    /\ carr.size + Len(vals) <= CarrMaxSize
    /\ \E r \in stdcarr_insert_n(carr, stdcarr_get(carr, k), vals) :
          /\ carr' = CarrForget(r.c)
          /\ IF r.ret = "STDESUCCESS"
             THEN /\ carrList' = CarrInserted(carrList, k, vals)
                  /\ carrIts' = (carrIts /\ stdcarr_rank(r.c, r.it) = k)
             ELSE UNCHANGED <<carrList, carrIts>>

\* insert, insert_n, insert_seq, insert_seq_n and insert_rep.
CarrInsert == \E k \in 0 .. carr.size, vals \in CarrBatches : CarrInsertAt(k, vals)

CarrPushFront == \E vals \in CarrBatches : CarrInsertAt(0, vals)

CarrPushBack == \E vals \in CarrBatches : CarrInsertAt(carr.size, vals)

CarrErase ==
    \E k \in 0 .. carr.size : \E n \in 0 .. carr.size - k :
        CarrReturns(stdcarr_erase_n(carr, stdcarr_get(carr, k), n), CarrErased(carrList, k, n))

CarrPopFront ==
    \E n \in 1 .. carr.size : CarrReturns(stdcarr_pop_front_n(carr, n), CarrErased(carrList, 0, n))

CarrPopBack ==
    \E n \in 1 .. carr.size :
        CarrReturns(stdcarr_pop_back_n(carr, n), CarrErased(carrList, carr.size - n, n))

CarrResize ==
    \E n \in 0 .. CarrMaxSize : CarrReturns(stdcarr_resize(carr, n), CarrPrefix(carrList, n))

CarrSetCapacity ==
    \E n \in 0 .. CarrMaxSize :
        CarrReturns(stdcarr_set_capacity(carr, n), CarrPrefix(carrList, Smaller(n, Len(carrList))))

CarrReserve ==
    \E n \in 0 .. CarrMaxSize : CarrReturns(stdcarr_reserve(carr, n), carrList)

stdcarr_set_opts ==
    \E opts \in CarrOpts :
        carr' = [carr EXCEPT !.opts = opts] /\ UNCHANGED <<carrList, carrIts>>

\* A copy is made, swapped with the array, and the old one destructed.
CarrCopy ==
    \/ CarrReturns({CarrResult(stdcarr_copy_construct(carr), 0, "STDESUCCESS")}, carrList)
    \/ \E n \in 0 .. CarrMaxSize :
          \E r \in stdcarr_reserve(stdcarr_construct(carr.opts), n) :
              CarrReturns({q \in stdcarr_set_eq(r.c, carr) : q.ret = "STDESUCCESS"}, carrList)

CarrInit ==
    /\ carr \in {stdcarr_construct(opts) : opts \in CarrOpts}
    /\ carrList = << >>
    /\ carrIts = TRUE

CarrNext ==
    \/ CarrInsert \/ CarrPushFront \/ CarrPushBack \/ CarrErase
    \/ CarrPopFront \/ CarrPopBack \/ CarrResize \/ CarrSetCapacity \/ CarrReserve
    \/ stdcarr_set_opts \/ CarrCopy

(***************************************************************************)
(* The elements between begin and end, wrapped around or not, are the ones *)
(* asked for, in order, after any sequence of shifts, and the iterators    *)
(* count them: STDCARR_IS_LEGAL, stdcarr_rank and stdcarr_it_cmp agree,    *)
(* and an insertion hands back an iterator to what it inserted.            *)
(***************************************************************************)
CarrRight ==
    /\ carr.size < carr.cap \/ (carr.size = 0 /\ carr.cap = 0)
    /\ carr.size = Len(carrList)
    /\ stdcarr_get(carr, carr.size) = carr.end
    /\ \A k \in 0 .. carr.size - 1 :
          carrList[k + 1] # Junk => carr.mem[stdcarr_get(carr, k)] = carrList[k + 1]
    /\ \A j, k \in 0 .. carr.size :
          /\ stdcarr_rank(carr, stdcarr_get(carr, k)) = k
          /\ stdcarr_it_cmp(carr, stdcarr_get(carr, j), stdcarr_get(carr, k)) = j - k
    /\ carrIts

(***************************************************************************)
(* None of the up to three copies of a shift leaves the block, and those   *)
(* made with memcpy never overlap (stdcarr.c uses memcpy where it has      *)
(* argued that the regions are apart).                                     *)
(***************************************************************************)
CopiesSound == carr.sound
=============================================================================

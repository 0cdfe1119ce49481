------------------------------ MODULE StdMemory ------------------------------
(***************************************************************************)
(* Blocks of memory as the containers of stdutil use them: the cells of a  *)
(* block are numbered from 0 and hold an element each (the code multiplies *)
(* every offset by vsize).  A container that owns a block is a record with *)
(* the block in the field mem; the field sound becomes FALSE when a copy    *)
(* leaves the block, or when memcpy is given two regions that overlap,     *)
(* which the C standard leaves undefined.                                  *)
(***************************************************************************)
EXTENDS Integers, Sequences, FiniteSets

CONSTANTS Val,      \* the elements a client stores
          Junk      \* a cell that was never written

Cell == Val \cup {Junk}

NewBlock(n) == [i \in 0 .. n - 1 |-> Junk]

\* The cells p, ..., p + n - 1 of src written to the cells from d of dst.
Copied(dst, d, src, p, n) ==
    [i \in DOMAIN dst |-> IF d <= i /\ i < d + n THEN src[p + i - d] ELSE dst[i]]

Inside(mem, p, n) == n = 0 \/ (n > 0 /\ p \in DOMAIN mem /\ p + n - 1 \in DOMAIN mem)

MemMove(c, d, p, n) ==
    IF Inside(c.mem, d, n) /\ Inside(c.mem, p, n)
    THEN [c EXCEPT !.mem = Copied(@, d, @, p, n)]
    ELSE [c EXCEPT !.sound = FALSE]

MemCpy(c, d, p, n) ==
    IF n = 0 \/ d + n <= p \/ p + n <= d
    THEN MemMove(c, d, p, n)
    ELSE [c EXCEPT !.sound = FALSE]

Larger(m, n) == IF m > n THEN m ELSE n

Smaller(m, n) == IF m < n THEN m ELSE n
=============================================================================

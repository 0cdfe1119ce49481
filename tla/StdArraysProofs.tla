-------------------------- MODULE StdArraysProofs ---------------------------
(***************************************************************************)
(* The array and the circular array of stdutil hold what was asked for,    *)
(* for any elements, minimal blocks and sizes, and no copy leaves a block. *)
(***************************************************************************)
EXTENDS StdArrays, SequenceTheorems, TLAPS

-----------------------------------------------------------------------------
(***************************************************************************)
(* Blocks and lists.                                                       *)
(***************************************************************************)
Block(n) == [0 .. n - 1 -> Cell]
Blocks == UNION {Block(n) : n \in Nat}

LEMMA ABlock ==
    ASSUME NEW n \in Nat, NEW m \in Block(n)
    PROVE  m \in Blocks /\ DOMAIN m = 0 .. n - 1
BY DEF Block, Blocks

LEMMA Fresh ==
    ASSUME NEW n \in Nat
    PROVE  NewBlock(n) \in Block(n)
BY DEF NewBlock, Block, Cell

\* A copy of cells that exist.
LEMMA Copies ==
    ASSUME NEW x \in Nat, NEW m \in Block(x), NEW src, NEW d \in Int, NEW p \in Int, NEW n \in Nat,
           \A i \in 0 .. x - 1 : d <= i /\ i < d + n => src[p + i - d] \in Cell
    PROVE  /\ Copied(m, d, src, p, n) \in Block(x)
           /\ \A i \in 0 .. x - 1 : Copied(m, d, src, p, n)[i]
                                      = IF d <= i /\ i < d + n THEN src[p + i - d] ELSE m[i]
BY DEF Copied, Block

WithMem(r, m) == [r EXCEPT !.mem = m]

\* Cells from p copied to those from d, and nothing else.
CellsMoved(new, old, cap, d, p, n) ==
    \A i \in 0 .. cap - 1 : new[i] = IF d <= i /\ i < d + n THEN old[p + i - d] ELSE old[i]

\* A move inside a block.
LEMMA Moves ==
    ASSUME NEW x \in Nat, NEW r, r.mem \in Block(x),
           NEW d \in Int, NEW p \in Int, NEW n \in Nat,
           n = 0 \/ (0 <= d /\ d + n <= x /\ 0 <= p /\ p + n <= x)
    PROVE  \E m \in Block(x) :
             /\ MemMove(r, d, p, n) = WithMem(r, m)
             /\ CellsMoved(m, r.mem, x, d, p, n)
<1> DEFINE m == Copied(r.mem, d, r.mem, p, n)
<1>1. DOMAIN r.mem = 0 .. x - 1 /\ \A i \in 0 .. x - 1 : r.mem[i] \in Cell
  BY DEF Block
<1>2. Inside(r.mem, d, n) /\ Inside(r.mem, p, n)
  BY <1>1 DEF Inside
<1>3. MemMove(r, d, p, n) = WithMem(r, m)
  BY <1>2, Zenon DEF MemMove, WithMem
<1>4. \A i \in 0 .. x - 1 : d <= i /\ i < d + n => r.mem[p + i - d] \in Cell
  BY <1>1
<1>5. /\ m \in Block(x)
      /\ CellsMoved(m, r.mem, x, d, p, n)
  BY <1>1, <1>4 DEF Copied, Block, CellsMoved
<1> HIDE DEF m
<1> QED  BY <1>3, <1>5

\* Elements v put into a list behind its first k, and n taken out there.
LEMMA InsertedList ==
    ASSUME NEW s \in Seq(Cell), NEW k \in 0 .. Len(s), NEW v \in Seq(Cell)
    PROVE  LET t == SubSeq(s, 1, k) \o v \o SubSeq(s, k + 1, Len(s))
           IN  /\ t \in Seq(Cell) /\ Len(t) = Len(s) + Len(v)
               /\ \A i \in 1 .. Len(s) + Len(v) :
                    t[i] = IF i <= k THEN s[i]
                           ELSE IF i <= k + Len(v) THEN v[i - k] ELSE s[i - Len(v)]
<1> DEFINE p == SubSeq(s, 1, k)
           q == SubSeq(s, k + 1, Len(s))
<1>1. Len(s) \in Nat /\ Len(v) \in Nat /\ \A i \in 1 .. Len(s) : s[i] \in Cell
  OBVIOUS
<1>2. p \in Seq(Cell) /\ Len(p) = k /\ \A i \in 1 .. k : p[i] = s[i]
  BY <1>1, SubSeqProperties
<1>3. q \in Seq(Cell) /\ Len(q) = Len(s) - k /\ \A i \in 1 .. Len(s) - k : q[i] = s[k + i]
  <2>1. \A i \in k + 1 .. Len(s) : s[i] \in Cell
    BY <1>1
  <2>2. /\ q \in Seq(Cell) /\ Len(q) = IF k + 1 <= Len(s) THEN Len(s) - (k + 1) + 1 ELSE 0
        /\ \A i \in 1 .. Len(s) - (k + 1) + 1 : q[i] = s[k + 1 + i - 1]
    BY <2>1, SubSeqProperties
  <2> QED  BY <1>1, <2>2
<1> HIDE DEF p, q
<1> DEFINE pv == p \o v
<1>4. pv \in Seq(Cell) /\ Len(pv) = k + Len(v)
      /\ \A i \in 1 .. k + Len(v) : pv[i] = IF i <= k THEN p[i] ELSE v[i - k]
  <2>1. /\ pv \in Seq(Cell) /\ Len(pv) = Len(p) + Len(v)
        /\ \A i \in 1 .. Len(p) + Len(v) : pv[i] = IF i <= Len(p) THEN p[i] ELSE v[i - Len(p)]
    BY <1>2, ConcatProperties
  <2> QED  BY <1>2, <2>1
<1> HIDE DEF pv
<1>5. /\ pv \o q \in Seq(Cell) /\ Len(pv \o q) = Len(s) + Len(v)
      /\ \A i \in 1 .. Len(s) + Len(v) : (pv \o q)[i] = IF i <= k + Len(v) THEN pv[i] ELSE q[i - (k + Len(v))]
  <2>1. /\ pv \o q \in Seq(Cell) /\ Len(pv \o q) = Len(pv) + Len(q)
        /\ \A i \in 1 .. Len(pv) + Len(q) : (pv \o q)[i] = IF i <= Len(pv) THEN pv[i] ELSE q[i - Len(pv)]
    BY <1>3, <1>4, ConcatProperties
  <2>2. Len(pv) + Len(q) = Len(s) + Len(v)
    BY <1>1, <1>3, <1>4
  <2> QED  BY <1>4, <2>1, <2>2
<1>6. ASSUME NEW i \in 1 .. Len(s) + Len(v)
      PROVE  (pv \o q)[i] = IF i <= k THEN s[i]
                            ELSE IF i <= k + Len(v) THEN v[i - k] ELSE s[i - Len(v)]
  <2>1. CASE i <= k
    BY <1>1, <1>2, <1>4, <1>5, <2>1
  <2>2. CASE ~ (i <= k) /\ i <= k + Len(v)
    BY <1>1, <1>4, <1>5, <2>2
  <2>3. CASE ~ (i <= k + Len(v))
    <3>1. i - (k + Len(v)) \in 1 .. Len(s) - k /\ k + (i - (k + Len(v))) = i - Len(v) /\ ~ (i <= k)
      BY <1>1, <2>3
    <3> QED  BY <1>3, <1>5, <2>3, <3>1
  <2> QED  BY <2>1, <2>2, <2>3
<1> QED  BY <1>5, <1>6 DEF pv, p, q

LEMMA ErasedList ==
    ASSUME NEW s \in Seq(Cell), NEW k \in Nat, NEW n \in Nat, k + n <= Len(s)
    PROVE  LET t == SubSeq(s, 1, k) \o SubSeq(s, k + n + 1, Len(s))
           IN  /\ t \in Seq(Cell) /\ Len(t) = Len(s) - n
               /\ \A i \in 1 .. Len(s) - n : t[i] = IF i <= k THEN s[i] ELSE s[i + n]
<1> DEFINE p == SubSeq(s, 1, k)
           q == SubSeq(s, k + n + 1, Len(s))
<1>1. Len(s) \in Nat /\ \A i \in 1 .. Len(s) : s[i] \in Cell
  OBVIOUS
<1>2. p \in Seq(Cell) /\ Len(p) = k /\ \A i \in 1 .. k : p[i] = s[i]
  BY <1>1, SubSeqProperties
<1>3. q \in Seq(Cell) /\ Len(q) = Len(s) - (k + n) /\ \A i \in 1 .. Len(s) - (k + n) : q[i] = s[k + n + i]
  <2>1. \A i \in k + n + 1 .. Len(s) : s[i] \in Cell
    BY <1>1
  <2>2. /\ q \in Seq(Cell) /\ Len(q) = IF k + n + 1 <= Len(s) THEN Len(s) - (k + n + 1) + 1 ELSE 0
        /\ \A i \in 1 .. Len(s) - (k + n + 1) + 1 : q[i] = s[k + n + 1 + i - 1]
    BY <2>1, SubSeqProperties
  <2> QED  BY <1>1, <2>2
<1> HIDE DEF p, q
<1>4. /\ p \o q \in Seq(Cell) /\ Len(p \o q) = Len(p) + Len(q)
      /\ \A i \in 1 .. Len(p) + Len(q) : (p \o q)[i] = IF i <= Len(p) THEN p[i] ELSE q[i - Len(p)]
  BY <1>2, <1>3, ConcatProperties
<1>5. ASSUME NEW i \in 1 .. Len(s) - n
      PROVE  (p \o q)[i] = IF i <= k THEN s[i] ELSE s[i + n]
  <2>1. i \in 1 .. Len(p) + Len(q)
    BY <1>1, <1>2, <1>3
  <2>2. CASE i <= k
    BY <1>2, <1>4, <2>1, <2>2
  <2>3. CASE ~ (i <= k)
    <3>1. i - k \in 1 .. Len(s) - (k + n) /\ k + n + (i - k) = i + n
      BY <1>1, <2>3
    <3> QED  BY <1>2, <1>3, <1>4, <2>1, <2>3, <3>1
  <2> QED  BY <2>2, <2>3
<1>6. Len(p \o q) = Len(s) - n
  BY <1>1, <1>2, <1>3, <1>4
<1> QED  BY <1>4, <1>5, <1>6 DEF p, q

-----------------------------------------------------------------------------
(***************************************************************************)
(* The array.                                                              *)
(***************************************************************************)
ArrRec == [mem : Blocks, size : Nat, cap : Nat, opts : Opts, sound : BOOLEAN]
ArrShape(x) == x \in ArrRec /\ x.mem \in Block(x.cap) /\ x.size <= x.cap

\* What was never asked for is unspecified.
Holds(x, s) ==
    /\ ArrShape(x) /\ s \in Seq(Cell) /\ x.size = Len(s)
    /\ \A i \in 1 .. Len(s) : s[i] # Junk => x.mem[i - 1] = s[i]

Sized(x, n) == [x EXCEPT !.size = n]
Rewrite(x, m, cap, n) == [x EXCEPT !.mem = m, !.cap = cap, !.size = n]

LEMMA Rewritten ==
    ASSUME NEW x \in ArrRec, NEW cap \in Nat, NEW m \in Block(cap), NEW n \in Nat, n <= cap
    PROVE  /\ ArrShape(Rewrite(x, m, cap, n)) /\ Rewrite(x, m, cap, n).mem = m
           /\ Rewrite(x, m, cap, n).size = n /\ Rewrite(x, m, cap, n).cap = cap
           /\ Rewrite(x, m, cap, n).opts = x.opts
<1>1. m \in Blocks
  BY ABlock
<1> QED  BY <1>1 DEF ArrShape, ArrRec, Rewrite

\* The cells of a block of cap cells that fit into one of n.
Kept(new, old, n, cap) == \A i \in 0 .. n - 1 : i < cap => new[i] = old[i]

LEMMA Reallocated ==
    ASSUME NEW x, ArrShape(x), NEW n \in Nat, NEW k \in Nat, k <= n
    PROVE  /\ ArrShape(Sized(Realloc(x, n), k)) /\ Sized(Realloc(x, n), k).size = k
           /\ Sized(Realloc(x, n), k).cap = n /\ Sized(Realloc(x, n), k).opts = x.opts
           /\ Kept(Sized(Realloc(x, n), k).mem, x.mem, n, x.cap)
<1> DEFINE m == Copied(NewBlock(n), 0, x.mem, 0, Smaller(x.cap, n))
<1>1. x \in ArrRec /\ x.cap \in Nat /\ x.mem \in Block(x.cap)
  BY DEF ArrShape, ArrRec
<1>2. /\ Smaller(x.cap, n) \in Nat
      /\ \A i \in 0 .. n - 1 : i < Smaller(x.cap, n) <=> i < x.cap
      /\ \A i \in 0 .. n - 1 : i < x.cap => x.mem[i] \in Cell /\ 0 + i - 0 = i
  BY <1>1 DEF Smaller, Block
<1>3. NewBlock(n) \in Block(n) /\ DOMAIN NewBlock(n) = 0 .. n - 1
  BY Fresh DEF NewBlock
<1>4. m \in Block(n) /\ \A i \in 0 .. n - 1 : i < x.cap => m[i] = x.mem[i]
  BY <1>2, <1>3 DEF Copied, Block
<1>5. Sized(Realloc(x, n), k) = Rewrite(x, m, n, k)
  BY <1>1 DEF Realloc, ArrRec, Sized, Rewrite
<1> HIDE DEF m
<1>6. /\ ArrShape(Rewrite(x, m, n, k)) /\ Rewrite(x, m, n, k).mem = m
      /\ Rewrite(x, m, n, k).size = k /\ Rewrite(x, m, n, k).cap = n
      /\ Rewrite(x, m, n, k).opts = x.opts
  BY <1>1, <1>4, Rewritten
<1> QED  BY <1>4, <1>5, <1>6 DEF Kept

\* The cells from p moved to d, and another size.
LEMMA MovedTo ==
    ASSUME NEW x, ArrShape(x), NEW d \in Nat, NEW p \in Nat, NEW n \in Nat,
           d + n <= x.cap, p + n <= x.cap, NEW k \in Nat, k <= x.cap
    PROVE  /\ ArrShape(Sized(MemMove(x, d, p, n), k)) /\ Sized(MemMove(x, d, p, n), k).size = k
           /\ Sized(MemMove(x, d, p, n), k).cap = x.cap /\ Sized(MemMove(x, d, p, n), k).opts = x.opts
           /\ CellsMoved(Sized(MemMove(x, d, p, n), k).mem, x.mem, x.cap, d, p, n)
<1>1. x \in ArrRec /\ x.cap \in Nat /\ x.mem \in Block(x.cap)
  BY DEF ArrShape, ArrRec
<1>2. PICK m \in Block(x.cap) :
        /\ MemMove(x, d, p, n) = WithMem(x, m)
        /\ CellsMoved(m, x.mem, x.cap, d, p, n)
  <2>1. /\ x.cap \in Nat /\ x.mem \in Block(x.cap) /\ d \in Int /\ p \in Int /\ n \in Nat
        /\ 0 <= d /\ d + n <= x.cap /\ 0 <= p /\ p + n <= x.cap
    BY <1>1
  <2> QED  BY <2>1, Moves
<1>3. Sized(WithMem(x, m), k) = Rewrite(x, m, x.cap, k)
  BY <1>1 DEF WithMem, ArrRec, Sized, Rewrite
<1> QED  BY <1>1, <1>2, <1>3, Rewritten DEF CellsMoved

\* A gap of n cells before the cell it.
Opened(new, old, size, it, n) ==
    /\ \A i \in 0 .. it - 1 : new[i] = old[i]
    /\ \A i \in it .. size - 1 : new[i + n] = old[i]

LEMMA SpaceInserted ==
    ASSUME NEW x, ArrShape(x), NEW it \in Nat, it <= x.size, NEW n \in Nat,
           NEW r \in stdarr_low_insert_space(x, it, n)
    PROVE  /\ r = Result(r.c, it, r.ret)
           /\ r.ret # "STDESUCCESS" => r.c = x
           /\ r.ret = "STDESUCCESS" =>
                /\ ArrShape(r.c) /\ r.c.size = x.size + n /\ r.c.opts = x.opts
                /\ Opened(r.c.mem, x.mem, x.size, it, n)
<1> DEFINE nsize == x.size + n
           ncap == Larger(2 * nsize, STDARR_MIN_AUTO_ALLOC)
           grown == Realloc(x, ncap)
           Open(b) == [MemMove(b, it + n, it, x.size - it) EXCEPT !.size = nsize]
<1>1. x \in ArrRec /\ x.size \in Nat /\ x.cap \in Nat /\ x.size <= x.cap /\ nsize \in Nat
  BY DEF ArrShape, ArrRec
<1>2. ncap \in Nat /\ nsize <= ncap /\ x.size <= ncap
  BY <1>1, ArrAssumption DEF Larger
<1>3. ASSUME NEW b, ArrShape(b), b.size = x.size, b.opts = x.opts, nsize <= b.cap,
             \A i \in 0 .. x.size - 1 : b.mem[i] = x.mem[i]
      PROVE  /\ ArrShape(Open(b)) /\ Open(b).size = nsize /\ Open(b).opts = x.opts
             /\ \A i \in 0 .. it - 1 : Open(b).mem[i] = x.mem[i]
             /\ \A i \in it .. x.size - 1 : Open(b).mem[i + n] = x.mem[i]
  <2> DEFINE y == Open(b)
             l == x.size - it
             d == it + n
  <2>1. l \in Nat /\ d \in Nat /\ d + l <= b.cap /\ it + l <= b.cap /\ b.cap \in Nat
    BY <1>1, <1>3 DEF ArrShape, ArrRec
  <2>2. y = Sized(MemMove(b, d, it, l), nsize)
    BY DEF Sized
  <2> HIDE DEF y, l, d
  <2>3. /\ ArrShape(y) /\ y.size = nsize /\ y.cap = b.cap /\ y.opts = b.opts
        /\ \A i \in 0 .. b.cap - 1 : y.mem[i] = IF d <= i /\ i < d + l THEN b.mem[it + i - d] ELSE b.mem[i]
    <3> HIDE DEF nsize
    <3>0. d \in Nat /\ l \in Nat /\ d + l <= b.cap /\ it + l <= b.cap /\ nsize \in Nat /\ nsize <= b.cap /\ ArrShape(b) /\ b.cap \in Nat
      BY <1>1, <1>3, <2>1
    <3>1. /\ ArrShape(Sized(MemMove(b, d, it, l), nsize)) /\ Sized(MemMove(b, d, it, l), nsize).size = nsize
          /\ Sized(MemMove(b, d, it, l), nsize).cap = b.cap /\ Sized(MemMove(b, d, it, l), nsize).opts = b.opts
      BY <3>0, MovedTo
    <3>2. CellsMoved(Sized(MemMove(b, d, it, l), nsize).mem, b.mem, b.cap, d, it, l)
      BY <3>0, MovedTo
    <3> QED  BY <2>2, <3>1, <3>2 DEF CellsMoved
  <2>4. ASSUME NEW i \in 0 .. it - 1 PROVE y.mem[i] = x.mem[i]
    <3>1. i \in 0 .. b.cap - 1 /\ ~ (d <= i) /\ i \in 0 .. x.size - 1
      BY <1>1, <2>1, <2>4 DEF l, d
    <3> QED  BY <1>3, <2>3, <3>1
  <2>5. ASSUME NEW i \in it .. x.size - 1 PROVE y.mem[i + n] = x.mem[i]
    <3>1. /\ i + n \in 0 .. b.cap - 1 /\ d <= i + n /\ i + n < d + l /\ it + (i + n) - d = i
          /\ i \in 0 .. x.size - 1
      BY <1>1, <2>1, <2>5 DEF l, d
    <3> QED  BY <1>3, <2>3, <3>1
  <2>6. /\ ArrShape(y) /\ y.size = nsize /\ y.opts = x.opts
        /\ \A i \in 0 .. it - 1 : y.mem[i] = x.mem[i]
        /\ \A i \in it .. x.size - 1 : y.mem[i + n] = x.mem[i]
    BY <1>3, <2>3, <2>4, <2>5
  <2> QED  BY <2>6 DEF y
<1>4. /\ ArrShape(grown) /\ grown.size = x.size /\ grown.cap = ncap /\ grown.opts = x.opts
      /\ \A i \in 0 .. x.size - 1 : grown.mem[i] = x.mem[i]
  <2>1. grown = Sized(grown, x.size)
    BY <1>1 DEF Realloc, ArrRec, Sized
  <2> HIDE DEF grown, ncap
  <2>2. /\ ArrShape(grown) /\ grown.size = x.size /\ grown.cap = ncap /\ grown.opts = x.opts
        /\ \A i \in 0 .. ncap - 1 : i < x.cap => grown.mem[i] = x.mem[i]
    <3> DEFINE k == x.size
    <3>0. k \in Nat /\ k <= ncap /\ ncap \in Nat
      BY <1>1, <1>2
    <3> HIDE DEF k
    <3>1. /\ ArrShape(Sized(Realloc(x, ncap), k)) /\ Sized(Realloc(x, ncap), k).size = k
          /\ Sized(Realloc(x, ncap), k).cap = ncap /\ Sized(Realloc(x, ncap), k).opts = x.opts
      BY <3>0, Reallocated
    <3>2. Kept(Sized(Realloc(x, ncap), k).mem, x.mem, ncap, x.cap)
      BY <3>0, Reallocated
    <3>3. grown = Sized(Realloc(x, ncap), k) /\ k = x.size
      BY <2>1 DEF grown, k
    <3> QED  BY <3>1, <3>2, <3>3 DEF Kept
  <2> QED  BY <1>1, <1>2, <2>2
<1>5. \/ r = Result(Open(x), it, "STDESUCCESS") /\ nsize <= x.cap
      \/ r = Result(x, it, "STDEACCES") \/ r = Result(x, it, "STDENOMEM")
      \/ r = Result(Open(grown), it, "STDESUCCESS")
  BY DEF stdarr_low_insert_space, stdarr_high_capacity
<1> HIDE DEF Open, grown, nsize, ncap
<1>6. CASE r = Result(Open(x), it, "STDESUCCESS") /\ nsize <= x.cap
  BY <1>3, <1>6 DEF Result, nsize, Opened
<1>7. CASE r = Result(x, it, "STDEACCES") \/ r = Result(x, it, "STDENOMEM")
  BY <1>7 DEF Result
<1>8. CASE r = Result(Open(grown), it, "STDESUCCESS")
  <2>1. nsize <= grown.cap
    BY <1>2, <1>4
  <2> QED  BY <1>3, <1>4, <1>8, <2>1 DEF Result, nsize, Opened
<1> QED  BY <1>5, <1>6, <1>7, <1>8

LEMMA SpaceRemoved ==
    ASSUME NEW x, ArrShape(x), NEW it \in Nat, NEW n \in Nat, it + n <= x.size,
           NEW r \in stdarr_low_remove_space(x, it, n)
    PROVE  /\ r.ret = "STDESUCCESS" /\ ArrShape(r.c) /\ r.c.size = x.size - n
           /\ \A i \in 0 .. it - 1 : r.c.mem[i] = x.mem[i]
           /\ \A i \in it .. x.size - n - 1 : r.c.mem[i] = x.mem[i + n]
<1> DEFINE l == x.size - it - n
           closed == [MemMove(x, it, it + n, l) EXCEPT !.size = @ - n]
           ncap == Larger(2 * closed.size, STDARR_MIN_AUTO_ALLOC)
<1>1. x \in ArrRec /\ x.size \in Nat /\ x.cap \in Nat /\ x.size <= x.cap /\ x.mem \in Block(x.cap)
  BY DEF ArrShape, ArrRec
<1>2. /\ l \in Nat /\ it + n \in Nat /\ it + l <= x.cap /\ it + n + l <= x.cap
      /\ x.size - n \in Nat /\ x.size - n <= x.cap /\ it + l = x.size - n
  BY <1>1
<1>3. closed = Sized(MemMove(x, it, it + n, l), x.size - n)
  <2>1. PICK m \in Block(x.cap) : MemMove(x, it, it + n, l) = WithMem(x, m)
    BY <1>1, <1>2, Moves
  <2>2. MemMove(x, it, it + n, l).size = x.size
    BY <1>1, <2>1 DEF WithMem, ArrRec
  <2> QED  BY <2>2 DEF Sized
<1> HIDE DEF closed, l
<1>4. /\ ArrShape(closed) /\ closed.size = x.size - n /\ closed.cap = x.cap
      /\ \A i \in 0 .. x.cap - 1 : closed.mem[i] = IF it <= i /\ i < it + l THEN x.mem[it + n + i - it] ELSE x.mem[i]
  <2> DEFINE p == it + n
             k == x.size - n
  <2>1. p \in Nat /\ p + l <= x.cap /\ k \in Nat /\ k <= x.cap /\ l \in Nat /\ it + l <= x.cap
    BY <1>2
  <2>2. closed = Sized(MemMove(x, it, p, l), k)
    BY <1>3
  <2> HIDE DEF p, k
  <2>3. /\ ArrShape(Sized(MemMove(x, it, p, l), k)) /\ Sized(MemMove(x, it, p, l), k).size = k
        /\ Sized(MemMove(x, it, p, l), k).cap = x.cap
    BY <2>1, MovedTo
  <2>4. CellsMoved(Sized(MemMove(x, it, p, l), k).mem, x.mem, x.cap, it, p, l)
    BY <2>1, MovedTo
  <2> QED  BY <2>2, <2>3, <2>4 DEF p, k, CellsMoved
<1>5. \A i \in 0 .. it - 1 : closed.mem[i] = x.mem[i]
  BY <1>1, <1>2, <1>4
<1>6. \A i \in it .. x.size - n - 1 : closed.mem[i] = x.mem[i + n]
  <2>1. ASSUME NEW i \in it .. x.size - n - 1
        PROVE  i \in 0 .. x.cap - 1 /\ it <= i /\ i < it + l /\ it + n + i - it = i + n
    BY <1>1, <1>2
  <2> QED  BY <1>4, <2>1
<1>7. ncap \in Nat /\ closed.size <= ncap
  BY <1>2, <1>4, ArrAssumption DEF Larger
<1>8. r = Result(closed, it, "STDESUCCESS") \/ r = Result(Realloc(closed, ncap), it, "STDESUCCESS")
  BY DEF stdarr_low_remove_space, closed, l
<1> HIDE DEF ncap
<1>9. CASE r = Result(closed, it, "STDESUCCESS")
  BY <1>4, <1>5, <1>6, <1>9 DEF Result
<1>10. CASE r = Result(Realloc(closed, ncap), it, "STDESUCCESS")
  <2> DEFINE y == Realloc(closed, ncap)
  <2>1. y = Sized(y, closed.size)
    BY <1>4 DEF Realloc, ArrShape, ArrRec, Sized
  <2> HIDE DEF y
  <2>2. /\ ArrShape(y) /\ y.size = closed.size
        /\ \A i \in 0 .. ncap - 1 : i < closed.cap => y.mem[i] = closed.mem[i]
    <3> DEFINE k == closed.size
    <3>1. k \in Nat /\ k <= ncap /\ ncap \in Nat /\ ArrShape(closed)
      BY <1>2, <1>4, <1>7
    <3>2. y = Sized(Realloc(closed, ncap), k)
      BY <2>1 DEF y
    <3> HIDE DEF k
    <3>3. ArrShape(Sized(Realloc(closed, ncap), k)) /\ Sized(Realloc(closed, ncap), k).size = k
      BY <3>1, Reallocated
    <3>4. Kept(Sized(Realloc(closed, ncap), k).mem, closed.mem, ncap, closed.cap)
      BY <3>1, Reallocated
    <3> QED  BY <3>2, <3>3, <3>4 DEF k, Kept
  <2>3. \A i \in 0 .. x.size - n - 1 : y.mem[i] = closed.mem[i]
    BY <1>1, <1>2, <1>4, <1>7, <2>2
  <2>4. \A i \in 0 .. it - 1 : y.mem[i] = x.mem[i]
    BY <1>1, <1>2, <1>5, <2>3
  <2>5. \A i \in it .. x.size - n - 1 : y.mem[i] = x.mem[i + n]
    BY <1>1, <1>2, <1>6, <2>3
  <2> QED  BY <1>4, <1>10, <2>2, <2>4, <2>5 DEF Result, y
<1> QED  BY <1>8, <1>9, <1>10

LEMMA Remembered ==
    ASSUME NEW x, ArrShape(x), NEW m \in Block(x.cap)
    PROVE  /\ ArrShape(WithMem(x, m)) /\ WithMem(x, m).mem = m /\ WithMem(x, m).size = x.size
           /\ WithMem(x, m).cap = x.cap /\ WithMem(x, m).opts = x.opts
<1>1. m \in Blocks
  BY ABlock DEF ArrShape, ArrRec
<1> QED  BY <1>1 DEF ArrShape, ArrRec, WithMem

LEMMA HoldsParts ==
    ASSUME NEW x, NEW s, Holds(x, s)
    PROVE  /\ ArrShape(x) /\ x.mem \in Block(x.cap) /\ s \in Seq(Cell) /\ Len(s) \in Nat /\ x.size = Len(s)
           /\ x.cap \in Nat /\ Len(s) <= x.cap /\ x.opts \in Opts
BY DEF Holds, ArrShape, ArrRec

\* What a call of the array gives a client who has asked for s and now for t.
Gives(r, s, t) ==
    /\ r.ret = "STDESUCCESS" => Holds(r.c, t)
    /\ r.ret # "STDESUCCESS" => Holds(r.c, s)

\* A list with others put into it, taken out of it, or cut and filled up.
WithIn(t, s, k, v) ==
    /\ t \in Seq(Cell) /\ Len(t) = Len(s) + Len(v)
    /\ \A i \in 1 .. Len(s) + Len(v) :
         t[i] = IF i <= k THEN s[i] ELSE IF i <= k + Len(v) THEN v[i - k] ELSE s[i - Len(v)]
Without(t, s, k, n) ==
    /\ t \in Seq(Cell) /\ Len(t) = Len(s) - n
    /\ \A i \in 1 .. Len(s) - n : t[i] = IF i <= k THEN s[i] ELSE s[i + n]
Cut(t, s, n) ==
    /\ t \in Seq(Cell) /\ Len(t) = n
    /\ \A i \in 1 .. n : t[i] = IF i <= Len(s) THEN s[i] ELSE Junk

LEMMA IsWithIn ==
    ASSUME NEW s \in Seq(Cell), NEW k \in 0 .. Len(s), NEW v \in Seq(Cell)
    PROVE  WithIn(SubSeq(s, 1, k) \o v \o SubSeq(s, k + 1, Len(s)), s, k, v)
BY InsertedList DEF WithIn

LEMMA IsWithout ==
    ASSUME NEW s \in Seq(Cell), NEW k \in Nat, NEW n \in Nat, k + n <= Len(s)
    PROVE  Without(SubSeq(s, 1, k) \o SubSeq(s, k + n + 1, Len(s)), s, k, n)
BY ErasedList DEF Without

LEMMA IsCut ==
    ASSUME NEW s \in Seq(Cell), NEW n \in Nat
    PROVE  Cut([i \in 1 .. n |-> IF i <= Len(s) THEN s[i] ELSE Junk], s, n)
<1> DEFINE t == [i \in 1 .. n |-> IF i <= Len(s) THEN s[i] ELSE Junk]
<1>1. \A i \in 1 .. n : t[i] \in Cell
  BY DEF Cell
<1>2. t \in [1 .. n -> Cell]
  BY <1>1
<1>3. t \in Seq(Cell)
  BY <1>2
<1>4. Len(t) = n
  BY <1>2, <1>3
<1> QED  BY <1>3, <1>4 DEF Cut

LEMMA ArrInserted ==
    ASSUME NEW x, NEW s, Holds(x, s), NEW k \in 0 .. Len(s), NEW v \in Seq(Cell), NEW t, WithIn(t, s, k, v),
           NEW r \in stdarr_insert_n(x, k, v)
    PROVE  Gives(r, s, t)
<1> DEFINE l == Len(v)
           vals == [i \in 0 .. l - 1 |-> v[i + 1]]
<1>1. /\ ArrShape(x) /\ s \in Seq(Cell) /\ Len(s) \in Nat /\ x.size = Len(s) /\ k \in Nat /\ k <= x.size
      /\ l \in Nat
  BY HoldsParts
<1>2. PICK q \in stdarr_low_insert_space(x, k, l) :
        r = IF q.ret = "STDESUCCESS" THEN [q EXCEPT !.c.mem = Copied(@, q.it, vals, 0, l)] ELSE q
  BY DEF stdarr_insert_n
<1>3. q = Result(q.c, k, q.ret) /\ (q.ret # "STDESUCCESS" => q.c = x)
  BY <1>1, <1>2, SpaceInserted
<1>4. q.ret = "STDESUCCESS" =>
                /\ ArrShape(q.c) /\ q.c.size = x.size + l
                /\ \A i \in 0 .. k - 1 : q.c.mem[i] = x.mem[i]
                /\ \A i \in k .. x.size - 1 : q.c.mem[i + l] = x.mem[i]
  <2> HIDE DEF l, vals
  <2>1. k \in Nat /\ k <= x.size /\ l \in Nat /\ ArrShape(x) /\ q \in stdarr_low_insert_space(x, k, l)
    BY <1>1, <1>2
  <2>2. q.ret = "STDESUCCESS" => ArrShape(q.c) /\ q.c.size = x.size + l
    BY <2>1, SpaceInserted
  <2>3. q.ret = "STDESUCCESS" => Opened(q.c.mem, x.mem, x.size, k, l)
    BY <2>1, SpaceInserted
  <2> QED  BY <2>2, <2>3 DEF Opened
<1>5. CASE q.ret # "STDESUCCESS"
  BY <1>2, <1>3, <1>5 DEF Gives
<1>6. CASE q.ret = "STDESUCCESS"
  <2> DEFINE m == Copied(q.c.mem, k, vals, 0, l)
  <2>1. r.c = WithMem(q.c, m) /\ r.ret = "STDESUCCESS"
    BY <1>2, <1>3, <1>6 DEF WithMem, Result
  <2>2. /\ q.c.mem \in Block(q.c.cap) /\ q.c.cap \in Nat /\ x.size + l <= q.c.cap /\ ArrShape(q.c)
        /\ q.c.size = x.size + l
    BY <1>4, <1>6 DEF ArrShape, ArrRec
  <2>3. \A i \in 0 .. l - 1 : vals[i] = v[i + 1] /\ vals[i] \in Cell
    BY <1>1
  <2> HIDE DEF vals
  <2>4. /\ m \in Block(q.c.cap)
        /\ \A i \in 0 .. q.c.cap - 1 : m[i] = IF k <= i /\ i < k + l THEN vals[i - k] ELSE q.c.mem[i]
    <3>1. \A i \in 0 .. q.c.cap - 1 : k <= i /\ i < k + l => i - k \in 0 .. l - 1 /\ 0 + i - k = i - k
      BY <1>1, <2>2
    <3> QED  BY <2>2, <2>3, <3>1 DEF Copied, Block
  <2> HIDE DEF m
  <2>5. ArrShape(r.c) /\ r.c.mem = m /\ r.c.size = x.size + l
    BY <2>1, <2>2, <2>4, Remembered
  <2>6. t \in Seq(Cell) /\ Len(t) = Len(s) + l
    BY DEF WithIn
  <2>7. ASSUME NEW i \in 1 .. Len(s) + l, t[i] # Junk
        PROVE  m[i - 1] = t[i]
    <3>1. t[i] = IF i <= k THEN s[i] ELSE IF i <= k + l THEN v[i - k] ELSE s[i - l]
      BY <2>7 DEF WithIn
    <3>2. i - 1 \in 0 .. q.c.cap - 1
      BY <1>1, <2>2
    <3>3. \A j \in 1 .. Len(s) : s[j] # Junk => x.mem[j - 1] = s[j]
      BY DEF Holds
    <3>4. CASE i <= k
      <4>1. i - 1 \in 0 .. k - 1 /\ ~ (k <= i - 1) /\ i \in 1 .. Len(s)
        BY <1>1, <3>4
      <4> QED  BY <1>4, <1>6, <2>4, <2>7, <3>1, <3>2, <3>3, <3>4, <4>1
    <3>5. CASE ~ (i <= k) /\ i <= k + l
      <4>1. k <= i - 1 /\ i - 1 < k + l /\ i - 1 - k \in 0 .. l - 1 /\ i - 1 - k + 1 = i - k
        BY <1>1, <3>5
      <4> QED  BY <2>3, <2>4, <3>1, <3>2, <3>5, <4>1
    <3>6. CASE ~ (i <= k) /\ ~ (i <= k + l)
      <4>1. /\ ~ (i - 1 < k + l) /\ i - l \in 1 .. Len(s) /\ i - l - 1 \in k .. x.size - 1
            /\ i - l - 1 + l = i - 1
        BY <1>1, <3>6
      <4>2. q.c.mem[i - 1] = x.mem[i - l - 1]
        BY <1>4, <1>6, <4>1
      <4>3. x.mem[i - l - 1] = s[i - l]
        BY <2>7, <3>1, <3>3, <3>6, <4>1
      <4> QED  BY <2>4, <3>1, <3>2, <3>6, <4>1, <4>2, <4>3
    <3> QED  BY <3>4, <3>5, <3>6
  <2>8. Holds(r.c, t)
    BY <1>1, <2>5, <2>6, <2>7 DEF Holds
  <2> QED  BY <2>1, <2>8 DEF Gives
<1> QED  BY <1>5, <1>6

LEMMA ArrErased ==
    ASSUME NEW x, NEW s, Holds(x, s), NEW k \in Nat, NEW n \in Nat, k + n <= Len(s), NEW t, Without(t, s, k, n),
           NEW r \in stdarr_low_remove_space(x, k, n)
    PROVE  Gives(r, s, t)
<1>1. ArrShape(x) /\ Len(s) \in Nat /\ x.size = Len(s) /\ k + n <= x.size
  BY HoldsParts
<1>2. /\ r.ret = "STDESUCCESS" /\ ArrShape(r.c) /\ r.c.size = x.size - n
      /\ \A i \in 0 .. k - 1 : r.c.mem[i] = x.mem[i]
      /\ \A i \in k .. x.size - n - 1 : r.c.mem[i] = x.mem[i + n]
  BY <1>1, SpaceRemoved
<1>3. t \in Seq(Cell) /\ Len(t) = Len(s) - n
  BY DEF Without
<1>4. ASSUME NEW i \in 1 .. Len(s) - n, t[i] # Junk
      PROVE  r.c.mem[i - 1] = t[i]
  <2>1. t[i] = IF i <= k THEN s[i] ELSE s[i + n]
    BY <1>4 DEF Without
  <2>2. \A j \in 1 .. Len(s) : s[j] # Junk => x.mem[j - 1] = s[j]
    BY DEF Holds
  <2>3. CASE i <= k
    <3>1. i - 1 \in 0 .. k - 1 /\ i \in 1 .. Len(s)
      BY <1>1, <2>3
    <3> QED  BY <1>2, <1>4, <2>1, <2>2, <2>3, <3>1
  <2>4. CASE ~ (i <= k)
    <3>1. i - 1 \in k .. x.size - n - 1 /\ i + n \in 1 .. Len(s) /\ i - 1 + n = i + n - 1
      BY <1>1, <2>4
    <3>2. r.c.mem[i - 1] = x.mem[i + n - 1]
      BY <1>2, <3>1
    <3> QED  BY <1>4, <2>1, <2>2, <2>4, <3>1, <3>2
  <2> QED  BY <2>3, <2>4
<1>5. Holds(r.c, t)
  BY <1>1, <1>2, <1>3, <1>4 DEF Holds
<1> QED  BY <1>2, <1>5 DEF Gives

LEMMA ArrResized ==
    ASSUME NEW x, NEW s, Holds(x, s), NEW n \in Nat, NEW t, Cut(t, s, n),
           NEW r \in stdarr_resize(x, n)
    PROVE  /\ Gives(r, s, t)
           /\ r.ret = "STDESUCCESS" => ArrShape(r.c) /\ r.c.size = n
<1>1. ArrShape(x) /\ s \in Seq(Cell) /\ Len(s) \in Nat /\ x.size = Len(s)
  BY HoldsParts
<1>2. t \in Seq(Cell) /\ Len(t) = n /\ \A i \in 1 .. n : t[i] = IF i <= Len(s) THEN s[i] ELSE Junk
  BY DEF Cut
<1>3. \A j \in 1 .. Len(s) : s[j] # Junk => x.mem[j - 1] = s[j]
  BY DEF Holds
<1>4. CASE n > x.size
  <2> DEFINE k == x.size
             l == n - x.size
  <2>1. r \in stdarr_low_insert_space(x, k, l) /\ k \in Nat /\ k <= x.size /\ l \in Nat /\ x.size + l = n
         /\ ArrShape(x)
    BY <1>1, <1>4 DEF stdarr_resize
  <2> HIDE DEF k, l
  <2>2. r.ret # "STDESUCCESS" => r.c = x
    BY <2>1, SpaceInserted
  <2>3. r.ret = "STDESUCCESS" => ArrShape(r.c) /\ r.c.size = x.size + l
    BY <2>1, SpaceInserted
  <2>4. r.ret = "STDESUCCESS" => Opened(r.c.mem, x.mem, x.size, k, l)
    BY <2>1, SpaceInserted
  <2>5. ASSUME r.ret = "STDESUCCESS", NEW i \in 1 .. n, t[i] # Junk
        PROVE  r.c.mem[i - 1] = t[i]
    <3>1. i <= Len(s) /\ t[i] = s[i] /\ i \in 1 .. Len(s)
      BY <1>1, <1>2, <2>5
    <3>2. i - 1 \in 0 .. k - 1
      BY <1>1, <3>1 DEF k
    <3>3. r.c.mem[i - 1] = x.mem[i - 1]
      BY <2>4, <2>5, <3>2 DEF Opened
    <3> QED  BY <1>3, <2>5, <3>1, <3>3
  <2>6. r.ret = "STDESUCCESS" => Holds(r.c, t)
    BY <1>2, <2>1, <2>3, <2>5 DEF Holds
  <2> QED  BY <2>1, <2>2, <2>3, <2>6 DEF Gives
<1>5. CASE n < x.size
  <2> DEFINE l == x.size - n
  <2>1. r \in stdarr_low_remove_space(x, n, l) /\ l \in Nat /\ n + l <= x.size /\ x.size - l = n
         /\ ArrShape(x)
    BY <1>1, <1>5 DEF stdarr_resize
  <2> HIDE DEF l
  <2>2. /\ r.ret = "STDESUCCESS" /\ ArrShape(r.c) /\ r.c.size = x.size - l
        /\ \A i \in 0 .. n - 1 : r.c.mem[i] = x.mem[i]
    BY <2>1, SpaceRemoved
  <2>3. ASSUME NEW i \in 1 .. n, t[i] # Junk
        PROVE  r.c.mem[i - 1] = t[i]
    <3>1. t[i] = s[i] /\ i \in 1 .. Len(s) /\ i - 1 \in 0 .. n - 1
      BY <1>1, <1>2, <1>5, <2>3
    <3> QED  BY <1>3, <2>2, <2>3, <3>1
  <2>4. Holds(r.c, t)
    BY <1>2, <2>1, <2>2, <2>3 DEF Holds
  <2> QED  BY <2>1, <2>2, <2>4 DEF Gives
<1>6. CASE n = x.size
  <2>1. r = Result(x, n, "STDESUCCESS")
    BY <1>1, <1>6 DEF stdarr_resize
  <2>2. \A i \in 1 .. Len(t) : t[i] # Junk => x.mem[i - 1] = t[i]
    BY <1>1, <1>2, <1>3, <1>6
  <2>3. Holds(x, t)
    BY <1>1, <1>2, <1>6, <2>2 DEF Holds
  <2> QED  BY <1>1, <1>6, <2>1, <2>3 DEF Gives, Result
<1> QED  BY <1>1, <1>4, <1>5, <1>6

\* The size of the shorter of the two, for a list cut to a capacity.
LEMMA Shorter ==
    ASSUME NEW m \in Nat, NEW n \in Nat
    PROVE  Smaller(m, n) \in Nat /\ Smaller(m, n) <= m /\ Smaller(m, n) <= n /\ Smaller(m, n) = Smaller(n, m)
BY DEF Smaller

LEMMA ArrRecap ==
    ASSUME NEW x, NEW s, Holds(x, s), NEW n \in Nat, NEW t, Cut(t, s, Smaller(n, Len(s))),
           NEW r \in stdarr_set_capacity(x, n)
    PROVE  Gives(r, s, t)
<1> DEFINE k == Smaller(n, Len(s))
<1>1. ArrShape(x) /\ Len(s) \in Nat /\ x.size = Len(s) /\ Len(s) <= x.cap /\ x.cap \in Nat
  BY HoldsParts
<1>2. /\ k \in Nat /\ k <= n /\ k <= Len(s) /\ Smaller(x.size, n) = k
      /\ n >= Len(s) => k = Len(s)
  BY <1>1, Shorter DEF Smaller
<1> HIDE DEF k
<1>3. t \in Seq(Cell) /\ Len(t) = k /\ \A i \in 1 .. k : t[i] = s[i]
  BY <1>1, <1>2 DEF Cut, k
<1>4. \A j \in 1 .. Len(s) : s[j] # Junk => x.mem[j - 1] = s[j]
  BY DEF Holds
<1>5. \/ r = Result(x, 0, "STDESUCCESS") /\ n = x.cap
      \/ r = Result(x, 0, "STDENOMEM")
      \/ r = Result([Realloc(x, n) EXCEPT !.size = Smaller(@, n)], 0, "STDESUCCESS")
  BY DEF stdarr_set_capacity
<1>6. CASE r = Result(x, 0, "STDESUCCESS") /\ n = x.cap
  <2>1. k = Len(s)
    BY <1>1, <1>2, <1>6
  <2>2. Holds(x, t)
    BY <1>1, <1>3, <1>4, <2>1 DEF Holds
  <2> QED  BY <1>6, <2>2 DEF Gives, Result
<1>7. CASE r = Result(x, 0, "STDENOMEM")
  BY <1>7 DEF Gives, Result
<1>8. CASE r = Result([Realloc(x, n) EXCEPT !.size = Smaller(@, n)], 0, "STDESUCCESS")
  <2> DEFINE y == Sized(Realloc(x, n), k)
  <2>1. r = Result(y, 0, "STDESUCCESS")
    <3>1. Realloc(x, n).size = x.size
      BY <1>1 DEF Realloc, ArrShape, ArrRec
    <3> QED  BY <1>2, <1>8, <3>1 DEF Sized
  <2>2. ArrShape(y) /\ y.size = k /\ \A i \in 0 .. n - 1 : i < x.cap => y.mem[i] = x.mem[i]
    <3>1. k \in Nat /\ k <= n /\ ArrShape(x)
      BY <1>1, <1>2
    <3>2. ArrShape(y) /\ y.size = k
      BY <3>1, Reallocated
    <3>3. Kept(y.mem, x.mem, n, x.cap)
      BY <3>1, Reallocated
    <3> QED  BY <3>2, <3>3 DEF Kept
  <2> HIDE DEF y
  <2>3. ASSUME NEW i \in 1 .. k, t[i] # Junk
        PROVE  y.mem[i - 1] = t[i]
    <3>1. i - 1 \in 0 .. n - 1 /\ i - 1 < x.cap /\ i \in 1 .. Len(s) /\ t[i] = s[i]
      BY <1>1, <1>2, <1>3
    <3> QED  BY <1>4, <2>2, <2>3, <3>1
  <2>4. Holds(y, t)
    BY <1>3, <2>2, <2>3 DEF Holds
  <2> QED  BY <2>1, <2>4 DEF Gives, Result
<1> QED  BY <1>5, <1>6, <1>7, <1>8

\* A list cut to at least its length is the list.
LEMMA CutNothing ==
    ASSUME NEW s \in Seq(Cell), NEW n \in Nat, n >= Len(s)
    PROVE  Cut(s, s, Smaller(n, Len(s)))
<1>1. Len(s) \in Nat /\ \A i \in 1 .. Len(s) : i <= Len(s)
  OBVIOUS
<1>2. Smaller(n, Len(s)) = Len(s)
  BY <1>1 DEF Smaller
<1> QED  BY <1>1, <1>2 DEF Cut

LEMMA ArrReserved ==
    ASSUME NEW x, NEW s, Holds(x, s), NEW n \in Nat, NEW r \in stdarr_reserve(x, n)
    PROVE  Gives(r, s, s)
<1>1. s \in Seq(Cell) /\ Len(s) \in Nat /\ Len(s) <= x.cap /\ x.cap \in Nat
  BY HoldsParts
<1>2. CASE n > x.cap
  <2>1. r \in stdarr_set_capacity(x, n)
    BY <1>2 DEF stdarr_reserve
  <2>2. Cut(s, s, Smaller(n, Len(s)))
    BY <1>1, <1>2, CutNothing
  <2> QED  BY <2>1, <2>2, ArrRecap
<1>3. CASE ~ (n > x.cap)
  BY <1>3 DEF stdarr_reserve, Gives, Result
<1> QED  BY <1>2, <1>3

\* A copy, and the array as a client sees it, have the elements only.
LEMMA ArrForgotten ==
    ASSUME NEW x, NEW s, Holds(x, s)
    PROVE  /\ Holds(ArrForget(x), s) /\ Holds(stdarr_copy_construct(x), s)
<1> DEFINE m == Copied(NewBlock(x.cap), 0, x.mem, 0, x.size)
<1>1. ArrShape(x) /\ Len(s) \in Nat /\ x.size = Len(s) /\ Len(s) <= x.cap /\ x.cap \in Nat /\ x.mem \in Block(x.cap)
  BY HoldsParts
<1>2. ArrForget(x) = WithMem(x, m) /\ stdarr_copy_construct(x) = WithMem(x, m)
  BY DEF ArrForget, stdarr_copy_construct, WithMem
<1>3. /\ m \in Block(x.cap)
      /\ \A i \in 0 .. Len(s) - 1 : m[i] = x.mem[i]
  <2>1. NewBlock(x.cap) \in Block(x.cap) /\ DOMAIN NewBlock(x.cap) = 0 .. x.cap - 1
    BY <1>1, Fresh DEF NewBlock
  <2>2. \A i \in 0 .. x.cap - 1 : x.mem[i] \in Cell /\ 0 + i - 0 = i
    BY <1>1 DEF Block
  <2> QED  BY <1>1, <2>1, <2>2 DEF Copied, Block
<1> HIDE DEF m
<1>4. ArrShape(WithMem(x, m)) /\ WithMem(x, m).mem = m /\ WithMem(x, m).size = x.size
  BY <1>1, <1>3, Remembered
<1>5. \A i \in 1 .. Len(s) : s[i] # Junk => m[i - 1] = s[i]
  BY <1>1, <1>3 DEF Holds
<1>6. Holds(WithMem(x, m), s)
  BY <1>4, <1>5 DEF Holds
<1> QED  BY <1>2, <1>6

LEMMA ArrConstructed ==
    ASSUME NEW opts \in Opts
    PROVE  Holds(stdarr_construct(opts), << >>)
<1>1. NewBlock(0) \in Block(0) /\ NewBlock(0) \in Blocks
  BY Fresh, ABlock
<1> QED  BY <1>1 DEF Holds, ArrShape, ArrRec, stdarr_construct

LEMMA ArrAssigned ==
    ASSUME NEW x, NEW u, Holds(x, u), NEW y, NEW s, Holds(y, s),
           NEW r \in stdarr_set_eq(x, y), r.ret = "STDESUCCESS"
    PROVE  Holds(r.c, s)
<1> DEFINE n == Len(s)
           t == [i \in 1 .. n |-> IF i <= Len(u) THEN u[i] ELSE Junk]
<1>1. u \in Seq(Cell)
  BY HoldsParts
<1>2. n \in Nat /\ y.size = n /\ s \in Seq(Cell) /\ n <= y.cap /\ y.cap \in Nat /\ y.mem \in Block(y.cap)
  BY HoldsParts
<1>3. Cut(t, u, n)
  BY <1>1, <1>2, IsCut
<1> HIDE DEF t
<1>4. PICK q \in stdarr_resize(x, n) :
        r = IF q.ret = "STDESUCCESS" THEN [q EXCEPT !.c.mem = Copied(@, 0, y.mem, 0, n)] ELSE q
  BY <1>2 DEF stdarr_set_eq
<1>5. q.ret = "STDESUCCESS" => ArrShape(q.c) /\ q.c.size = n
  BY <1>2, <1>3, <1>4, ArrResized
<1>6. \E z, i, e : q = Result(z, i, e)
  BY DEF stdarr_resize, stdarr_low_insert_space, stdarr_low_remove_space
<1>7. PICK i, e : q = Result(q.c, i, e)
  BY <1>6 DEF Result
<1> DEFINE m == Copied(q.c.mem, 0, y.mem, 0, n)
<1>8. q.ret = "STDESUCCESS" /\ r.c = WithMem(q.c, m)
  <2>1. q.ret = "STDESUCCESS"
    BY <1>4
  <2> QED  BY <1>4, <1>7, <2>1 DEF Result, WithMem
<1>9. ArrShape(q.c) /\ q.c.size = n /\ q.c.mem \in Block(q.c.cap) /\ q.c.cap \in Nat /\ n <= q.c.cap
  BY <1>5, <1>8 DEF ArrShape, ArrRec
<1>10. m \in Block(q.c.cap) /\ \A j \in 0 .. n - 1 : m[j] = y.mem[j]
  <2>1. \A j \in 0 .. n - 1 : y.mem[j] \in Cell /\ 0 + j - 0 = j /\ j \in 0 .. q.c.cap - 1
    BY <1>2, <1>9, SMTT(30) DEF Block
  <2> QED  BY <1>2, <1>9, <2>1, SMTT(30) DEF Copied, Block
<1> HIDE DEF m
<1>11. ArrShape(r.c) /\ r.c.mem = m /\ r.c.size = n
  BY <1>8, <1>9, <1>10, Remembered
<1>12. \A j \in 1 .. n : s[j] # Junk => m[j - 1] = s[j]
  BY <1>2, <1>10 DEF Holds
<1> QED  BY <1>2, <1>11, <1>12 DEF Holds

LEMMA BatchOfCells ==
    ASSUME NEW v \in Batches
    PROVE  v \in Seq(Cell)
<1>1. \A a, b \in Cell : <<a>> \in Seq(Cell) /\ <<a, b>> \in Seq(Cell)
  OBVIOUS
<1>2. Val \subseteq Cell
  BY DEF Cell
<1>3. (\E a \in Val : v = <<a>>) \/ (\E a, b \in Val : v = <<a, b>>)
  BY DEF Batches
<1>4. ASSUME NEW a \in Val, v = <<a>>
      PROVE  v \in Seq(Cell)
  BY <1>1, <1>2, <1>4
<1>5. ASSUME NEW a \in Val, NEW b \in Val, v = <<a, b>>
      PROVE  v \in Seq(Cell)
  BY <1>1, <1>2, <1>5
<1> QED  BY <1>3, <1>4, <1>5

LEMMA Appended ==
    ASSUME NEW s \in Seq(Cell), NEW v \in Seq(Cell)
    PROVE  WithIn(s \o v, s, Len(s), v)
<1>1. Len(s) \in Nat /\ Len(v) \in Nat
  OBVIOUS
<1>2. /\ s \o v \in Seq(Cell) /\ Len(s \o v) = Len(s) + Len(v)
      /\ \A i \in 1 .. Len(s) + Len(v) : (s \o v)[i] = IF i <= Len(s) THEN s[i] ELSE v[i - Len(s)]
  BY ConcatProperties
<1> QED  BY <1>1, <1>2 DEF WithIn

LEMMA CutAtEnd ==
    ASSUME NEW s \in Seq(Cell), NEW n \in 0 .. Len(s), NEW t, Cut(t, s, Len(s) - n)
    PROVE  Without(t, s, Len(s) - n, n)
BY DEF Cut, Without

\* What is returned to the client, who is told of a failure.
LEMMA ArrReturned ==
    ASSUME NEW results, NEW wanted, \A r \in results : Gives(r, arrList, wanted), ArrReturns(results, wanted)
    PROVE  Holds(arr, arrList)'
<1>1. PICK r \in results :
        /\ arr' = ArrForget(r.c)
        /\ arrList' = IF r.ret = "STDESUCCESS" THEN wanted ELSE arrList
  BY DEF ArrReturns
<1>2. Holds(r.c, arrList')
  BY <1>1 DEF Gives
<1>3. Holds(ArrForget(r.c), arrList')
  BY <1>2, ArrForgotten
<1> QED  BY <1>1, <1>3

\* Every call keeps the elements in order.
LEMMA ArrStep ==
    ASSUME Holds(arr, arrList), ArrNext
    PROVE  Holds(arr, arrList)'
<1> DEFINE s == arrList
<1>1. s \in Seq(Cell) /\ Len(s) \in Nat /\ arr.size = Len(s) /\ Holds(arr, s) /\ arr.opts \in Opts
  BY HoldsParts
<1>2. CASE ArrInsert
  <2>1. PICK k \in 0 .. Len(s), v \in Batches : ArrReturns(stdarr_insert_n(arr, k, v), Inserted(arrList, k, v))
    BY <1>1, <1>2 DEF ArrInsert
  <2>2. v \in Seq(Cell) /\ WithIn(Inserted(arrList, k, v), s, k, v)
    BY <1>1, BatchOfCells, IsWithIn DEF Inserted
  <2>3. \A r \in stdarr_insert_n(arr, k, v) : Gives(r, arrList, Inserted(arrList, k, v))
    BY <2>2, ArrInserted
  <2> QED  BY <2>1, <2>3, ArrReturned
<1>3. CASE ArrPushBack
  <2>1. PICK v \in Batches : ArrReturns(stdarr_insert_n(arr, Len(s), v), arrList \o v)
    BY <1>1, <1>3 DEF ArrPushBack
  <2>2. v \in Seq(Cell) /\ WithIn(arrList \o v, s, Len(s), v) /\ Len(s) \in 0 .. Len(s)
    BY <1>1, BatchOfCells, Appended
  <2>3. \A r \in stdarr_insert_n(arr, Len(s), v) : Gives(r, arrList, arrList \o v)
    BY <2>2, ArrInserted
  <2> QED  BY <2>1, <2>3, ArrReturned
<1>4. CASE ArrPopBack
  <2>1. PICK n \in 0 .. Len(s) : ArrReturns(stdarr_low_remove_space(arr, Len(s) - n, n), Prefix(arrList, Len(s) - n))
    BY <1>1, <1>4 DEF ArrPopBack
  <2> DEFINE k == Len(s) - n
  <2>2. k \in Nat /\ n \in Nat /\ k + n <= Len(s)
    BY <1>1
  <2>3. Without(Prefix(arrList, k), s, k, n)
    <3>1. Cut(Prefix(arrList, k), s, k)
      BY <1>1, <2>2, IsCut DEF Prefix
    <3> QED  BY <1>1, <3>1, CutAtEnd
  <2> HIDE DEF k
  <2>4. \A r \in stdarr_low_remove_space(arr, k, n) : Gives(r, arrList, Prefix(arrList, k))
    BY <2>2, <2>3, ArrErased
  <2> QED  BY <2>1, <2>4, ArrReturned DEF k
<1>5. CASE ArrErase
  <2>1. PICK k \in 0 .. Len(s) : \E n \in 0 .. Len(s) - k : ArrReturns(stdarr_erase_n(arr, k, n), Erased(arrList, k, n))
    BY <1>1, <1>5 DEF ArrErase
  <2>2. PICK n \in 0 .. Len(s) - k : ArrReturns(stdarr_erase_n(arr, k, n), Erased(arrList, k, n))
    BY <2>1
  <2>3. k \in Nat /\ n \in Nat /\ k + n <= Len(s)
    BY <1>1
  <2>4. Without(Erased(arrList, k, n), s, k, n)
    BY <1>1, <2>3, IsWithout DEF Erased
  <2>5. \A r \in stdarr_erase_n(arr, k, n) : Gives(r, arrList, Erased(arrList, k, n))
    BY <2>3, <2>4, ArrErased DEF stdarr_erase_n
  <2> QED  BY <2>2, <2>5, ArrReturned
<1>6. CASE ArrResize
  <2>1. PICK n \in 0 .. ArrMaxSize : ArrReturns(stdarr_resize(arr, n), Prefix(arrList, n))
    BY <1>6 DEF ArrResize
  <2>2. n \in Nat /\ Cut(Prefix(arrList, n), s, n)
    BY <1>1, ArrAssumption, IsCut DEF Prefix
  <2>3. \A r \in stdarr_resize(arr, n) : Gives(r, arrList, Prefix(arrList, n))
    BY <2>2, ArrResized
  <2> QED  BY <2>1, <2>3, ArrReturned
<1>7. CASE ArrSetCapacity
  <2>1. PICK n \in 0 .. ArrMaxSize :
          ArrReturns(stdarr_set_capacity(arr, n), Prefix(arrList, Smaller(n, Len(arrList))))
    BY <1>7 DEF ArrSetCapacity
  <2> DEFINE t == Prefix(arrList, Smaller(n, Len(arrList)))
  <2>2. n \in Nat /\ Cut(t, s, Smaller(n, Len(s)))
    BY <1>1, ArrAssumption, Shorter, IsCut DEF Prefix
  <2> HIDE DEF t
  <2>3. \A r \in stdarr_set_capacity(arr, n) : Gives(r, arrList, t)
    BY <2>2, ArrRecap
  <2> QED  BY <2>1, <2>3, ArrReturned DEF t
<1>8. CASE ArrReserve
  <2>1. PICK n \in 0 .. ArrMaxSize : ArrReturns(stdarr_reserve(arr, n), arrList)
    BY <1>8 DEF ArrReserve
  <2>2. n \in Nat
    BY ArrAssumption
  <2>3. \A r \in stdarr_reserve(arr, n) : Gives(r, arrList, arrList)
    BY <2>2, ArrReserved
  <2> QED  BY <2>1, <2>3, ArrReturned
<1>9. CASE stdarr_set_opts
  <2>1. PICK opts \in Opts : arr' = [arr EXCEPT !.opts = opts] /\ arrList' = arrList
    BY <1>9 DEF stdarr_set_opts
  <2> QED  BY <2>1 DEF Holds, ArrShape, ArrRec
<1>10. CASE ArrCopy
  <2>1. CASE arr' = stdarr_copy_construct(arr) /\ arrList' = arrList
    BY <2>1, ArrForgotten
  <2>2. CASE \E n \in 0 .. ArrMaxSize :
               \E r \in stdarr_reserve(stdarr_construct(arr.opts), n) :
                 ArrReturns({q \in stdarr_set_eq(r.c, arr) : q.ret = "STDESUCCESS"}, arrList)
    <3>1. PICK n \in 0 .. ArrMaxSize :
               \E r \in stdarr_reserve(stdarr_construct(arr.opts), n) :
                 ArrReturns({q \in stdarr_set_eq(r.c, arr) : q.ret = "STDESUCCESS"}, arrList)
      BY <2>2
    <3>2. PICK r \in stdarr_reserve(stdarr_construct(arr.opts), n) :
                 ArrReturns({q \in stdarr_set_eq(r.c, arr) : q.ret = "STDESUCCESS"}, arrList)
      BY <3>1
    <3>3. n \in Nat /\ Holds(stdarr_construct(arr.opts), << >>)
      BY <1>1, ArrAssumption, ArrConstructed
    <3>4. Gives(r, << >>, << >>)
      BY <3>2, <3>3, ArrReserved
    <3>5. Holds(r.c, << >>)
      BY <3>4 DEF Gives
    <3>6. \A q \in {q \in stdarr_set_eq(r.c, arr) : q.ret = "STDESUCCESS"} : Gives(q, arrList, arrList)
      BY <1>1, <3>5, ArrAssigned DEF Gives
    <3> QED  BY <3>2, <3>6, ArrReturned
  <2> QED  BY <1>10, <2>1, <2>2 DEF ArrCopy
<1> QED  BY <1>2, <1>3, <1>4, <1>5, <1>6, <1>7, <1>8, <1>9, <1>10 DEF ArrNext

LEMMA ArrInitially == ArrInit => Holds(arr, arrList)
BY ArrConstructed DEF ArrInit

LEMMA ArrHolds == Holds(arr, arrList) => ArrRight
BY DEF Holds, ArrShape, ArrRec, Block, ArrRight

-----------------------------------------------------------------------------
(***************************************************************************)
(* The circular array: cells, and what its shifts move.                    *)
(***************************************************************************)
CarrRec == [mem : Blocks, begin : Nat, end : Nat, size : Nat, cap : Nat, opts : CarrOpts, sound : BOOLEAN]

\* The cell k places behind b in a block of C cells.
At(b, k, C) == IF b + k < C THEN b + k ELSE b + k - C

\* The cell k places before b.
Back(b, k, C) == IF b - k >= 0 THEN b - k ELSE b - k + C

CarrShape(c) ==
    /\ c \in CarrRec /\ c.sound /\ c.mem \in Block(c.cap)
    /\ (c.size < c.cap /\ c.begin < c.cap) \/ (c.size = 0 /\ c.cap = 0 /\ c.begin = 0)
    /\ c.end = At(c.begin, c.size, c.cap)

CarrHolds(c, s) ==
    /\ CarrShape(c) /\ s \in Seq(Cell) /\ c.size = Len(s)
    /\ \A k \in 0 .. Len(s) - 1 : s[k + 1] # Junk => c.mem[At(c.begin, k, c.cap)] = s[k + 1]

\* Of S elements from b those from the k-th on are n places further from nb.
Opens(new, old, nb, b, C, S, k, n) ==
    \A j \in 0 .. S - 1 : new[At(nb, IF j < k THEN j ELSE j + n, C)] = old[At(b, j, C)]

\* Of S elements from b the n from the k-th on are left out from nb.
Closes(new, old, nb, b, C, S, k, n) ==
    \A j \in 0 .. S - n - 1 : new[At(nb, j, C)] = old[At(b, IF j < k THEN j ELSE j + n, C)]

Placed(c, m, b, e, s) == [c EXCEPT !.mem = m, !.begin = b, !.end = e, !.size = s]

LEMMA CarrPlaced ==
    ASSUME NEW c, CarrShape(c), NEW m \in Block(c.cap), NEW b \in Nat, NEW s \in Nat, s < c.cap, b < c.cap,
           NEW e \in Nat, At(b, s, c.cap) = e
    PROVE  /\ CarrShape(Placed(c, m, b, e, s)) /\ Placed(c, m, b, e, s).mem = m
           /\ Placed(c, m, b, e, s).begin = b /\ Placed(c, m, b, e, s).size = s
           /\ Placed(c, m, b, e, s).cap = c.cap /\ Placed(c, m, b, e, s).opts = c.opts
<1>1. m \in Blocks /\ c \in CarrRec /\ c.cap \in Nat
  BY ABlock DEF CarrShape, CarrRec
<1> QED  BY <1>1 DEF CarrShape, CarrRec, Placed

\* One move, and one more after moves before it.
LEMMA Moved ==
    ASSUME NEW c \in CarrRec, NEW C \in Nat, NEW old \in Block(C),
           NEW d \in Nat, NEW p \in Nat, NEW n \in Nat, d + n <= C, p + n <= C
    PROVE  \E m \in Block(C) : /\ MemMove(WithMem(c, old), d, p, n) = WithMem(c, m)
                               /\ CellsMoved(m, old, C, d, p, n)
<1> DEFINE r == WithMem(c, old)
<1>1. r.mem = old
  BY DEF WithMem, CarrRec
<1> HIDE DEF r
<1>2. PICK m \in Block(C) :
        /\ MemMove(r, d, p, n) = WithMem(r, m)
        /\ CellsMoved(m, r.mem, C, d, p, n)
  <2>1. /\ d \in Int /\ p \in Int /\ r.mem \in Block(C)
        /\ (n = 0 \/ (0 <= d /\ d + n <= C /\ 0 <= p /\ p + n <= C))
    BY <1>1
  <2>2. \E m \in Block(C) :
          /\ MemMove(r, d, p, n) = WithMem(r, m)
          /\ CellsMoved(m, r.mem, C, d, p, n)
    BY <2>1, Moves
  <2> QED  BY <2>2
<1>3. WithMem(r, m) = WithMem(c, m)
  BY DEF r, WithMem, CarrRec
<1>4. CellsMoved(m, old, C, d, p, n)
  BY <1>1, <1>2 DEF CellsMoved
<1> QED  BY <1>2, <1>3, <1>4 DEF r

LEMMA MovedApart ==
    ASSUME NEW c \in CarrRec, NEW C \in Nat, NEW old \in Block(C),
           NEW d \in Nat, NEW p \in Nat, NEW n \in Nat, d + n <= C, p + n <= C,
           n = 0 \/ d + n <= p \/ p + n <= d
    PROVE  \E m \in Block(C) : /\ MemCpy(WithMem(c, old), d, p, n) = WithMem(c, m)
                               /\ CellsMoved(m, old, C, d, p, n)
<1>1. MemCpy(WithMem(c, old), d, p, n) = MemMove(WithMem(c, old), d, p, n)
  BY DEF MemCpy
<1> QED  BY <1>1, Moved

LEMMA InsertShiftedRight ==
    ASSUME NEW c, CarrShape(c), NEW k \in 0 .. c.size, NEW n \in Nat \ {0}, c.size + n < c.cap
    PROVE  \E m \in Block(c.cap) :
             /\ stdcarr_low_insert_shift_right(c, At(c.begin, k, c.cap), n)
                  = Placed(c, m, c.begin, At(c.end, n, c.cap), c.size + n)
             /\ Opens(m, c.mem, c.begin, c.begin, c.cap, c.size, k, n)
<1> DEFINE C == c.cap
           b == c.begin
           S == c.size
           e == c.end
           old == c.mem
           it == At(b, k, C)
           over == e + n - C
           tail == e - it
           lower == MemMove(c, n, 0, e)
           upper == C - it
           moved == IF b <= e
                    THEN IF over <= 0 THEN MemMove(c, it + n, it, tail)
                         ELSE IF tail <= over THEN MemCpy(c, over - tail, it, tail)
                         ELSE MemMove(MemCpy(c, 0, e - over, over), it + n, it, tail - over)
                    ELSE IF tail >= 0 THEN MemMove(c, it + n, it, tail)
                         ELSE IF upper <= n THEN MemCpy(lower, n - upper, it, upper)
                         ELSE MemMove(MemCpy(lower, 0, C - n, n), it + n, it, upper - n)
<1>1. /\ c \in CarrRec /\ old \in Block(C) /\ C \in Nat /\ b \in Nat /\ S \in Nat /\ k \in Nat /\ n \in Nat
      /\ n > 0 /\ S + n < C /\ b < C /\ k <= S /\ e = At(b, S, C) /\ c = WithMem(c, old)
  BY DEF CarrShape, CarrRec, WithMem
<1>2. stdcarr_low_insert_shift_right(c, it, n) = [moved EXCEPT !.size = @ + n, !.end = At(@, n, c.cap)]
  BY DEF stdcarr_low_insert_shift_right, stdcarr_low_forward, stdcarr_low_backward, At, Back
<1>3. ASSUME NEW m \in Block(C), moved = WithMem(c, m)
      PROVE  [moved EXCEPT !.size = @ + n, !.end = At(@, n, c.cap)] = Placed(c, m, b, At(e, n, C), S + n)
  <2> HIDE DEF moved
  <2> QED  BY <1>1, <1>3 DEF WithMem, CarrRec, Placed
<1> HIDE DEF C, b, S, e, old
<1>4. \E m \in Block(C) : moved = WithMem(c, m) /\ Opens(m, old, b, b, C, S, k, n)
  <2>1. CASE b <= e /\ over <= 0
    <3>1. it = b + k /\ tail = S - k
      BY <1>1, <2>1 DEF At
    <3>2. /\ it + n \in Nat /\ it \in Nat /\ tail \in Nat /\ it + n + tail <= C /\ it + tail <= C
      BY <1>1, <2>1, <3>1 DEF At
    <3>3. PICK m \in Block(C) : /\ MemMove(WithMem(c, old), it + n, it, tail) = WithMem(c, m)
                                /\ CellsMoved(m, old, C, it + n, it, tail)
      BY <1>1, <3>2, Moved
    <3>4. Opens(m, old, b, b, C, S, k, n)
      BY <1>1, <2>1, <3>1, <3>3 DEF Opens, CellsMoved, At
    <3> QED  BY <1>1, <2>1, <3>3, <3>4
  <2>2. CASE b <= e /\ ~ (over <= 0) /\ tail <= over
    <3>1. it = b + k /\ tail = S - k
      BY <1>1, <2>2 DEF At
    <3>2. /\ over - tail \in Nat /\ it \in Nat /\ tail \in Nat /\ over - tail + tail <= C /\ it + tail <= C
          /\ tail = 0 \/ over - tail + tail <= it \/ it + tail <= over - tail
      BY <1>1, <2>2, <3>1 DEF At
    <3>3. PICK m \in Block(C) : /\ MemCpy(WithMem(c, old), over - tail, it, tail) = WithMem(c, m)
                                /\ CellsMoved(m, old, C, over - tail, it, tail)
      BY <1>1, <3>2, MovedApart
    <3>4. Opens(m, old, b, b, C, S, k, n)
      BY <1>1, <2>2, <3>1, <3>3 DEF Opens, CellsMoved, At
    <3> QED  BY <1>1, <2>2, <3>3, <3>4
  <2>3. CASE b <= e /\ ~ (over <= 0) /\ ~ (tail <= over)
    <3>1. it = b + k /\ tail = S - k
      BY <1>1, <2>3 DEF At
    <3>2. /\ e - over \in Nat /\ over \in Nat /\ over <= C /\ e - over + over <= C
          /\ over = 0 \/ over <= e - over \/ e - over + over <= 0
      BY <1>1, <2>3, <3>1 DEF At
    <3>3. PICK m1 \in Block(C) : /\ MemCpy(WithMem(c, old), 0, e - over, over) = WithMem(c, m1)
                                 /\ CellsMoved(m1, old, C, 0, e - over, over)
      BY <1>1, <3>2, MovedApart
    <3>4. /\ it + n \in Nat /\ it \in Nat /\ tail - over \in Nat /\ it + n + (tail - over) <= C /\ it + (tail - over) <= C
      BY <1>1, <2>3, <3>1 DEF At
    <3>5. PICK m \in Block(C) : /\ MemMove(WithMem(c, m1), it + n, it, tail - over) = WithMem(c, m)
                                /\ CellsMoved(m, m1, C, it + n, it, tail - over)
      BY <1>1, <3>4, Moved
    <3>6. Opens(m, old, b, b, C, S, k, n)
      BY <1>1, <2>3, <3>1, <3>3, <3>5 DEF Opens, CellsMoved, At
    <3> QED  BY <1>1, <2>3, <3>3, <3>5, <3>6
  <2>4. CASE ~ (b <= e) /\ tail >= 0
    <3>1. it = b + k - C /\ e = b + S - C
      BY <1>1, <2>4 DEF At
    <3>2. /\ it + n \in Nat /\ it \in Nat /\ tail \in Nat /\ it + n + tail <= C /\ it + tail <= C
      BY <1>1, <2>4, <3>1 DEF At
    <3>3. PICK m \in Block(C) : /\ MemMove(WithMem(c, old), it + n, it, tail) = WithMem(c, m)
                                /\ CellsMoved(m, old, C, it + n, it, tail)
      BY <1>1, <3>2, Moved
    <3>4. Opens(m, old, b, b, C, S, k, n)
      BY <1>1, <2>4, <3>1, <3>3 DEF Opens, CellsMoved, At
    <3> QED  BY <1>1, <2>4, <3>3, <3>4
  <2>5. CASE ~ (b <= e) /\ ~ (tail >= 0) /\ upper <= n
    <3>1. it = b + k /\ e = b + S - C
      BY <1>1, <2>5 DEF At
    <3>2. /\ n \in Nat /\ e \in Nat /\ n + e <= C /\ e <= C
      BY <1>1, <2>5, <3>1 DEF At
    <3>3. PICK m1 \in Block(C) : /\ MemMove(WithMem(c, old), n, 0, e) = WithMem(c, m1)
                                 /\ CellsMoved(m1, old, C, n, 0, e)
      BY <1>1, <3>2, Moved
    <3>4. /\ n - upper \in Nat /\ it \in Nat /\ upper \in Nat /\ n - upper + upper <= C /\ it + upper <= C
          /\ upper = 0 \/ n - upper + upper <= it \/ it + upper <= n - upper
      BY <1>1, <2>5, <3>1 DEF At
    <3>5. PICK m \in Block(C) : /\ MemCpy(WithMem(c, m1), n - upper, it, upper) = WithMem(c, m)
                                /\ CellsMoved(m, m1, C, n - upper, it, upper)
      BY <1>1, <3>4, MovedApart
    <3>6. Opens(m, old, b, b, C, S, k, n)
      BY <1>1, <2>5, <3>1, <3>3, <3>5 DEF Opens, CellsMoved, At
    <3> QED  BY <1>1, <2>5, <3>3, <3>5, <3>6
  <2>6. CASE ~ (b <= e) /\ ~ (tail >= 0) /\ ~ (upper <= n)
    <3>1. it = b + k /\ e = b + S - C
      BY <1>1, <2>6 DEF At
    <3>2. /\ n \in Nat /\ e \in Nat /\ n + e <= C /\ e <= C
      BY <1>1, <2>6, <3>1 DEF At
    <3>3. PICK m1 \in Block(C) : /\ MemMove(WithMem(c, old), n, 0, e) = WithMem(c, m1)
                                 /\ CellsMoved(m1, old, C, n, 0, e)
      BY <1>1, <3>2, Moved
    <3>4. /\ C - n \in Nat /\ n \in Nat /\ n <= C /\ C - n + n <= C
          /\ n = 0 \/ n <= C - n \/ C - n + n <= 0
      BY <1>1, <2>6, <3>1 DEF At
    <3>5. PICK m2 \in Block(C) : /\ MemCpy(WithMem(c, m1), 0, C - n, n) = WithMem(c, m2)
                                 /\ CellsMoved(m2, m1, C, 0, C - n, n)
      BY <1>1, <3>4, MovedApart
    <3>6. /\ it + n \in Nat /\ it \in Nat /\ upper - n \in Nat /\ it + n + (upper - n) <= C /\ it + (upper - n) <= C
      BY <1>1, <2>6, <3>1 DEF At
    <3>7. PICK m \in Block(C) : /\ MemMove(WithMem(c, m2), it + n, it, upper - n) = WithMem(c, m)
                                /\ CellsMoved(m, m2, C, it + n, it, upper - n)
      BY <1>1, <3>6, Moved
    <3>8. Opens(m, old, b, b, C, S, k, n)
      BY <1>1, <2>6, <3>1, <3>3, <3>5, <3>7 DEF Opens, CellsMoved, At
    <3> QED  BY <1>1, <2>6, <3>3, <3>5, <3>7, <3>8
  <2> QED  BY <2>1, <2>2, <2>3, <2>4, <2>5, <2>6
<1> QED  BY <1>2, <1>3, <1>4 DEF C, b, S, e, old

LEMMA InsertShiftedLeft ==
    ASSUME NEW c, CarrShape(c), NEW k \in 0 .. c.size, NEW n \in Nat \ {0}, c.size + n < c.cap
    PROVE  \E m \in Block(c.cap) :
             /\ stdcarr_low_insert_shift_left(c, At(c.begin, k, c.cap), n)
                  = Placed(c, m, Back(c.begin, n, c.cap), c.end, c.size + n)
             /\ Opens(m, c.mem, Back(c.begin, n, c.cap), c.begin, c.cap, c.size, k, n)
<1> DEFINE C == c.cap
           b == c.begin
           S == c.size
           e == c.end
           old == c.mem
           it == At(b, k, C)
           under == n - b
           head == it - b
           upper == MemMove(c, b - n, b, C - b)
           moved == IF b <= e
                    THEN IF under <= 0 THEN MemMove(c, b - n, b, head)
                         ELSE IF head <= under THEN MemCpy(c, C - under, b, head)
                         ELSE MemMove(MemCpy(c, C - under, b, under), 0, b + under, head - under)
                    ELSE IF it >= b THEN MemMove(c, b - n, b, head)
                         ELSE IF it <= n THEN MemCpy(upper, C - n, 0, it)
                         ELSE MemMove(MemCpy(upper, C - n, 0, n), 0, n, it - n)
<1>1. /\ c \in CarrRec /\ old \in Block(C) /\ C \in Nat /\ b \in Nat /\ S \in Nat /\ k \in Nat /\ n \in Nat
      /\ n > 0 /\ S + n < C /\ b < C /\ k <= S /\ e = At(b, S, C) /\ c = WithMem(c, old)
  BY DEF CarrShape, CarrRec, WithMem
<1>2. stdcarr_low_insert_shift_left(c, it, n) = [moved EXCEPT !.size = @ + n, !.begin = Back(@, n, c.cap)]
  BY DEF stdcarr_low_insert_shift_left, stdcarr_low_forward, stdcarr_low_backward, At, Back
<1>3. ASSUME NEW m \in Block(C), moved = WithMem(c, m)
      PROVE  [moved EXCEPT !.size = @ + n, !.begin = Back(@, n, c.cap)] = Placed(c, m, Back(b, n, C), e, S + n)
  <2> HIDE DEF moved
  <2> QED  BY <1>1, <1>3 DEF WithMem, CarrRec, Placed
<1> HIDE DEF C, b, S, e, old
<1>4. \E m \in Block(C) : moved = WithMem(c, m) /\ Opens(m, old, Back(b, n, C), b, C, S, k, n)
  <2>1. CASE b <= e /\ under <= 0
    <3>1. it = b + k /\ head = k /\ e = b + S
      BY <1>1, <2>1 DEF At
    <3>2. /\ b - n \in Nat /\ b \in Nat /\ head \in Nat /\ b - n + head <= C /\ b + head <= C
      BY <1>1, <2>1, <3>1 DEF At
    <3>3. PICK m \in Block(C) : /\ MemMove(WithMem(c, old), b - n, b, head) = WithMem(c, m)
                                /\ CellsMoved(m, old, C, b - n, b, head)
      BY <1>1, <3>2, Moved
    <3>4. Opens(m, old, Back(b, n, C), b, C, S, k, n)
      BY <1>1, <2>1, <3>1, <3>3 DEF Opens, Back, CellsMoved, At
    <3> QED  BY <1>1, <2>1, <3>3, <3>4
  <2>2. CASE b <= e /\ ~ (under <= 0) /\ head <= under
    <3>1. it = b + k /\ head = k /\ e = b + S
      BY <1>1, <2>2 DEF At
    <3>2. /\ C - under \in Nat /\ b \in Nat /\ head \in Nat /\ C - under + head <= C /\ b + head <= C
          /\ head = 0 \/ C - under + head <= b \/ b + head <= C - under
      BY <1>1, <2>2, <3>1 DEF At
    <3>3. PICK m \in Block(C) : /\ MemCpy(WithMem(c, old), C - under, b, head) = WithMem(c, m)
                                /\ CellsMoved(m, old, C, C - under, b, head)
      BY <1>1, <3>2, MovedApart
    <3>4. Opens(m, old, Back(b, n, C), b, C, S, k, n)
      BY <1>1, <2>2, <3>1, <3>3 DEF Opens, Back, CellsMoved, At
    <3> QED  BY <1>1, <2>2, <3>3, <3>4
  <2>3. CASE b <= e /\ ~ (under <= 0) /\ ~ (head <= under)
    <3>1. it = b + k /\ head = k /\ e = b + S
      BY <1>1, <2>3 DEF At
    <3>2. /\ C - under \in Nat /\ b \in Nat /\ under \in Nat /\ C - under + under <= C /\ b + under <= C
          /\ under = 0 \/ C - under + under <= b \/ b + under <= C - under
      BY <1>1, <2>3, <3>1 DEF At
    <3>3. PICK m1 \in Block(C) : /\ MemCpy(WithMem(c, old), C - under, b, under) = WithMem(c, m1)
                                 /\ CellsMoved(m1, old, C, C - under, b, under)
      BY <1>1, <3>2, MovedApart
    <3>4. /\ b + under \in Nat /\ head - under \in Nat /\ head - under <= C /\ b + under + (head - under) <= C
      BY <1>1, <2>3, <3>1 DEF At
    <3>5. PICK m \in Block(C) : /\ MemMove(WithMem(c, m1), 0, b + under, head - under) = WithMem(c, m)
                                /\ CellsMoved(m, m1, C, 0, b + under, head - under)
      BY <1>1, <3>4, Moved
    <3>6. Opens(m, old, Back(b, n, C), b, C, S, k, n)
      BY <1>1, <2>3, <3>1, <3>3, <3>5 DEF Opens, Back, CellsMoved, At
    <3> QED  BY <1>1, <2>3, <3>3, <3>5, <3>6
  <2>4. CASE ~ (b <= e) /\ it >= b
    <3>1. it = b + k /\ e = b + S - C
      BY <1>1, <2>4 DEF At
    <3>2. /\ b - n \in Nat /\ b \in Nat /\ head \in Nat /\ b - n + head <= C /\ b + head <= C
      BY <1>1, <2>4, <3>1 DEF At
    <3>3. PICK m \in Block(C) : /\ MemMove(WithMem(c, old), b - n, b, head) = WithMem(c, m)
                                /\ CellsMoved(m, old, C, b - n, b, head)
      BY <1>1, <3>2, Moved
    <3>4. Opens(m, old, Back(b, n, C), b, C, S, k, n)
      BY <1>1, <2>4, <3>1, <3>3 DEF Opens, Back, CellsMoved, At
    <3> QED  BY <1>1, <2>4, <3>3, <3>4
  <2>5. CASE ~ (b <= e) /\ ~ (it >= b) /\ it <= n
    <3>1. it = b + k - C /\ e = b + S - C
      BY <1>1, <2>5 DEF At
    <3>2. /\ b - n \in Nat /\ b \in Nat /\ C - b \in Nat /\ b - n + (C - b) <= C /\ b + (C - b) <= C
      BY <1>1, <2>5, <3>1 DEF At
    <3>3. PICK m1 \in Block(C) : /\ MemMove(WithMem(c, old), b - n, b, C - b) = WithMem(c, m1)
                                 /\ CellsMoved(m1, old, C, b - n, b, C - b)
      BY <1>1, <3>2, Moved
    <3>4. /\ C - n \in Nat /\ it \in Nat /\ C - n + it <= C /\ it <= C
          /\ it = 0 \/ C - n + it <= 0 \/ it <= C - n
      BY <1>1, <2>5, <3>1 DEF At
    <3>5. PICK m \in Block(C) : /\ MemCpy(WithMem(c, m1), C - n, 0, it) = WithMem(c, m)
                                /\ CellsMoved(m, m1, C, C - n, 0, it)
      BY <1>1, <3>4, MovedApart, SMTT(60)
    <3>6. Opens(m, old, Back(b, n, C), b, C, S, k, n)
      BY <1>1, <2>5, <3>1, <3>3, <3>5 DEF Opens, Back, CellsMoved, At
    <3> QED  BY <1>1, <2>5, <3>3, <3>5, <3>6
  <2>6. CASE ~ (b <= e) /\ ~ (it >= b) /\ ~ (it <= n)
    <3>1. it = b + k - C /\ e = b + S - C
      BY <1>1, <2>6 DEF At
    <3>2. /\ b - n \in Nat /\ b \in Nat /\ C - b \in Nat /\ b - n + (C - b) <= C /\ b + (C - b) <= C
      BY <1>1, <2>6, <3>1 DEF At
    <3>3. PICK m1 \in Block(C) : /\ MemMove(WithMem(c, old), b - n, b, C - b) = WithMem(c, m1)
                                 /\ CellsMoved(m1, old, C, b - n, b, C - b)
      BY <1>1, <3>2, Moved
    <3>4. /\ C - n \in Nat /\ n \in Nat /\ C - n + n <= C /\ n <= C
          /\ n = 0 \/ C - n + n <= 0 \/ n <= C - n
      BY <1>1, <2>6, <3>1 DEF At
    <3>5. PICK m2 \in Block(C) : /\ MemCpy(WithMem(c, m1), C - n, 0, n) = WithMem(c, m2)
                                 /\ CellsMoved(m2, m1, C, C - n, 0, n)
      BY <1>1, <3>4, MovedApart
    <3>6. /\ n \in Nat /\ it - n \in Nat /\ it - n <= C /\ n + (it - n) <= C
      BY <1>1, <2>6, <3>1 DEF At
    <3>7. PICK m \in Block(C) : /\ MemMove(WithMem(c, m2), 0, n, it - n) = WithMem(c, m)
                                /\ CellsMoved(m, m2, C, 0, n, it - n)
      BY <1>1, <3>6, Moved
    <3>8. Opens(m, old, Back(b, n, C), b, C, S, k, n)
      BY <1>1, <2>6, <3>1, <3>3, <3>5, <3>7 DEF Opens, Back, CellsMoved, At
    <3> QED  BY <1>1, <2>6, <3>3, <3>5, <3>7, <3>8
  <2> QED  BY <2>1, <2>2, <2>3, <2>4, <2>5, <2>6
<1> QED  BY <1>2, <1>3, <1>4 DEF C, b, S, e, old

LEMMA EraseShiftedLeft ==
    ASSUME NEW c, CarrShape(c), NEW k \in Nat, NEW n \in Nat \ {0}, k + n <= c.size
    PROVE  \E m \in Block(c.cap) :
             /\ stdcarr_low_erase_shift_left(c, At(c.begin, k + n, c.cap), n)
                  = Placed(c, m, c.begin, Back(c.end, n, c.cap), c.size - n)
             /\ Closes(m, c.mem, c.begin, c.begin, c.cap, c.size, k, n)
<1> DEFINE C == c.cap
           b == c.begin
           S == c.size
           e == c.end
           old == c.mem
           eend == At(b, k + n, C)
           ebegin == eend - n
           tail == e - eend
           back == 0 - ebegin
           upper == MemMove(c, ebegin, eend, C - eend)
           moved == IF tail >= 0
                    THEN IF back <= 0 THEN MemMove(c, ebegin, eend, tail)
                         ELSE IF tail <= back THEN MemCpy(c, C - back, eend, tail)
                         ELSE MemMove(MemCpy(c, C - back, eend, back), 0, eend + back, tail - back)
                    ELSE IF e <= n THEN MemCpy(upper, C - n, 0, e)
                         ELSE MemMove(MemCpy(upper, C - n, 0, n), 0, n, e - n)
<1>1. /\ c \in CarrRec /\ old \in Block(C) /\ C \in Nat /\ b \in Nat /\ S \in Nat /\ k \in Nat /\ n \in Nat
      /\ n > 0 /\ S < C /\ b < C /\ k + n <= S /\ e = At(b, S, C) /\ c = WithMem(c, old)
  BY DEF CarrShape, CarrRec, WithMem
<1>2. stdcarr_low_erase_shift_left(c, eend, n) = [moved EXCEPT !.size = @ - n, !.end = Back(@, n, c.cap)]
  BY DEF stdcarr_low_erase_shift_left, stdcarr_low_forward, stdcarr_low_backward, At, Back
<1>3. ASSUME NEW m \in Block(C), moved = WithMem(c, m)
      PROVE  [moved EXCEPT !.size = @ - n, !.end = Back(@, n, c.cap)] = Placed(c, m, b, Back(e, n, C), S - n)
  <2> HIDE DEF moved
  <2> QED  BY <1>1, <1>3 DEF WithMem, CarrRec, Placed
<1> HIDE DEF C, b, S, e, old
<1>4. \E m \in Block(C) : moved = WithMem(c, m) /\ Closes(m, old, b, b, C, S, k, n)
  <2>1. CASE tail >= 0 /\ back <= 0
    <3>1. eend = k + n + b \/ eend = k + n + b - C
      BY <1>1, <2>1 DEF At
    <3>2. /\ ebegin \in Nat /\ eend \in Nat /\ tail \in Nat /\ ebegin + tail <= C /\ eend + tail <= C
      BY <1>1, <2>1, <3>1 DEF At
    <3>3. PICK m \in Block(C) : /\ MemMove(WithMem(c, old), ebegin, eend, tail) = WithMem(c, m)
                                /\ CellsMoved(m, old, C, ebegin, eend, tail)
      BY <1>1, <3>2, Moved
    <3>4. Closes(m, old, b, b, C, S, k, n)
      BY <1>1, <2>1, <3>1, <3>3 DEF Closes, CellsMoved, At
    <3> QED  BY <1>1, <2>1, <3>3, <3>4
  <2>2. CASE tail >= 0 /\ ~ (back <= 0) /\ tail <= back
    <3>1. eend = k + n + b - C /\ e = b + S - C
      BY <1>1, <2>2 DEF At
    <3>2. /\ C - back \in Nat /\ eend \in Nat /\ tail \in Nat /\ C - back + tail <= C /\ eend + tail <= C
          /\ tail = 0 \/ C - back + tail <= eend \/ eend + tail <= C - back
      BY <1>1, <2>2, <3>1 DEF At
    <3>3. PICK m \in Block(C) : /\ MemCpy(WithMem(c, old), C - back, eend, tail) = WithMem(c, m)
                                /\ CellsMoved(m, old, C, C - back, eend, tail)
      BY <1>1, <3>2, MovedApart
    <3>4. Closes(m, old, b, b, C, S, k, n)
      BY <1>1, <2>2, <3>1, <3>3 DEF Closes, CellsMoved, At
    <3> QED  BY <1>1, <2>2, <3>3, <3>4
  <2>3. CASE tail >= 0 /\ ~ (back <= 0) /\ ~ (tail <= back)
    <3>1. eend = k + n + b - C /\ e = b + S - C
      BY <1>1, <2>3 DEF At
    <3>2. /\ C - back \in Nat /\ eend \in Nat /\ back \in Nat /\ C - back + back <= C /\ eend + back <= C
          /\ back = 0 \/ C - back + back <= eend \/ eend + back <= C - back
      BY <1>1, <2>3, <3>1 DEF At
    <3>3. PICK m1 \in Block(C) : /\ MemCpy(WithMem(c, old), C - back, eend, back) = WithMem(c, m1)
                                 /\ CellsMoved(m1, old, C, C - back, eend, back)
      BY <1>1, <3>2, MovedApart
    <3>4. /\ eend + back \in Nat /\ tail - back \in Nat /\ tail - back <= C /\ eend + back + (tail - back) <= C
      BY <1>1, <2>3, <3>1 DEF At
    <3>5. PICK m \in Block(C) : /\ MemMove(WithMem(c, m1), 0, eend + back, tail - back) = WithMem(c, m)
                                /\ CellsMoved(m, m1, C, 0, eend + back, tail - back)
      BY <1>1, <3>4, Moved
    <3>6. Closes(m, old, b, b, C, S, k, n)
      BY <1>1, <2>3, <3>1, <3>3, <3>5 DEF Closes, CellsMoved, At
    <3> QED  BY <1>1, <2>3, <3>3, <3>5, <3>6
  <2>4. CASE ~ (tail >= 0) /\ e <= n
    <3>1. eend = k + n + b /\ e = b + S - C
      BY <1>1, <2>4 DEF At
    <3>2. /\ ebegin \in Nat /\ eend \in Nat /\ C - eend \in Nat /\ ebegin + (C - eend) <= C /\ eend + (C - eend) <= C
      BY <1>1, <2>4, <3>1 DEF At
    <3>3. PICK m1 \in Block(C) : /\ MemMove(WithMem(c, old), ebegin, eend, C - eend) = WithMem(c, m1)
                                 /\ CellsMoved(m1, old, C, ebegin, eend, C - eend)
      BY <1>1, <3>2, Moved
    <3>4. /\ C - n \in Nat /\ e \in Nat /\ C - n + e <= C /\ e <= C
          /\ e = 0 \/ C - n + e <= 0 \/ e <= C - n
      BY <1>1, <2>4, <3>1 DEF At
    <3>5. PICK m \in Block(C) : /\ MemCpy(WithMem(c, m1), C - n, 0, e) = WithMem(c, m)
                                /\ CellsMoved(m, m1, C, C - n, 0, e)
      BY <1>1, <3>4, MovedApart, SMTT(60)
    <3>6. Closes(m, old, b, b, C, S, k, n)
      BY <1>1, <2>4, <3>1, <3>3, <3>5 DEF Closes, CellsMoved, At
    <3> QED  BY <1>1, <2>4, <3>3, <3>5, <3>6
  <2>5. CASE ~ (tail >= 0) /\ ~ (e <= n)
    <3>1. eend = k + n + b /\ e = b + S - C
      BY <1>1, <2>5 DEF At
    <3>2. /\ ebegin \in Nat /\ eend \in Nat /\ C - eend \in Nat /\ ebegin + (C - eend) <= C /\ eend + (C - eend) <= C
      BY <1>1, <2>5, <3>1 DEF At
    <3>3. PICK m1 \in Block(C) : /\ MemMove(WithMem(c, old), ebegin, eend, C - eend) = WithMem(c, m1)
                                 /\ CellsMoved(m1, old, C, ebegin, eend, C - eend)
      BY <1>1, <3>2, Moved
    <3>4. /\ C - n \in Nat /\ n \in Nat /\ C - n + n <= C /\ n <= C
          /\ n = 0 \/ C - n + n <= 0 \/ n <= C - n
      BY <1>1, <2>5, <3>1 DEF At
    <3>5. PICK m2 \in Block(C) : /\ MemCpy(WithMem(c, m1), C - n, 0, n) = WithMem(c, m2)
                                 /\ CellsMoved(m2, m1, C, C - n, 0, n)
      BY <1>1, <3>4, MovedApart
    <3>6. /\ n \in Nat /\ e - n \in Nat /\ e - n <= C /\ n + (e - n) <= C
      BY <1>1, <2>5, <3>1 DEF At
    <3>7. PICK m \in Block(C) : /\ MemMove(WithMem(c, m2), 0, n, e - n) = WithMem(c, m)
                                /\ CellsMoved(m, m2, C, 0, n, e - n)
      BY <1>1, <3>6, Moved
    <3>8. Closes(m, old, b, b, C, S, k, n)
      BY <1>1, <2>5, <3>1, <3>3, <3>5, <3>7 DEF Closes, CellsMoved, At
    <3> QED  BY <1>1, <2>5, <3>3, <3>5, <3>7, <3>8
  <2> QED  BY <2>1, <2>2, <2>3, <2>4, <2>5
<1> QED  BY <1>2, <1>3, <1>4 DEF C, b, S, e, old

LEMMA EraseShiftedRight ==
    ASSUME NEW c, CarrShape(c), NEW k \in Nat, NEW n \in Nat \ {0}, k + n <= c.size
    PROVE  \E m \in Block(c.cap) :
             /\ stdcarr_low_erase_shift_right(c, At(c.begin, k, c.cap), n)
                  = Placed(c, m, At(c.begin, n, c.cap), c.end, c.size - n)
             /\ Closes(m, c.mem, At(c.begin, n, c.cap), c.begin, c.cap, c.size, k, n)
<1> DEFINE C == c.cap
           b == c.begin
           S == c.size
           e == c.end
           old == c.mem
           it == At(b, k, C)
           eend == it + n
           head == it - b
           front == eend - C
           lower == MemMove(c, n, 0, it)
           upper == C - b
           moved == IF head >= 0
                    THEN IF front <= 0 THEN MemMove(c, b + n, b, head)
                         ELSE IF front >= head THEN MemCpy(c, front - head, b, head)
                         ELSE MemMove(MemCpy(c, 0, it - front, front), b + n, b, head - front)
                    ELSE IF upper <= n THEN MemCpy(lower, n - upper, b, upper)
                         ELSE MemMove(MemCpy(lower, 0, C - n, n), b + n, b, upper - n)
<1>1. /\ c \in CarrRec /\ old \in Block(C) /\ C \in Nat /\ b \in Nat /\ S \in Nat /\ k \in Nat /\ n \in Nat
      /\ n > 0 /\ S < C /\ b < C /\ k + n <= S /\ e = At(b, S, C) /\ c = WithMem(c, old)
  BY DEF CarrShape, CarrRec, WithMem
<1>2. stdcarr_low_erase_shift_right(c, it, n) = [moved EXCEPT !.size = @ - n, !.begin = At(@, n, c.cap)]
  BY DEF stdcarr_low_erase_shift_right, stdcarr_low_forward, stdcarr_low_backward, At, Back
<1>3. ASSUME NEW m \in Block(C), moved = WithMem(c, m)
      PROVE  [moved EXCEPT !.size = @ - n, !.begin = At(@, n, c.cap)] = Placed(c, m, At(b, n, C), e, S - n)
  <2> HIDE DEF moved
  <2> QED  BY <1>1, <1>3 DEF WithMem, CarrRec, Placed
<1> HIDE DEF C, b, S, e, old
<1>4. \E m \in Block(C) : moved = WithMem(c, m) /\ Closes(m, old, At(b, n, C), b, C, S, k, n)
  <2>1. CASE head >= 0 /\ front <= 0
    <3>1. it = b + k /\ head = k
      BY <1>1, <2>1 DEF At
    <3>2. /\ b + n \in Nat /\ b \in Nat /\ head \in Nat /\ b + n + head <= C /\ b + head <= C
      BY <1>1, <2>1, <3>1 DEF At
    <3>3. PICK m \in Block(C) : /\ MemMove(WithMem(c, old), b + n, b, head) = WithMem(c, m)
                                /\ CellsMoved(m, old, C, b + n, b, head)
      BY <1>1, <3>2, Moved
    <3>4. Closes(m, old, At(b, n, C), b, C, S, k, n)
      BY <1>1, <2>1, <3>1, <3>3 DEF Closes, CellsMoved, At
    <3> QED  BY <1>1, <2>1, <3>3, <3>4
  <2>2. CASE head >= 0 /\ ~ (front <= 0) /\ front >= head
    <3>1. it = b + k /\ head = k /\ e = b + S - C
      BY <1>1, <2>2 DEF At
    <3>2. /\ front - head \in Nat /\ b \in Nat /\ head \in Nat /\ front - head + head <= C /\ b + head <= C
          /\ head = 0 \/ front - head + head <= b \/ b + head <= front - head
      BY <1>1, <2>2, <3>1 DEF At
    <3>3. PICK m \in Block(C) : /\ MemCpy(WithMem(c, old), front - head, b, head) = WithMem(c, m)
                                /\ CellsMoved(m, old, C, front - head, b, head)
      BY <1>1, <3>2, MovedApart
    <3>4. Closes(m, old, At(b, n, C), b, C, S, k, n)
      BY <1>1, <2>2, <3>1, <3>3 DEF Closes, CellsMoved, At
    <3> QED  BY <1>1, <2>2, <3>3, <3>4
  <2>3. CASE head >= 0 /\ ~ (front <= 0) /\ ~ (front >= head)
    <3>1. it = b + k /\ head = k /\ e = b + S - C
      BY <1>1, <2>3 DEF At
    <3>2. /\ it - front \in Nat /\ front \in Nat /\ front <= C /\ it - front + front <= C
          /\ front = 0 \/ front <= it - front \/ it - front + front <= 0
      BY <1>1, <2>3, <3>1 DEF At
    <3>3. PICK m1 \in Block(C) : /\ MemCpy(WithMem(c, old), 0, it - front, front) = WithMem(c, m1)
                                 /\ CellsMoved(m1, old, C, 0, it - front, front)
      BY <1>1, <3>2, MovedApart, SMTT(30)
    <3>4. /\ b + n \in Nat /\ b \in Nat /\ head - front \in Nat /\ b + n + (head - front) <= C /\ b + (head - front) <= C
      BY <1>1, <2>3, <3>1 DEF At
    <3>5. PICK m \in Block(C) : /\ MemMove(WithMem(c, m1), b + n, b, head - front) = WithMem(c, m)
                                /\ CellsMoved(m, m1, C, b + n, b, head - front)
      BY <1>1, <3>4, Moved
    <3>6. Closes(m, old, At(b, n, C), b, C, S, k, n)
      BY <1>1, <2>3, <3>1, <3>3, <3>5 DEF Closes, CellsMoved, At
    <3> QED  BY <1>1, <2>3, <3>3, <3>5, <3>6
  <2>4. CASE ~ (head >= 0) /\ upper <= n
    <3>1. it = b + k - C /\ e = b + S - C
      BY <1>1, <2>4 DEF At
    <3>2. /\ n \in Nat /\ it \in Nat /\ n + it <= C /\ it <= C
      BY <1>1, <2>4, <3>1 DEF At
    <3>3. PICK m1 \in Block(C) : /\ MemMove(WithMem(c, old), n, 0, it) = WithMem(c, m1)
                                 /\ CellsMoved(m1, old, C, n, 0, it)
      BY <1>1, <3>2, Moved
    <3>4. /\ n - upper \in Nat /\ b \in Nat /\ upper \in Nat /\ n - upper + upper <= C /\ b + upper <= C
          /\ upper = 0 \/ n - upper + upper <= b \/ b + upper <= n - upper
      BY <1>1, <2>4, <3>1 DEF At
    <3>5. PICK m \in Block(C) : /\ MemCpy(WithMem(c, m1), n - upper, b, upper) = WithMem(c, m)
                                /\ CellsMoved(m, m1, C, n - upper, b, upper)
      BY <1>1, <3>4, MovedApart
    <3>6. Closes(m, old, At(b, n, C), b, C, S, k, n)
      BY <1>1, <2>4, <3>1, <3>3, <3>5 DEF Closes, CellsMoved, At
    <3> QED  BY <1>1, <2>4, <3>3, <3>5, <3>6
  <2>5. CASE ~ (head >= 0) /\ ~ (upper <= n)
    <3>1. it = b + k - C /\ e = b + S - C
      BY <1>1, <2>5 DEF At
    <3>2. /\ n \in Nat /\ it \in Nat /\ n + it <= C /\ it <= C
      BY <1>1, <2>5, <3>1 DEF At
    <3>3. PICK m1 \in Block(C) : /\ MemMove(WithMem(c, old), n, 0, it) = WithMem(c, m1)
                                 /\ CellsMoved(m1, old, C, n, 0, it)
      BY <1>1, <3>2, Moved
    <3>4. /\ C - n \in Nat /\ n \in Nat /\ n <= C /\ C - n + n <= C
          /\ n = 0 \/ n <= C - n \/ C - n + n <= 0
      BY <1>1, <2>5, <3>1 DEF At
    <3>5. PICK m2 \in Block(C) : /\ MemCpy(WithMem(c, m1), 0, C - n, n) = WithMem(c, m2)
                                 /\ CellsMoved(m2, m1, C, 0, C - n, n)
      BY <1>1, <3>4, MovedApart
    <3>6. /\ b + n \in Nat /\ b \in Nat /\ upper - n \in Nat /\ b + n + (upper - n) <= C /\ b + (upper - n) <= C
      BY <1>1, <2>5, <3>1 DEF At
    <3>7. PICK m \in Block(C) : /\ MemMove(WithMem(c, m2), b + n, b, upper - n) = WithMem(c, m)
                                /\ CellsMoved(m, m2, C, b + n, b, upper - n)
      BY <1>1, <3>6, Moved
    <3>8. Closes(m, old, At(b, n, C), b, C, S, k, n)
      BY <1>1, <2>5, <3>1, <3>3, <3>5, <3>7 DEF Closes, CellsMoved, At
    <3> QED  BY <1>1, <2>5, <3>3, <3>5, <3>7, <3>8
  <2> QED  BY <2>1, <2>2, <2>3, <2>4, <2>5
<1> QED  BY <1>2, <1>3, <1>4 DEF C, b, S, e, old

-----------------------------------------------------------------------------
(***************************************************************************)
(* The circular array: a gap opened, a gap closed, and a new block.        *)
(***************************************************************************)
LEMMA CarrParts ==
    ASSUME NEW c, CarrShape(c)
    PROVE  /\ c \in CarrRec /\ c.mem \in Block(c.cap) /\ c.cap \in Nat /\ c.begin \in Nat /\ c.size \in Nat
           /\ c.end = At(c.begin, c.size, c.cap) /\ c.opts \in CarrOpts
           /\ (c.size < c.cap /\ c.begin < c.cap) \/ (c.size = 0 /\ c.cap = 0 /\ c.begin = 0)
BY DEF CarrShape, CarrRec

\* The elements i, ..., j - 1 as a sequence.
Buffer(t, c, i, j) ==
    /\ t \in Seq(Cell) /\ Len(t) = j - i
    /\ \A q \in 1 .. j - i : t[q] = c.mem[At(c.begin, i + q - 1, c.cap)]

LEMMA Buffered ==
    ASSUME NEW c, CarrShape(c), NEW i \in Nat, NEW j \in Nat, i <= j, j <= c.size
    PROVE  Buffer(stdcarr_low_copy_to_buf(c, At(c.begin, i, c.cap), At(c.begin, j, c.cap)), c, i, j)
<1> DEFINE C == c.cap
           b == c.begin
           S == c.size
           f == At(b, i, C)
           g == At(b, j, C)
           t == stdcarr_low_copy_to_buf(c, f, g)
           l == j - i
<1>1. /\ C \in Nat /\ b \in Nat /\ S \in Nat /\ c.mem \in Block(C) /\ j <= S
      /\ (S < C /\ b < C) \/ (S = 0 /\ C = 0 /\ b = 0)
  BY CarrParts
<1> HIDE DEF C, b, S
<1>2. l \in Nat /\ f \in Nat /\ g \in Nat /\ \A a \in 0 .. C - 1 : c.mem[a] \in Cell
  BY <1>1 DEF At, Block
<1>3. CASE f <= g
  <2>1. g - f = l
    BY <1>1, <1>3 DEF At
  <2>2. t = [q \in 1 .. l |-> c.mem[f + q - 1]]
    BY <1>3, <2>1 DEF stdcarr_low_copy_to_buf
  <2>3. ASSUME NEW q \in 1 .. l
        PROVE  f + q - 1 = At(b, i + q - 1, C) /\ f + q - 1 \in 0 .. C - 1
    BY <1>1, <1>2, <1>3, <2>1 DEF At
  <2> HIDE DEF t, l, f, g
  <2>4. t \in [1 .. l -> Cell] /\ \A q \in 1 .. l : t[q] = c.mem[At(b, i + q - 1, C)]
    BY <1>2, <2>2, <2>3
  <2>5. t \in Seq(Cell) /\ Len(t) = l
    BY <1>2, <2>4
  <2> QED  BY <2>4, <2>5 DEF Buffer, t, l, f, g, C, b
<1>4. CASE ~ (f <= g)
  <2>1. C - f + g = l
    BY <1>1, <1>4 DEF At
  <2>2. t = [q \in 1 .. l |-> IF q <= C - f THEN c.mem[f + q - 1] ELSE c.mem[q - 1 - (C - f)]]
    BY <1>4, <2>1 DEF stdcarr_low_copy_to_buf, C
  <2>3. ASSUME NEW q \in 1 .. l
        PROVE  /\ q <= C - f => f + q - 1 = At(b, i + q - 1, C) /\ f + q - 1 \in 0 .. C - 1
               /\ ~ (q <= C - f) => /\ q - 1 - (C - f) = At(b, i + q - 1, C)
                                    /\ q - 1 - (C - f) \in 0 .. C - 1
    BY <1>1, <1>2, <1>4, <2>1 DEF At
  <2> HIDE DEF t, l, f, g
  <2>4. t \in [1 .. l -> Cell] /\ \A q \in 1 .. l : t[q] = c.mem[At(b, i + q - 1, C)]
    BY <1>2, <2>2, <2>3
  <2>5. t \in Seq(Cell) /\ Len(t) = l
    BY <1>2, <2>4
  <2> QED  BY <2>4, <2>5 DEF Buffer, t, l, f, g, C, b
<1> QED  BY <1>2, <1>3, <1>4

\* The two ends are iterators like the others.
LEMMA Ends ==
    ASSUME NEW c, CarrShape(c)
    PROVE  At(c.begin, 0, c.cap) = c.begin /\ At(c.begin, c.size, c.cap) = c.end
BY CarrParts DEF At

LEMMA RefilledRight ==
    ASSUME NEW c, CarrShape(c), NEW cap \in Nat, NEW t \in Seq(Cell), Len(t) < cap \/ (Len(t) = 0 /\ cap = 0)
    PROVE  /\ CarrShape(Refilled(c, cap, t)) /\ Refilled(c, cap, t).size = Len(t)
           /\ Refilled(c, cap, t).begin = 0 /\ Refilled(c, cap, t).cap = cap /\ Refilled(c, cap, t).opts = c.opts
           /\ CarrHolds(Refilled(c, cap, t), t)
<1> DEFINE m == [i \in 0 .. cap - 1 |-> IF i < Len(t) THEN t[i + 1] ELSE Junk]
           y == Refilled(c, cap, t)
<1>1. Len(t) \in Nat /\ c \in CarrRec /\ c.sound
  BY DEF CarrShape
<1>2. m \in Block(cap) /\ \A i \in 0 .. Len(t) - 1 : m[i] = t[i + 1]
  <2>1. \A i \in 0 .. cap - 1 : (IF i < Len(t) THEN t[i + 1] ELSE Junk) \in Cell
    BY <1>1 DEF Cell
  <2>2. \A i \in 0 .. Len(t) - 1 : i \in 0 .. cap - 1 /\ i < Len(t)
    BY <1>1
  <2> QED  BY <2>1, <2>2 DEF Block
<1>3. m \in Blocks
  BY <1>2, ABlock
<1>4. y = [c EXCEPT !.mem = m, !.begin = 0, !.end = Len(t), !.size = Len(t), !.cap = cap]
  BY DEF Refilled
<1> HIDE DEF m, y
<1>5. /\ y \in CarrRec /\ y.sound /\ y.mem = m /\ y.begin = 0 /\ y.end = Len(t) /\ y.size = Len(t)
      /\ y.cap = cap /\ y.opts = c.opts
  BY <1>1, <1>3, <1>4 DEF CarrRec
<1>6. Len(t) = At(0, Len(t), cap) /\ \A i \in 0 .. Len(t) - 1 : At(0, i, cap) = i
  BY <1>1 DEF At
<1>7. CarrShape(y)
  BY <1>2, <1>5, <1>6 DEF CarrShape
<1>8. CarrHolds(y, t)
  BY <1>2, <1>5, <1>6, <1>7 DEF CarrHolds
<1> QED  BY <1>5, <1>7, <1>8 DEF y

\* Room for n elements before the k-th one.
Room(c, s, k, n) ==
    /\ CarrShape(c) /\ c.size = Len(s) + n
    /\ \A j \in 0 .. Len(s) - 1 :
         s[j + 1] # Junk => c.mem[At(c.begin, IF j < k THEN j ELSE j + n, c.cap)] = s[j + 1]

CarrGives(r, s, t) ==
    /\ r.ret = "STDESUCCESS" => CarrHolds(r.c, t)
    /\ r.ret # "STDESUCCESS" => CarrHolds(r.c, s)

IsJoined(t, p, v, q) ==
    /\ t \in Seq(Cell) /\ Len(t) = Len(p) + Len(v) + Len(q)
    /\ \A i \in 1 .. Len(p) + Len(v) + Len(q) :
         t[i] = IF i <= Len(p) THEN p[i]
                ELSE IF i <= Len(p) + Len(v) THEN v[i - Len(p)] ELSE q[i - (Len(p) + Len(v))]

LEMMA Joined ==
    ASSUME NEW p \in Seq(Cell), NEW v \in Seq(Cell), NEW q \in Seq(Cell)
    PROVE  IsJoined(p \o v \o q, p, v, q)
<1>1. Len(p) \in Nat /\ Len(v) \in Nat /\ Len(q) \in Nat
  OBVIOUS
<1> DEFINE pv == p \o v
<1>2. /\ pv \in Seq(Cell) /\ Len(pv) = Len(p) + Len(v)
      /\ \A i \in 1 .. Len(p) + Len(v) : pv[i] = IF i <= Len(p) THEN p[i] ELSE v[i - Len(p)]
  BY ConcatProperties
<1> HIDE DEF pv
<1>3. /\ pv \o q \in Seq(Cell) /\ Len(pv \o q) = Len(pv) + Len(q)
      /\ \A i \in 1 .. Len(pv) + Len(q) : (pv \o q)[i] = IF i <= Len(pv) THEN pv[i] ELSE q[i - Len(pv)]
  <2>1. pv \in Seq(Cell)
    BY <1>2
  <2> QED  BY <2>1, ConcatProperties
<1>4. ASSUME NEW i \in 1 .. Len(p) + Len(v) + Len(q)
      PROVE  (pv \o q)[i] = IF i <= Len(p) THEN p[i]
                            ELSE IF i <= Len(p) + Len(v) THEN v[i - Len(p)] ELSE q[i - (Len(p) + Len(v))]
  <2>1. i \in 1 .. Len(pv) + Len(q)
    BY <1>1, <1>2
  <2>2. CASE i <= Len(p) + Len(v)
    <3>1. i \in 1 .. Len(p) + Len(v)
      BY <1>1, <2>2
    <3> QED  BY <1>1, <1>2, <1>3, <2>1, <2>2, <3>1
  <2>3. CASE ~ (i <= Len(p) + Len(v))
    BY <1>1, <1>2, <1>3, <2>1, <2>3
  <2> QED  BY <2>2, <2>3
<1> QED  BY <1>1, <1>2, <1>3, <1>4 DEF pv, IsJoined

LEMMA GapOpened ==
    ASSUME NEW c, NEW s, CarrHolds(c, s), NEW k \in 0 .. Len(s), NEW n \in Nat \ {0}, NEW right \in BOOLEAN,
           NEW r \in stdcarr_low_insert_shift(c, At(c.begin, k, c.cap), n, right)
    PROVE  /\ r.ret # "STDESUCCESS" => r.c = c
           /\ r.ret = "STDESUCCESS" => Room(r.c, s, k, n) /\ r.it = At(r.c.begin, k, r.c.cap)
           /\ r = CarrResult(r.c, r.it, r.ret)
<1> DEFINE C == c.cap
           b == c.begin
           S == c.size
           it == At(b, k, C)
           room == [i \in 1 .. n |-> Junk]
           before == stdcarr_low_copy_to_buf(c, b, it)
           after == stdcarr_low_copy_to_buf(c, it, c.end)
           list == before \o room \o after
           new_cap == Larger(2 * (S + n), STDCARR_MIN_AUTO_ALLOC)
           y == stdcarr_low_insert_shift_right(c, it, n)
           z == stdcarr_low_insert_shift_left(c, it, n)
<1>1. /\ CarrShape(c) /\ s \in Seq(Cell) /\ Len(s) \in Nat /\ S = Len(s) /\ k \in Nat /\ k <= S /\ n \in Nat /\ n > 0
      /\ k \in 0 .. S
  BY DEF CarrHolds
<1>2. /\ c \in CarrRec /\ c.mem \in Block(C) /\ C \in Nat /\ b \in Nat /\ S \in Nat /\ c.end = At(b, S, C)
      /\ (S < C /\ b < C) \/ (S = 0 /\ C = 0 /\ b = 0)
  BY <1>1, CarrParts
<1>3. \/ r = CarrResult(y, it, "STDESUCCESS") /\ S + n <= stdcarr_high_capacity(c)
      \/ r = CarrResult(z, Back(it, n, C), "STDESUCCESS") /\ S + n <= stdcarr_high_capacity(c)
      \/ r = CarrResult(c, it, "STDEACCES") \/ r = CarrResult(c, it, "STDENOMEM")
      \/ r = CarrResult(Refilled(c, new_cap, list), Len(before), "STDESUCCESS")
  BY <1>1 DEF stdcarr_low_insert_shift, stdcarr_low_backward, Back
<1>4. \A j \in 0 .. S - 1 : s[j + 1] # Junk => c.mem[At(b, j, C)] = s[j + 1]
  BY <1>1 DEF CarrHolds
<1>5. S + n <= stdcarr_high_capacity(c) => S + n < C
  BY <1>1, <1>2 DEF stdcarr_high_capacity
<1> HIDE DEF C, b, S, it, list, before, after, room, new_cap, y, z
<1>6. CASE r = CarrResult(y, it, "STDESUCCESS") /\ S + n < C
  <2>1. PICK m \in Block(C) : y = Placed(c, m, b, At(c.end, n, C), S + n) /\ Opens(m, c.mem, b, b, C, S, k, n)
    BY <1>1, <1>6, InsertShiftedRight DEF y, it, b, C, S
  <2> DEFINE l == S + n
             e == At(c.end, n, C)
  <2>2. l \in Nat /\ l < C /\ b < C /\ b \in Nat /\ e \in Nat /\ At(b, l, C) = e
    BY <1>1, <1>2, <1>6 DEF At
  <2>3. CarrShape(y) /\ y.mem = m /\ y.begin = b /\ y.size = S + n /\ y.cap = C
    <3>1. y = Placed(c, m, b, e, l)
      BY <2>1
    <3> HIDE DEF l, e
    <3>2. /\ CarrShape(Placed(c, m, b, e, l)) /\ Placed(c, m, b, e, l).mem = m
          /\ Placed(c, m, b, e, l).begin = b /\ Placed(c, m, b, e, l).size = l /\ Placed(c, m, b, e, l).cap = C
      BY <1>1, <2>2, CarrPlaced DEF C
    <3> QED  BY <3>1, <3>2 DEF l
  <2>4. Room(y, s, k, n)
    BY <1>1, <1>4, <2>1, <2>3 DEF Room, Opens
  <2> QED  BY <1>6, <2>3, <2>4 DEF CarrResult, it
<1>7. CASE r = CarrResult(z, Back(it, n, C), "STDESUCCESS") /\ S + n < C
  <2> DEFINE nb == Back(b, n, C)
  <2>1. PICK m \in Block(C) : z = Placed(c, m, nb, c.end, S + n) /\ Opens(m, c.mem, nb, b, C, S, k, n)
    BY <1>1, <1>7, InsertShiftedLeft DEF z, it, b, C, S
  <2> DEFINE l == S + n
             e == c.end
  <2>2. l \in Nat /\ l < C /\ nb \in Nat /\ nb < C /\ At(nb, l, C) = e /\ e \in Nat
    BY <1>1, <1>2, <1>7 DEF At, Back
  <2>3. Back(it, n, C) = At(nb, k, C)
    BY <1>1, <1>2, <1>7 DEF it, At, Back
  <2> HIDE DEF nb
  <2>4. CarrShape(z) /\ z.mem = m /\ z.begin = nb /\ z.size = S + n /\ z.cap = C
    <3>1. z = Placed(c, m, nb, e, l)
      BY <2>1
    <3> HIDE DEF l, e
    <3>2. /\ CarrShape(Placed(c, m, nb, e, l)) /\ Placed(c, m, nb, e, l).mem = m
          /\ Placed(c, m, nb, e, l).begin = nb /\ Placed(c, m, nb, e, l).size = l /\ Placed(c, m, nb, e, l).cap = C
      BY <1>1, <2>2, CarrPlaced DEF C
    <3> QED  BY <3>1, <3>2 DEF l
  <2>5. Room(z, s, k, n)
    BY <1>1, <1>4, <2>1, <2>4 DEF Room, Opens
  <2> QED  BY <1>7, <2>3, <2>4, <2>5 DEF CarrResult
<1>8. CASE r = CarrResult(c, it, "STDEACCES") \/ r = CarrResult(c, it, "STDENOMEM")
  BY <1>8 DEF CarrResult
<1>9. CASE r = CarrResult(Refilled(c, new_cap, list), Len(before), "STDESUCCESS")
  <2>1. Buffer(before, c, 0, k) /\ Buffer(after, c, k, S)
    <3>1. before = stdcarr_low_copy_to_buf(c, At(c.begin, 0, c.cap), At(c.begin, k, c.cap))
      BY <1>1, Ends DEF before, b, it, C
    <3>2. after = stdcarr_low_copy_to_buf(c, At(c.begin, k, c.cap), At(c.begin, S, c.cap))
      BY <1>1, Ends DEF after, b, it, C, S
    <3>3. 0 \in Nat /\ 0 <= k /\ k <= c.size /\ S \in Nat /\ S <= c.size
      BY <1>1, <1>2 DEF S
    <3>4. Buffer(before, c, 0, k)
      BY <1>1, <3>1, <3>3, Buffered
    <3>5. Buffer(after, c, k, S)
      BY <1>1, <3>2, <3>3, Buffered
    <3> QED  BY <3>4, <3>5
  <2>2. /\ before \in Seq(Cell) /\ Len(before) = k
        /\ \A q \in 1 .. k : before[q] = c.mem[At(b, 0 + q - 1, C)]
    BY <1>1, <2>1 DEF Buffer, b, C
  <2>3. /\ after \in Seq(Cell) /\ Len(after) = S - k
        /\ \A q \in 1 .. S - k : after[q] = c.mem[At(b, k + q - 1, C)]
    BY <2>1 DEF Buffer, b, C
  <2>4. room \in Seq(Cell) /\ Len(room) = n
    <3>1. room \in [1 .. n -> Cell]
      BY DEF room, Cell
    <3> QED  BY <1>1, <3>1
  <2>5. /\ list \in Seq(Cell) /\ Len(list) = k + n + (S - k)
        /\ \A i \in 1 .. k + n + (S - k) :
             list[i] = IF i <= k THEN before[i] ELSE IF i <= k + n THEN room[i - k] ELSE after[i - (k + n)]
    <3>1. IsJoined(list, before, room, after)
      BY <2>2, <2>3, <2>4, Joined DEF list
    <3> QED  BY <2>2, <2>3, <2>4, <3>1 DEF IsJoined
  <2>6. Len(list) = S + n /\ new_cap \in Nat /\ S + n < new_cap
    BY <1>1, <1>2, <2>5, CarrAssumption DEF new_cap, Larger
  <2> DEFINE w == Refilled(c, new_cap, list)
  <2>7. /\ CarrShape(w) /\ w.size = S + n /\ w.begin = 0 /\ w.cap = new_cap
        /\ \A j \in 0 .. S + n - 1 : list[j + 1] # Junk => w.mem[At(0, j, new_cap)] = list[j + 1]
    <3>1. list \in Seq(Cell) /\ Len(list) < new_cap /\ new_cap \in Nat
      BY <2>5, <2>6
    <3>2. CarrShape(w) /\ w.size = Len(list) /\ w.begin = 0 /\ w.cap = new_cap
      BY <1>1, <3>1, RefilledRight
    <3>3. CarrHolds(w, list)
      BY <1>1, <3>1, RefilledRight
    <3> HIDE DEF w
    <3>4. \A j \in 0 .. Len(list) - 1 : list[j + 1] # Junk => w.mem[At(w.begin, j, w.cap)] = list[j + 1]
      BY <3>3 DEF CarrHolds
    <3>5. \A j \in 0 .. Len(list) - 1 : list[j + 1] # Junk => w.mem[At(0, j, new_cap)] = list[j + 1]
      BY <3>2, <3>4, Zenon
    <3>6. \A j \in 0 .. S + n - 1 : list[j + 1] # Junk => w.mem[At(0, j, new_cap)] = list[j + 1]
      BY <1>1, <1>2, <2>6, <3>5
    <3>7. w.size = S + n
      BY <2>6, <3>2
    <3> QED  BY <3>2, <3>6, <3>7, Zenon
  <2> HIDE DEF w
  <2>8. ASSUME NEW j \in 0 .. S - 1, s[j + 1] # Junk
        PROVE  w.mem[At(0, IF j < k THEN j ELSE j + n, new_cap)] = s[j + 1]
    <3> DEFINE a == IF j < k THEN j ELSE j + n
    <3>1. a \in 0 .. S + n - 1
      BY <1>1, <1>2
    <3>2. list[a + 1] = c.mem[At(b, j, C)]
      <4>1. CASE j < k
        <5>1. a = j /\ j + 1 \in 1 .. k /\ j + 1 \in 1 .. k + n + (S - k) /\ j + 1 <= k /\ 0 + (j + 1) - 1 = j
          BY <1>1, <1>2, <4>1
        <5> QED  BY <2>2, <2>5, <5>1
      <4>2. CASE ~ (j < k)
        <5>1. /\ a = j + n /\ a + 1 \in 1 .. k + n + (S - k) /\ ~ (a + 1 <= k) /\ ~ (a + 1 <= k + n)
              /\ a + 1 - (k + n) \in 1 .. S - k /\ k + (a + 1 - (k + n)) - 1 = j
          BY <1>1, <1>2, <4>2
        <5> DEFINE q == a + 1 - (k + n)
        <5>2. list[a + 1] = after[q]
          BY <2>5, <5>1, SMTT(30)
        <5>3. q \in 1 .. S - k /\ k + q - 1 = j
          BY <5>1
        <5> HIDE DEF a, q
        <5> QED  BY <2>3, <5>2, <5>3
      <4> QED  BY <4>1, <4>2
    <3> HIDE DEF a
    <3>3. list[a + 1] = s[j + 1]
      BY <1>4, <2>8, <3>2
    <3>4. w.mem[At(0, a, new_cap)] = list[a + 1]
      BY <2>7, <2>8, <3>1, <3>3
    <3> QED  BY <3>3, <3>4 DEF a
  <2>9. Room(w, s, k, n)
    BY <1>1, <2>7, <2>8 DEF Room
  <2>10. Len(before) = At(0, k, new_cap)
    BY <1>1, <1>2, <2>2, <2>6 DEF At
  <2> QED  BY <1>9, <2>7, <2>9, <2>10 DEF CarrResult, w
<1> QED  BY <1>3, <1>5, <1>6, <1>7, <1>8, <1>9

\* The iterators count the elements.
LEMMA RankOf ==
    ASSUME NEW c, CarrShape(c), NEW k \in Nat, k <= c.size
    PROVE  stdcarr_rank(c, At(c.begin, k, c.cap)) = k
BY CarrParts DEF stdcarr_rank, At

\* The elements are written into the room made for them.
LEMMA RoomFilled ==
    ASSUME NEW c, NEW s, NEW k \in 0 .. Len(s), NEW v \in Seq(Cell), s \in Seq(Cell), Len(v) > 0,
           Room(c, s, k, Len(v)), NEW t, WithIn(t, s, k, v)
    PROVE  /\ CarrHolds(WithVals(c, At(c.begin, k, c.cap), v), t)
           /\ stdcarr_rank(WithVals(c, At(c.begin, k, c.cap), v), At(c.begin, k, c.cap)) = k
<1> DEFINE C == c.cap
           b == c.begin
           S == Len(s)
           n == Len(v)
           it == At(b, k, C)
           old == c.mem
           m == [i \in DOMAIN old |->
                   LET j == IF i >= it THEN i - it ELSE i - it + C
                   IN  IF j < n THEN v[j + 1] ELSE old[i]]
           y == WithVals(c, it, v)
<1>1. /\ CarrShape(c) /\ c.size = S + n /\ S \in Nat /\ n \in Nat /\ n > 0 /\ k \in Nat /\ k <= S
      /\ \A j \in 0 .. S - 1 : s[j + 1] # Junk => old[At(b, IF j < k THEN j ELSE j + n, C)] = s[j + 1]
  BY DEF Room
<1>2. /\ c \in CarrRec /\ old \in Block(C) /\ C \in Nat /\ b \in Nat /\ S + n < C /\ b < C
      /\ c.end = At(b, S + n, C) /\ c.sound
  BY <1>1, CarrParts DEF CarrShape
<1>3. y = WithMem(c, m)
  BY DEF WithVals, WithMem
<1>4. \A i \in 1 .. n : v[i] \in Cell
  OBVIOUS
<1> HIDE DEF C, b, S, n, old
<1>5. it \in Nat
  BY <1>1, <1>2 DEF At
<1>6. m \in Block(C)
  <2>1. DOMAIN old = 0 .. C - 1 /\ \A i \in 0 .. C - 1 : old[i] \in Cell
    BY <1>2 DEF Block
  <2> HIDE DEF it
  <2>2. ASSUME NEW i \in 0 .. C - 1
        PROVE  (LET j == IF i >= it THEN i - it ELSE i - it + C
                IN  IF j < n THEN v[j + 1] ELSE old[i]) \in Cell
    <3> DEFINE j == IF i >= it THEN i - it ELSE i - it + C
    <3>1. j \in Int /\ (it < C => j >= 0)
      BY <1>2, <1>5
    <3>2. it < C
      BY <1>1, <1>2 DEF it, At
    <3>3. j < n => j + 1 \in 1 .. n
      BY <1>1, <3>1, <3>2
    <3> HIDE DEF j
    <3>4. (IF j < n THEN v[j + 1] ELSE old[i]) \in Cell
      BY <1>4, <2>1, <3>3
    <3> QED  BY <3>4 DEF j
  <2> QED  BY <2>1, <2>2 DEF Block
<1>7. ASSUME NEW x \in 0 .. S + n - 1
      PROVE  m[At(b, x, C)] = IF k <= x /\ x < k + n THEN v[x - k + 1] ELSE old[At(b, x, C)]
  <2> DEFINE i == At(b, x, C)
             j == IF i >= it THEN i - it ELSE i - it + C
  <2>1. i \in 0 .. C - 1
    BY <1>1, <1>2 DEF At
  <2>2. m[i] = IF j < n THEN v[j + 1] ELSE old[i]
    BY <1>2, <2>1 DEF Block
  <2>3. /\ k <= x /\ x < k + n => j < n /\ j + 1 = x - k + 1
        /\ ~ (k <= x /\ x < k + n) => ~ (j < n)
    <3>1. CASE b + k < C /\ b + x < C
      BY <1>1, <1>2, <3>1 DEF At
    <3>2. CASE b + k < C /\ ~ (b + x < C)
      BY <1>1, <1>2, <3>2 DEF At
    <3>3. CASE ~ (b + k < C) /\ b + x < C
      BY <1>1, <1>2, <3>3 DEF At
    <3>4. CASE ~ (b + k < C) /\ ~ (b + x < C)
      BY <1>1, <1>2, <3>4 DEF At
    <3> QED  BY <3>1, <3>2, <3>3, <3>4
  <2> HIDE DEF i, j, m
  <2>4. m[i] = IF k <= x /\ x < k + n THEN v[x - k + 1] ELSE old[i]
    BY <2>2, <2>3
  <2> QED  BY <2>4 DEF i
<1> HIDE DEF m, it, y
<1>8. y = Placed(c, m, b, c.end, S + n)
  BY <1>1, <1>2, <1>3 DEF WithMem, Placed, CarrRec, b
<1>9. /\ CarrShape(y) /\ y.mem = m /\ y.begin = b /\ y.size = S + n /\ y.cap = C
  <2> DEFINE l == S + n
             e == c.end
  <2>1. l \in Nat /\ l < C /\ e \in Nat /\ At(b, l, C) = e /\ b \in Nat /\ b < C
    BY <1>1, <1>2 DEF At
  <2>2. y = Placed(c, m, b, e, l)
    BY <1>8
  <2> HIDE DEF l, e
  <2>3. /\ CarrShape(Placed(c, m, b, e, l)) /\ Placed(c, m, b, e, l).mem = m
        /\ Placed(c, m, b, e, l).begin = b /\ Placed(c, m, b, e, l).size = l /\ Placed(c, m, b, e, l).cap = C
    BY <1>1, <1>6, <2>1, CarrPlaced DEF C
  <2> QED  BY <2>2, <2>3 DEF l
<1>10. t \in Seq(Cell) /\ Len(t) = S + n
  BY DEF WithIn, S, n
<1>11. ASSUME NEW x \in 0 .. S + n - 1, t[x + 1] # Junk
       PROVE  m[At(b, x, C)] = t[x + 1]
  <2>1. t[x + 1] = IF x + 1 <= k THEN s[x + 1] ELSE IF x + 1 <= k + n THEN v[x + 1 - k] ELSE s[x + 1 - n]
    <3>1. x + 1 \in 1 .. S + n
      BY <1>1
    <3> QED  BY <3>1 DEF WithIn, S, n
  <2>2. CASE x < k
    <3>1. x + 1 <= k /\ ~ (k <= x) /\ x \in 0 .. S - 1
      BY <1>1, <2>2
    <3>2. t[x + 1] = s[x + 1] /\ m[At(b, x, C)] = old[At(b, x, C)]
      BY <1>7, <2>1, <3>1
    <3> QED  BY <1>1, <1>11, <2>2, <3>1, <3>2
  <2>3. CASE k <= x /\ x < k + n
    <3>1. ~ (x + 1 <= k) /\ x + 1 <= k + n /\ x + 1 - k = x - k + 1
      BY <1>1, <2>3
    <3> QED  BY <1>7, <2>1, <2>3, <3>1
  <2>4. CASE ~ (x < k + n)
    <3> DEFINE j == x - n
    <3>1. ~ (x + 1 <= k) /\ ~ (x + 1 <= k + n) /\ j \in 0 .. S - 1 /\ ~ (j < k) /\ j + n = x /\ x + 1 - n = j + 1
      BY <1>1, <2>4, SMTT(30)
    <3> HIDE DEF j
    <3>2. t[x + 1] = s[j + 1]
      BY <2>1, <3>1
    <3>3. m[At(b, x, C)] = old[At(b, j + n, C)]
      BY <1>7, <2>4, <3>1
    <3> QED  BY <1>1, <1>11, <3>1, <3>2, <3>3
  <2> QED  BY <1>1, <2>2, <2>3, <2>4
<1>12. CarrHolds(y, t)
  <2>1. \A x \in 0 .. Len(t) - 1 : t[x + 1] # Junk => m[At(b, x, C)] = t[x + 1]
    BY <1>1, <1>10, <1>11
  <2> QED  BY <1>9, <1>10, <2>1 DEF CarrHolds
<1>13. stdcarr_rank(y, it) = k
  <2>1. k <= y.size /\ it = At(y.begin, k, y.cap)
    BY <1>1, <1>9 DEF it
  <2> QED  BY <1>1, <1>9, <2>1, RankOf
<1> QED  BY <1>12, <1>13 DEF y, it, b, C

LEMMA CarrWritten ==
    ASSUME NEW c, NEW s, CarrHolds(c, s), NEW k \in 0 .. Len(s), NEW v \in Seq(Cell), Len(v) > 0,
           NEW t, WithIn(t, s, k, v), NEW r \in stdcarr_insert_n(c, At(c.begin, k, c.cap), v)
    PROVE  /\ CarrGives(r, s, t)
           /\ r.ret = "STDESUCCESS" => stdcarr_rank(r.c, r.it) = k
<1> DEFINE it == At(c.begin, k, c.cap)
           n == Len(v)
           right == STDCARR_INS_SHIFT_RIGHT(c, it)
<1>1. s \in Seq(Cell) /\ n \in Nat \ {0} /\ CarrShape(c)
  BY DEF CarrHolds
<1>0. right \in BOOLEAN
  <2>1. CASE it >= c.begin
    <3>1. right = (it - c.begin > c.size \div 2)
      BY <2>1, Zenon DEF STDCARR_INS_SHIFT_RIGHT
    <3> QED  BY <3>1
  <2>2. CASE ~ (it >= c.begin)
    <3>1. right = (c.end - it <= c.size \div 2)
      BY <2>2, Zenon DEF STDCARR_INS_SHIFT_RIGHT
    <3> QED  BY <3>1
  <2> QED  BY <2>1, <2>2
<1>2. PICK q \in stdcarr_low_insert_shift(c, it, n, right) :
        r = IF q.ret = "STDESUCCESS" THEN [q EXCEPT !.c = WithVals(@, q.it, v)] ELSE q
  BY DEF stdcarr_insert_n
<1> HIDE DEF right, n
<1>3. q.ret # "STDESUCCESS" => q.c = c
  BY <1>0, <1>1, <1>2, GapOpened DEF n
<1>4. q.ret = "STDESUCCESS" => Room(q.c, s, k, n) /\ q.it = At(q.c.begin, k, q.c.cap)
  BY <1>0, <1>1, <1>2, GapOpened DEF n
<1>5. q = CarrResult(q.c, q.it, q.ret)
  BY <1>0, <1>1, <1>2, GapOpened DEF n
<1>6. CASE q.ret # "STDESUCCESS"
  BY <1>2, <1>3, <1>6 DEF CarrGives
<1>7. CASE q.ret = "STDESUCCESS"
  <2>1. r.c = WithVals(q.c, q.it, v) /\ r.it = q.it /\ r.ret = "STDESUCCESS"
    BY <1>2, <1>5, <1>7 DEF CarrResult
  <2>2. Room(q.c, s, k, Len(v)) /\ q.it = At(q.c.begin, k, q.c.cap)
    BY <1>4, <1>7 DEF n
  <2>3. CarrHolds(WithVals(q.c, At(q.c.begin, k, q.c.cap), v), t)
    BY <1>1, <2>2, RoomFilled
  <2>4. stdcarr_rank(WithVals(q.c, At(q.c.begin, k, q.c.cap), v), At(q.c.begin, k, q.c.cap)) = k
    BY <1>1, <2>2, RoomFilled
  <2> QED  BY <2>1, <2>2, <2>3, <2>4 DEF CarrGives
<1> QED  BY <1>6, <1>7

LEMMA Replaced ==
    ASSUME NEW c, CarrShape(c), NEW m \in Block(c.cap), NEW b \in Nat, NEW l \in Nat, NEW e \in Nat,
           l < c.cap, b < c.cap, At(b, l, c.cap) = e, NEW y, y = Placed(c, m, b, e, l)
    PROVE  CarrShape(y) /\ y.mem = m /\ y.begin = b /\ y.size = l /\ y.cap = c.cap
<1>1. /\ CarrShape(Placed(c, m, b, e, l)) /\ Placed(c, m, b, e, l).mem = m
      /\ Placed(c, m, b, e, l).begin = b /\ Placed(c, m, b, e, l).size = l /\ Placed(c, m, b, e, l).cap = c.cap
  BY CarrPlaced
<1> QED  BY <1>1

LEMMA Closed ==
    ASSUME NEW c, NEW s, CarrHolds(c, s), NEW k \in Nat, NEW n \in Nat, k + n <= Len(s),
           NEW t, Without(t, s, k, n), NEW y, CarrShape(y), y.size = c.size - n, y.cap = c.cap,
           Closes(y.mem, c.mem, y.begin, c.begin, c.cap, c.size, k, n)
    PROVE  CarrHolds(y, t)
<1>1. /\ s \in Seq(Cell) /\ Len(s) \in Nat /\ c.size = Len(s)
      /\ \A j \in 0 .. Len(s) - 1 : s[j + 1] # Junk => c.mem[At(c.begin, j, c.cap)] = s[j + 1]
  BY DEF CarrHolds
<1>2. /\ t \in Seq(Cell) /\ Len(t) = Len(s) - n
      /\ \A i \in 1 .. Len(s) - n : t[i] = IF i <= k THEN s[i] ELSE s[i + n]
  BY DEF Without
<1>3. ASSUME NEW j \in 0 .. Len(s) - n - 1, t[j + 1] # Junk
      PROVE  y.mem[At(y.begin, j, y.cap)] = t[j + 1]
  <2> DEFINE a == IF j < k THEN j ELSE j + n
  <2>1. t[j + 1] = s[a + 1]
    <3>1. j + 1 \in 1 .. Len(s) - n /\ (j < k <=> j + 1 <= k) /\ j + n + 1 = j + 1 + n
      BY <1>1
    <3> QED  BY <1>2, <3>1
  <2>2. y.mem[At(y.begin, j, y.cap)] = c.mem[At(c.begin, a, c.cap)]
    BY <1>1, <1>3 DEF Closes
  <2>3. a \in 0 .. Len(s) - 1
    BY <1>1
  <2> HIDE DEF a
  <2> QED  BY <1>1, <1>3, <2>1, <2>2, <2>3
<1> QED  BY <1>1, <1>2, <1>3 DEF CarrHolds

LEMMA GapClosed ==
    ASSUME NEW c, NEW s, CarrHolds(c, s), NEW k \in Nat, NEW n \in Nat, k + n <= Len(s),
           NEW t, Without(t, s, k, n), NEW right \in BOOLEAN,
           NEW it, it = IF right THEN At(c.begin, k, c.cap) ELSE At(c.begin, k + n, c.cap),
           NEW r \in stdcarr_low_erase_shift(c, it, n, right)
    PROVE  CarrGives(r, s, t)
<1> DEFINE C == c.cap
           b == c.begin
           S == c.size
           from == At(b, k, C)
           to == At(b, k + n, C)
           before == stdcarr_low_copy_to_buf(c, b, from)
           after == stdcarr_low_copy_to_buf(c, to, c.end)
           list == before \o after
           new_cap == Larger(2 * (S - n), STDCARR_MIN_AUTO_ALLOC)
           y == stdcarr_low_erase_shift_right(c, from, n)
           z == stdcarr_low_erase_shift_left(c, to, n)
<1>1. /\ CarrShape(c) /\ s \in Seq(Cell) /\ Len(s) \in Nat /\ S = Len(s) /\ k + n <= S
      /\ k \in 0 .. S
  BY DEF CarrHolds
<1>2. /\ c \in CarrRec /\ c.mem \in Block(C) /\ C \in Nat /\ b \in Nat /\ S \in Nat /\ c.end = At(b, S, C)
      /\ (S < C /\ b < C) \/ (S = 0 /\ C = 0 /\ b = 0)
  BY <1>1, CarrParts
<1>3. t \in Seq(Cell) /\ Len(t) = S - n
  BY <1>1 DEF Without
<1>4. CASE n = 0
  <2>1. r.c = c /\ r.ret = "STDESUCCESS"
    BY <1>4 DEF stdcarr_low_erase_shift, CarrResult
  <2>2. Closes(c.mem, c.mem, b, b, C, S, k, n)
    BY <1>1, <1>2, <1>4 DEF Closes
  <2>3. CarrHolds(c, t)
    BY <1>1, <1>2, <1>4, <2>2, Closed
  <2> QED  BY <2>1, <2>3 DEF CarrGives
<1>5. CASE n > 0
  <2>1. S < C /\ b < C /\ n \in Nat \ {0} /\ S - n \in Nat /\ S - n < C
    BY <1>1, <1>2, <1>5
  <2>3. it = IF right THEN from ELSE to
    OBVIOUS
  <2> HIDE DEF C, b, S, y, z
  <2>2. stdcarr_low_backward(c, to, n) = from /\ stdcarr_low_forward(c, from, n) = to
    <3>1. Back(to, n, C) = from /\ At(from, n, C) = to
      BY <1>1, <1>2, <2>1 DEF At, Back
    <3> QED  BY <3>1 DEF stdcarr_low_backward, stdcarr_low_forward, Back, At, C
  <2> HIDE DEF from, to
  <2>4. \/ \E i : r = CarrResult(y, i, "STDESUCCESS")
        \/ \E i : r = CarrResult(z, i, "STDESUCCESS")
        \/ \E i : r = CarrResult(Refilled(c, new_cap, list), i, "STDESUCCESS")
    <3>1. CASE right
      BY <1>5, <2>2, <2>3, <3>1 DEF stdcarr_low_erase_shift, S, b, y
    <3>2. CASE ~ right
      BY <1>5, <2>2, <2>3, <3>2 DEF stdcarr_low_erase_shift, S, b, z
    <3> QED  BY <3>1, <3>2
  <2> HIDE DEF list, before, after, new_cap
  <2>5. CASE \E i : r = CarrResult(y, i, "STDESUCCESS")
    <3> DEFINE nb == At(b, n, C)
               l == S - n
               e == c.end
    <3>1. PICK m \in Block(C) : y = Placed(c, m, nb, e, l) /\ Closes(m, c.mem, nb, b, C, S, k, n)
      BY <1>1, <2>1, EraseShiftedRight DEF y, from, b, C, S
    <3>2. l \in Nat /\ l < C /\ nb \in Nat /\ nb < C /\ At(nb, l, C) = e /\ e \in Nat
      BY <1>1, <1>2, <2>1 DEF At
    <3> HIDE DEF nb, l, e
    <3>3. CarrShape(y) /\ y.mem = m /\ y.begin = nb /\ y.size = l /\ y.cap = C
      BY <1>1, <3>1, <3>2, Replaced DEF C
    <3>4. CarrHolds(y, t)
      BY <3>1, <3>3, Closed DEF l, C, S, b
    <3> QED  BY <2>5, <3>4 DEF CarrGives, CarrResult
  <2>6. CASE \E i : r = CarrResult(z, i, "STDESUCCESS")
    <3> DEFINE l == S - n
               e == Back(c.end, n, C)
    <3>1. PICK m \in Block(C) : z = Placed(c, m, b, e, l) /\ Closes(m, c.mem, b, b, C, S, k, n)
      BY <1>1, <2>1, EraseShiftedLeft DEF z, to, b, C, S
    <3>2. l \in Nat /\ l < C /\ b \in Nat /\ b < C /\ At(b, l, C) = e /\ e \in Nat
      BY <1>1, <1>2, <2>1 DEF At, Back
    <3> HIDE DEF l, e
    <3>3. CarrShape(z) /\ z.mem = m /\ z.begin = b /\ z.size = l /\ z.cap = C
      BY <1>1, <3>1, <3>2, Replaced DEF C
    <3>4. CarrHolds(z, t)
      BY <3>1, <3>3, Closed DEF l, C, S, b
    <3> QED  BY <2>6, <3>4 DEF CarrGives, CarrResult
  <2>7. CASE \E i : r = CarrResult(Refilled(c, new_cap, list), i, "STDESUCCESS")
    <3>1. Buffer(before, c, 0, k) /\ Buffer(after, c, k + n, S)
      <4> DEFINE kn == k + n
      <4>1. before = stdcarr_low_copy_to_buf(c, At(c.begin, 0, c.cap), At(c.begin, k, c.cap))
        BY <1>1, Ends DEF before, from, b, C
      <4>2. after = stdcarr_low_copy_to_buf(c, At(c.begin, kn, c.cap), At(c.begin, S, c.cap))
        BY <1>1, Ends DEF after, to, b, C, S
      <4>3. 0 \in Nat /\ 0 <= k /\ k <= c.size /\ S \in Nat /\ S <= c.size /\ kn \in Nat /\ kn <= S
        BY <1>1, <1>2 DEF S
      <4> HIDE DEF kn
      <4>4. Buffer(before, c, 0, k)
        BY <1>1, <4>1, <4>3, Buffered
      <4>5. Buffer(after, c, kn, S)
        BY <1>1, <4>2, <4>3, Buffered
      <4> QED  BY <4>4, <4>5 DEF kn
    <3>2. /\ before \in Seq(Cell) /\ Len(before) = k
          /\ \A q \in 1 .. k : before[q] = c.mem[At(b, 0 + q - 1, C)]
      BY <1>1, <3>1 DEF Buffer, b, C
    <3>3. /\ after \in Seq(Cell) /\ Len(after) = S - (k + n)
          /\ \A q \in 1 .. S - (k + n) : after[q] = c.mem[At(b, k + n + q - 1, C)]
      BY <3>1 DEF Buffer, b, C
    <3>4. /\ list \in Seq(Cell) /\ Len(list) = Len(before) + Len(after)
          /\ \A i \in 1 .. Len(before) + Len(after) :
               list[i] = IF i <= Len(before) THEN before[i] ELSE after[i - Len(before)]
      <4>1. before \in Seq(Cell) /\ after \in Seq(Cell)
        BY <3>2, <3>3
      <4> QED  BY <4>1, ConcatProperties DEF list
    <3>5. Len(list) = S - n /\ new_cap \in Nat /\ S - n < new_cap
      BY <1>1, <1>2, <2>1, <3>2, <3>3, <3>4, CarrAssumption DEF new_cap, Larger
    <3> DEFINE w == Refilled(c, new_cap, list)
    <3>6. /\ CarrShape(w) /\ w.size = S - n
          /\ \A j \in 0 .. S - n - 1 : list[j + 1] # Junk => w.mem[At(w.begin, j, w.cap)] = list[j + 1]
      <4>1. list \in Seq(Cell) /\ Len(list) < new_cap /\ new_cap \in Nat
        BY <3>4, <3>5
      <4>2. CarrShape(w) /\ w.size = Len(list)
        BY <1>1, <4>1, RefilledRight
      <4>3. CarrHolds(w, list)
        BY <1>1, <4>1, RefilledRight
      <4> HIDE DEF w
      <4>4. \A j \in 0 .. Len(list) - 1 : list[j + 1] # Junk => w.mem[At(w.begin, j, w.cap)] = list[j + 1]
        BY <4>3 DEF CarrHolds
      <4> QED  BY <1>1, <1>2, <3>5, <4>2, <4>4
    <3> HIDE DEF w
    <3>7. ASSUME NEW j \in 0 .. S - n - 1, t[j + 1] # Junk
          PROVE  w.mem[At(w.begin, j, w.cap)] = t[j + 1]
      <4> DEFINE a == IF j < k THEN j ELSE j + n
      <4>1. a \in 0 .. S - 1 /\ t[j + 1] = s[a + 1]
        <5>1. j + 1 \in 1 .. Len(s) - n /\ (j < k <=> j + 1 <= k) /\ j + n + 1 = j + 1 + n
          BY <1>1, <1>2
        <5> QED  BY <1>1, <1>2, <5>1 DEF Without
      <4>2. list[j + 1] = c.mem[At(b, a, C)]
        <5>1. CASE j < k
          <6>1. a = j /\ j + 1 \in 1 .. k /\ j + 1 \in 1 .. Len(before) + Len(after) /\ j + 1 <= Len(before) /\ 0 + (j + 1) - 1 = j
            BY <1>1, <1>2, <3>2, <3>3, <5>1
          <6> QED  BY <3>2, <3>4, <6>1
        <5>2. CASE ~ (j < k)
          <6> DEFINE q == j + 1 - k
          <6>1. /\ a = j + n /\ j + 1 \in 1 .. Len(before) + Len(after) /\ ~ (j + 1 <= Len(before))
                /\ q \in 1 .. S - (k + n) /\ k + n + q - 1 = a /\ j + 1 - Len(before) = q
            <7>1. Len(before) = k /\ Len(after) = S - (k + n) /\ j \in 0 .. S - n - 1 /\ ~ (j < k)
              BY <3>2, <3>3, <5>2
            <7> QED  BY <1>1, <1>2, <7>1
          <6> HIDE DEF a, q
          <6>2. list[j + 1] = after[q]
            BY <3>4, <6>1
          <6> QED  BY <3>3, <6>1, <6>2
        <5> QED  BY <5>1, <5>2
      <4> HIDE DEF a
      <4>3. c.mem[At(b, a, C)] = s[a + 1]
        <5>1. \A i \in 0 .. S - 1 : s[i + 1] # Junk => c.mem[At(b, i, C)] = s[i + 1]
          BY <1>1 DEF CarrHolds, b, C
        <5> QED  BY <3>7, <4>1, <5>1
      <4>4. list[j + 1] = t[j + 1]
        BY <4>1, <4>2, <4>3
      <4> QED  BY <3>6, <3>7, <4>4
    <3>8. CarrHolds(w, t)
      <4>1. \A j \in 0 .. Len(t) - 1 : t[j + 1] # Junk => w.mem[At(w.begin, j, w.cap)] = t[j + 1]
        BY <1>1, <1>2, <1>3, <3>7
      <4> QED  BY <1>3, <3>6, <4>1 DEF CarrHolds
    <3> QED  BY <2>7, <3>8 DEF CarrGives, CarrResult, w
  <2> QED  BY <2>4, <2>5, <2>6, <2>7
<1> QED  BY <1>4, <1>5

LEMMA CarrHoldsParts ==
    ASSUME NEW c, NEW s, CarrHolds(c, s)
    PROVE  /\ CarrShape(c) /\ s \in Seq(Cell) /\ Len(s) \in Nat /\ c.size = Len(s)
           /\ c.cap \in Nat /\ c.begin \in Nat /\ c.end = At(c.begin, Len(s), c.cap) /\ c.opts \in CarrOpts
           /\ (Len(s) < c.cap /\ c.begin < c.cap) \/ (Len(s) = 0 /\ c.cap = 0 /\ c.begin = 0)
BY CarrParts DEF CarrHolds

\* Another list that asks for nothing more.
LEMMA CarrWeaker ==
    ASSUME NEW c, NEW s, CarrHolds(c, s), NEW t \in Seq(Cell), Len(t) = Len(s),
           \A i \in 1 .. Len(s) : t[i] # Junk => t[i] = s[i]
    PROVE  CarrHolds(c, t)
<1>1. Len(s) \in Nat /\ CarrShape(c) /\ c.size = Len(s)
  BY CarrHoldsParts
<1>2. \A j \in 0 .. Len(s) - 1 : s[j + 1] # Junk => c.mem[At(c.begin, j, c.cap)] = s[j + 1]
  BY DEF CarrHolds
<1>3. ASSUME NEW j \in 0 .. Len(s) - 1, t[j + 1] # Junk
      PROVE  c.mem[At(c.begin, j, c.cap)] = t[j + 1]
  <2>1. j + 1 \in 1 .. Len(s)
    BY <1>1
  <2> QED  BY <1>2, <1>3, <2>1
<1> QED  BY <1>1, <1>3 DEF CarrHolds

LEMMA CarrResized ==
    ASSUME NEW c, NEW s, CarrHolds(c, s), NEW n \in Nat, NEW t, Cut(t, s, n), NEW r \in stdcarr_resize(c, n)
    PROVE  CarrGives(r, s, t)
<1>1. CarrShape(c) /\ s \in Seq(Cell) /\ Len(s) \in Nat /\ c.size = Len(s) /\ c.end = At(c.begin, Len(s), c.cap)
  BY CarrHoldsParts
<1>2. t \in Seq(Cell) /\ Len(t) = n /\ \A i \in 1 .. n : t[i] = IF i <= Len(s) THEN s[i] ELSE Junk
  BY DEF Cut
<1>3. CASE n > c.size
  <2> DEFINE k == Len(s)
             l == n - c.size
             right == TRUE
  <2>0. r \in stdcarr_low_insert_shift(c, c.end, l, right)
    BY <1>3, Zenon DEF stdcarr_resize
  <2> HIDE DEF right
  <2>1. /\ r \in stdcarr_low_insert_shift(c, At(c.begin, k, c.cap), l, right) /\ l \in Nat \ {0} /\ k \in 0 .. Len(s)
        /\ Len(s) + l = n /\ right \in BOOLEAN
    <3>1. right \in BOOLEAN
      BY DEF right
    <3>2. l \in Nat \ {0} /\ k \in 0 .. Len(s) /\ Len(s) + l = n
      BY <1>1, <1>3
    <3> QED  BY <1>1, <2>0, <3>1, <3>2
  <2> HIDE DEF l, k
  <2>2. r.ret # "STDESUCCESS" => r.c = c
    BY <2>1, GapOpened
  <2>3. r.ret = "STDESUCCESS" => Room(r.c, s, k, l)
    BY <2>1, GapOpened
  <2>4. ASSUME r.ret = "STDESUCCESS"
        PROVE  CarrHolds(r.c, t)
    <3>1. /\ CarrShape(r.c) /\ r.c.size = Len(s) + l
          /\ \A j \in 0 .. Len(s) - 1 :
               s[j + 1] # Junk => r.c.mem[At(r.c.begin, IF j < k THEN j ELSE j + l, r.c.cap)] = s[j + 1]
      BY <2>3, <2>4 DEF Room
    <3>2. ASSUME NEW j \in 0 .. Len(t) - 1, t[j + 1] # Junk
          PROVE  r.c.mem[At(r.c.begin, j, r.c.cap)] = t[j + 1]
      <4>1. j \in 0 .. Len(s) - 1 /\ j < k /\ t[j + 1] = s[j + 1]
        BY <1>1, <1>2, <3>2 DEF k
      <4> QED  BY <3>1, <3>2, <4>1
    <3> QED  BY <1>2, <2>1, <3>1, <3>2 DEF CarrHolds
  <2> QED  BY <2>2, <2>4 DEF CarrGives
<1>4. CASE n < c.size
  <2> DEFINE l == c.size - n
             it == c.end
             right == FALSE
  <2>0. r \in stdcarr_low_erase_shift(c, it, l, right)
    <3>1. ~ (n > c.size)
      BY <1>1, <1>4
    <3> QED  BY <1>4, <3>1, Zenon DEF stdcarr_resize
  <2>1. l \in Nat /\ n + l = Len(s) /\ n + l <= Len(s)
    BY <1>1, <1>4
  <2>2. right \in BOOLEAN /\ it = IF right THEN At(c.begin, n, c.cap) ELSE At(c.begin, n + l, c.cap)
    BY <1>1, <2>1
  <2>3. Without(t, s, n, l)
    BY <1>1, <1>2, <2>1 DEF Without
  <2> HIDE DEF l, it, right
  <2> QED  BY <2>0, <2>1, <2>2, <2>3, GapClosed
<1>5. CASE n = c.size
  <2>1. r.c = c
    <3>1. ~ (n > c.size) /\ ~ (n < c.size)
      BY <1>1, <1>5
    <3>2. r = CarrResult(c, c.end, "STDESUCCESS")
      BY <3>1, Zenon DEF stdcarr_resize
    <3> QED  BY <3>2 DEF CarrResult
  <2>2. CarrHolds(c, t)
    BY <1>1, <1>2, <1>5, CarrWeaker
  <2> QED  BY <2>1, <2>2 DEF CarrGives
<1> QED  BY <1>1, <1>3, <1>4, <1>5

LEMMA CarrConstructed ==
    ASSUME NEW opts \in CarrOpts
    PROVE  CarrHolds(stdcarr_construct(opts), << >>)
<1>1. NewBlock(0) \in Block(0) /\ NewBlock(0) \in Blocks
  BY Fresh, ABlock
<1> QED  BY <1>1 DEF CarrHolds, CarrShape, CarrRec, stdcarr_construct, At

\* The first k elements in a new block.
LEMMA CarrRefilled ==
    ASSUME NEW c, NEW s, CarrHolds(c, s), NEW k \in Nat, k <= Len(s), NEW cap \in Nat, k < cap \/ (k = 0 /\ cap = 0),
           NEW t, Cut(t, s, k), NEW d, CarrShape(d)
    PROVE  CarrHolds(Refilled(d, cap, stdcarr_low_copy_to_buf(c, c.begin, At(c.begin, k, c.cap))), t)
<1> DEFINE u == stdcarr_low_copy_to_buf(c, c.begin, At(c.begin, k, c.cap))
<1>1. CarrShape(c) /\ s \in Seq(Cell) /\ Len(s) \in Nat /\ c.size = Len(s)
  BY CarrHoldsParts
<1>2. Buffer(u, c, 0, k)
  <2>1. u = stdcarr_low_copy_to_buf(c, At(c.begin, 0, c.cap), At(c.begin, k, c.cap))
    BY <1>1, Ends
  <2>2. 0 \in Nat /\ 0 <= k /\ k <= c.size
    BY <1>1
  <2> QED  BY <1>1, <2>1, <2>2, Buffered
<1> HIDE DEF u
<1>3. u \in Seq(Cell) /\ Len(u) = k /\ \A q \in 1 .. k : u[q] = c.mem[At(c.begin, 0 + q - 1, c.cap)]
  BY <1>2 DEF Buffer
<1>4. CarrHolds(Refilled(d, cap, u), u)
  <2>1. u \in Seq(Cell) /\ (Len(u) < cap \/ (Len(u) = 0 /\ cap = 0))
    BY <1>3
  <2> QED  BY <2>1, RefilledRight
<1>5. t \in Seq(Cell) /\ Len(t) = k /\ \A i \in 1 .. k : t[i] = s[i]
  BY <1>1 DEF Cut
<1>6. \A i \in 1 .. k : t[i] # Junk => t[i] = u[i]
  <2>1. \A j \in 0 .. Len(s) - 1 : s[j + 1] # Junk => c.mem[At(c.begin, j, c.cap)] = s[j + 1]
    BY DEF CarrHolds
  <2>2. ASSUME NEW i \in 1 .. k, t[i] # Junk
        PROVE  t[i] = u[i]
    <3> DEFINE j == i - 1
    <3>1. j \in 0 .. Len(s) - 1 /\ j + 1 = i /\ 0 + i - 1 = j
      BY <1>1
    <3> HIDE DEF j
    <3>2. c.mem[At(c.begin, j, c.cap)] = s[i]
      BY <1>5, <2>1, <2>2, <3>1
    <3> QED  BY <1>3, <1>5, <3>1, <3>2
  <2> QED  BY <2>2
<1>7. CarrHolds(Refilled(d, cap, u), t)
  BY <1>3, <1>4, <1>5, <1>6, CarrWeaker
<1> QED  BY <1>7 DEF u

LEMMA CarrRecap ==
    ASSUME NEW c, NEW s, CarrHolds(c, s), NEW n \in Nat, NEW t, Cut(t, s, Smaller(n, Len(s))),
           NEW r \in stdcarr_set_capacity(c, n)
    PROVE  CarrGives(r, s, t)
<1> DEFINE k == Smaller(n, Len(s))
           list == stdcarr_low_copy_to_buf(c, c.begin, At(c.begin, k, c.cap))
           e == [stdcarr_construct(c.opts) EXCEPT !.sound = c.sound]
<1>1. /\ CarrShape(c) /\ s \in Seq(Cell) /\ Len(s) \in Nat /\ c.size = Len(s) /\ c.cap \in Nat /\ c.opts \in CarrOpts
      /\ Len(s) < c.cap \/ (Len(s) = 0 /\ c.cap = 0)
  BY CarrHoldsParts
<1>2. k \in Nat /\ k <= n /\ k <= Len(s) /\ (n >= Len(s) => k = Len(s))
  BY <1>1, Shorter DEF Smaller
<1>3. t \in Seq(Cell) /\ Len(t) = k /\ \A i \in 1 .. k : t[i] = s[i]
  BY <1>1, <1>2 DEF Cut
<1>4. \/ n = stdcarr_high_capacity(c) /\ r = CarrResult(c, 0, "STDESUCCESS")
      \/ n = 0 /\ r = CarrResult(e, 0, "STDESUCCESS")
      \/ n > 0 /\ r = CarrResult(Refilled(c, n + 1, list), 0, "STDESUCCESS")
      \/ r = CarrResult(c, 0, "STDENOMEM")
  <2>1. stdcarr_low_forward(c, c.begin, Smaller(n, c.size)) = At(c.begin, k, c.cap)
    BY <1>1 DEF stdcarr_low_forward, At
  <2> HIDE DEF k, e
  <2> QED  BY <2>1 DEF stdcarr_set_capacity, e
<1> HIDE DEF k, list, e
<1>5. CASE n = stdcarr_high_capacity(c) /\ r = CarrResult(c, 0, "STDESUCCESS")
  <2>1. k = Len(s)
    BY <1>1, <1>2, <1>5 DEF stdcarr_high_capacity
  <2>2. CarrHolds(c, t)
    BY <1>3, <2>1, CarrWeaker
  <2> QED  BY <1>5, <2>2 DEF CarrGives, CarrResult
<1>6. CASE n = 0 /\ r = CarrResult(e, 0, "STDESUCCESS")
  <2>1. CarrHolds(stdcarr_construct(c.opts), << >>)
    BY <1>1, CarrConstructed
  <2>2. e = stdcarr_construct(c.opts)
    <3>1. c.sound = TRUE
      BY <1>1 DEF CarrShape
    <3>2. e = [stdcarr_construct(c.opts) EXCEPT !.sound = TRUE]
      BY <3>1, Zenon DEF e
    <3> QED  BY <3>2 DEF stdcarr_construct
  <2>3. t = << >>
    BY <1>2, <1>3, <1>6
  <2> QED  BY <1>6, <2>1, <2>2, <2>3 DEF CarrGives, CarrResult
<1>7. CASE n > 0 /\ r = CarrResult(Refilled(c, n + 1, list), 0, "STDESUCCESS")
  <2> DEFINE cap == n + 1
  <2>1. cap \in Nat /\ k < cap /\ k \in Nat /\ k <= Len(s)
    BY <1>2
  <2>2. Cut(t, s, k)
    BY DEF k
  <2> HIDE DEF cap
  <2>3. CarrHolds(Refilled(c, cap, list), t)
    BY <1>1, <2>1, <2>2, CarrRefilled DEF list
  <2> QED  BY <1>7, <2>3 DEF CarrGives, CarrResult, cap
<1>8. CASE r = CarrResult(c, 0, "STDENOMEM")
  BY <1>8 DEF CarrGives, CarrResult
<1> QED  BY <1>4, <1>5, <1>6, <1>7, <1>8

LEMMA CarrReserved ==
    ASSUME NEW c, NEW s, CarrHolds(c, s), NEW n \in Nat, NEW r \in stdcarr_reserve(c, n)
    PROVE  CarrGives(r, s, s)
<1>1. s \in Seq(Cell) /\ Len(s) \in Nat /\ c.cap \in Nat /\ (Len(s) < c.cap \/ (Len(s) = 0 /\ c.cap = 0))
  BY CarrHoldsParts
<1>2. CASE n > stdcarr_high_capacity(c)
  <2>1. r \in stdcarr_set_capacity(c, n)
    BY <1>2 DEF stdcarr_reserve
  <2>2. n >= Len(s)
    BY <1>1, <1>2 DEF stdcarr_high_capacity
  <2>3. Cut(s, s, Smaller(n, Len(s)))
    BY <1>1, <2>2, CutNothing
  <2> QED  BY <2>1, <2>3, CarrRecap
<1>3. CASE ~ (n > stdcarr_high_capacity(c))
  BY <1>3 DEF stdcarr_reserve, CarrGives, CarrResult
<1> QED  BY <1>2, <1>3

LEMMA CutWhole ==
    ASSUME NEW s \in Seq(Cell)
    PROVE  Cut(s, s, Len(s))
BY DEF Cut

LEMMA CarrCopied ==
    ASSUME NEW c, NEW s, CarrHolds(c, s)
    PROVE  CarrHolds(stdcarr_copy_construct(c), s)
<1> DEFINE k == Len(s)
           cap == c.cap
<1>1. CarrShape(c) /\ s \in Seq(Cell) /\ k \in Nat /\ c.end = At(c.begin, k, c.cap) /\ cap \in Nat
      /\ (k < cap \/ (k = 0 /\ cap = 0)) /\ k <= Len(s)
  BY CarrHoldsParts
<1>2. Cut(s, s, k)
  BY <1>1, CutWhole
<1>3. stdcarr_copy_construct(c) = Refilled(c, cap, stdcarr_low_copy_to_buf(c, c.begin, At(c.begin, k, c.cap)))
  BY <1>1 DEF stdcarr_copy_construct
<1> HIDE DEF k, cap
<1> QED  BY <1>1, <1>2, <1>3, CarrRefilled

LEMMA CarrAssigned ==
    ASSUME NEW x, NEW u, CarrHolds(x, u), NEW y, NEW s, CarrHolds(y, s),
           NEW r \in stdcarr_set_eq(x, y), r.ret = "STDESUCCESS"
    PROVE  CarrHolds(r.c, s)
<1> DEFINE n == Len(s)
           t == [i \in 1 .. n |-> IF i <= Len(u) THEN u[i] ELSE Junk]
           list == stdcarr_low_copy_to_buf(y, y.begin, At(y.begin, n, y.cap))
<1>1. u \in Seq(Cell) /\ CarrShape(x)
  BY CarrHoldsParts
<1>2. n \in Nat /\ y.size = n /\ s \in Seq(Cell) /\ y.end = At(y.begin, n, y.cap)
  BY CarrHoldsParts
<1>3. Cut(t, u, n)
  BY <1>1, <1>2, IsCut
<1> HIDE DEF t
<1>4. PICK q \in stdcarr_resize(x, n) :
        r = IF q.ret = "STDESUCCESS" THEN [q EXCEPT !.c = [Refilled(q.c, q.c.cap, list) EXCEPT !.size = q.c.size]]
            ELSE q
  BY <1>2 DEF stdcarr_set_eq
<1> HIDE DEF list
<1>5. CarrGives(q, u, t)
  BY <1>2, <1>3, <1>4, CarrResized
<1>6. \E z, i, e : q = CarrResult(z, i, e)
  BY DEF stdcarr_resize, stdcarr_low_insert_shift, stdcarr_low_erase_shift
<1>7. PICK i, e : q = CarrResult(q.c, i, e)
  BY <1>6 DEF CarrResult
<1>8. q.ret = "STDESUCCESS" /\ r.c = [Refilled(q.c, q.c.cap, list) EXCEPT !.size = q.c.size]
  <2>1. q.ret = "STDESUCCESS"
    BY <1>4
  <2> QED  BY <1>4, <1>7, <2>1 DEF CarrResult
<1>9. CarrHolds(q.c, t) /\ Len(t) = n
  BY <1>3, <1>5, <1>8 DEF CarrGives, Cut
<1> DEFINE d == q.c
           cap == d.cap
           z == Refilled(d, cap, list)
<1>10. CarrShape(d) /\ d.size = n /\ cap \in Nat /\ (n < cap \/ (n = 0 /\ cap = 0))
  <2>1. CarrShape(q.c) /\ q.c.size = Len(t) /\ q.c.cap \in Nat
        /\ (Len(t) < q.c.cap \/ (Len(t) = 0 /\ q.c.cap = 0))
    BY <1>9, CarrHoldsParts
  <2> QED  BY <1>9, <2>1
<1>11. CarrHolds(z, s)
  <2>1. Cut(s, s, n) /\ n <= Len(s)
    BY <1>2, CutWhole
  <2> HIDE DEF n, d, cap
  <2> QED  BY <1>2, <1>10, <2>1, CarrRefilled DEF list
<1>12. z.size = n /\ z \in CarrRec
  BY <1>11 DEF CarrHolds, CarrShape
<1>13. r.c = [z EXCEPT !.size = n]
  BY <1>8, <1>10
<1> HIDE DEF z
<1>14. r.c = z
  BY <1>12, <1>13 DEF CarrRec
<1> QED  BY <1>11, <1>14

LEMMA CarrForgotten ==
    ASSUME NEW c, NEW s, CarrHolds(c, s)
    PROVE  CarrHolds(CarrForget(c), s)
<1> DEFINE C == c.cap
           b == c.begin
           S == Len(s)
           old == c.mem
           m == [i \in DOMAIN old |-> IF Live(c, i) THEN old[i] ELSE Junk]
<1>1. /\ CarrShape(c) /\ s \in Seq(Cell) /\ S \in Nat /\ c.size = S /\ C \in Nat /\ b \in Nat
      /\ c.end = At(b, S, C) /\ ((S < C /\ b < C) \/ (S = 0 /\ C = 0 /\ b = 0))
  BY CarrHoldsParts
<1>2. old \in Block(C) /\ c \in CarrRec
  BY <1>1, CarrParts
<1>3. CarrForget(c) = WithMem(c, m)
  BY DEF CarrForget, WithMem
<1> HIDE DEF C, b, S, old
<1>4. m \in Block(C)
  <2>1. DOMAIN old = 0 .. C - 1 /\ \A i \in 0 .. C - 1 : old[i] \in Cell
    BY <1>2 DEF Block
  <2>2. \A i \in 0 .. C - 1 : (IF Live(c, i) THEN old[i] ELSE Junk) \in Cell
    BY <2>1 DEF Cell
  <2> QED  BY <2>1, <2>2 DEF Block
<1>5. ASSUME NEW j \in 0 .. S - 1
      PROVE  m[At(b, j, C)] = old[At(b, j, C)]
  <2>1. j \in Nat /\ j <= c.size /\ j < c.size
    BY <1>1
  <2>2. Live(c, At(b, j, C))
    BY <1>1, <2>1, RankOf DEF Live, b, C
  <2>3. At(b, j, C) \in 0 .. C - 1
    BY <1>1 DEF At
  <2> QED  BY <1>2, <2>2, <2>3 DEF Block
<1> HIDE DEF m
<1> DEFINE y == WithMem(c, m)
<1>6. CarrShape(y) /\ y.mem = m /\ y.begin = b /\ y.size = S /\ y.cap = C
  <2>1. m \in Blocks
    BY <1>1, <1>4, ABlock
  <2>2. /\ y \in CarrRec /\ y.mem = m /\ y.begin = c.begin /\ y.size = c.size /\ y.cap = c.cap
        /\ y.end = c.end /\ y.sound = c.sound
    BY <1>2, <2>1 DEF WithMem, CarrRec
  <2> HIDE DEF y
  <2> QED  BY <1>1, <1>4, <2>2 DEF CarrShape, C, b
<1>7. \A j \in 0 .. S - 1 : s[j + 1] # Junk => m[At(b, j, C)] = s[j + 1]
  <2>1. \A j \in 0 .. S - 1 : s[j + 1] # Junk => old[At(b, j, C)] = s[j + 1]
    BY DEF CarrHolds, S, old, b, C
  <2> QED  BY <1>5, <2>1
<1> HIDE DEF y
<1>8. CarrHolds(y, s)
  BY <1>1, <1>6, <1>7 DEF CarrHolds, S
<1> QED  BY <1>3, <1>8 DEF y

LEMMA CarrBatchOfCells ==
    ASSUME NEW v \in CarrBatches
    PROVE  v \in Seq(Cell) /\ Len(v) > 0
<1>1. v \in Batches
  BY DEF CarrBatches, Batches
<1>2. (\E a \in Val : v = <<a>>) \/ (\E a, b \in Val : v = <<a, b>>)
  BY DEF CarrBatches
<1>3. ASSUME NEW a \in Val, v = <<a>>
      PROVE  Len(v) > 0
  BY <1>3
<1>4. ASSUME NEW a \in Val, NEW b \in Val, v = <<a, b>>
      PROVE  Len(v) > 0
  BY <1>4
<1>5. Len(v) > 0
  BY <1>2, <1>3, <1>4
<1> QED  BY <1>1, <1>5, BatchOfCells

LEMMA CarrReturned ==
    ASSUME NEW results, NEW wanted, \A r \in results : CarrGives(r, carrList, wanted), CarrReturns(results, wanted)
    PROVE  CarrHolds(carr, carrList)' /\ carrIts' = carrIts
<1>1. PICK r \in results :
        /\ carr' = CarrForget(r.c)
        /\ carrList' = IF r.ret = "STDESUCCESS" THEN wanted ELSE carrList
        /\ carrIts' = carrIts
  BY DEF CarrReturns
<1>2. CarrHolds(r.c, carrList')
  BY <1>1 DEF CarrGives
<1>3. CarrHolds(CarrForget(r.c), carrList')
  BY <1>2, CarrForgotten
<1> QED  BY <1>1, <1>3

LEMMA CarrInsertedAt ==
    ASSUME CarrHolds(carr, carrList), carrIts, NEW k \in 0 .. Len(carrList), NEW v \in CarrBatches, CarrInsertAt(k, v)
    PROVE  CarrHolds(carr, carrList)' /\ carrIts'
<1> DEFINE s == carrList
           t == CarrInserted(s, k, v)
<1>1. s \in Seq(Cell) /\ v \in Seq(Cell) /\ Len(v) > 0
  BY CarrHoldsParts, CarrBatchOfCells
<1>2. PICK r \in stdcarr_insert_n(carr, At(carr.begin, k, carr.cap), v) :
          /\ carr' = CarrForget(r.c)
          /\ IF r.ret = "STDESUCCESS"
             THEN /\ carrList' = t
                  /\ carrIts' = (carrIts /\ stdcarr_rank(r.c, r.it) = k)
             ELSE UNCHANGED <<carrList, carrIts>>
  BY DEF CarrInsertAt, stdcarr_get, stdcarr_low_forward, At
<1>3. WithIn(t, s, k, v)
  BY <1>1, IsWithIn DEF CarrInserted
<1> HIDE DEF t
<1>4. CarrGives(r, s, t)
  BY <1>1, <1>2, <1>3, CarrWritten
<1>5. r.ret = "STDESUCCESS" => stdcarr_rank(r.c, r.it) = k
  BY <1>1, <1>2, <1>3, CarrWritten
<1>6. CarrHolds(r.c, carrList')
  BY <1>2, <1>4 DEF CarrGives
<1>7. CarrHolds(CarrForget(r.c), carrList')
  BY <1>6, CarrForgotten
<1>8. carrIts'
  BY <1>2, <1>5, Zenon
<1> QED  BY <1>2, <1>7, <1>8

\* The cell n places behind the one of element k.
LEMMA Onward ==
    ASSUME NEW c, CarrShape(c), NEW k \in Nat, NEW n \in Nat, k + n <= c.size
    PROVE  stdcarr_low_forward(c, At(c.begin, k, c.cap), n) = At(c.begin, k + n, c.cap)
BY CarrParts DEF stdcarr_low_forward, At

\* The side that moves is one or the other.
LEMMA SideChosen ==
    ASSUME NEW c, NEW p, NEW n
    PROVE  STDCARR_ERS_SHIFT_RIGHT(c, p, n) \in BOOLEAN
<1>1. CASE p >= c.begin
  <2>1. STDCARR_ERS_SHIFT_RIGHT(c, p, n) = (p - c.begin < (c.size - n) \div 2)
    BY <1>1, Zenon DEF STDCARR_ERS_SHIFT_RIGHT
  <2> QED  BY <2>1
<1>2. CASE ~ (p >= c.begin)
  <2>1. STDCARR_ERS_SHIFT_RIGHT(c, p, n) = (c.end - p >= (c.size + n) \div 2)
    BY <1>2, Zenon DEF STDCARR_ERS_SHIFT_RIGHT
  <2> QED  BY <2>1
<1> QED  BY <1>1, <1>2

LEMMA CarrErasedAt ==
    ASSUME NEW c, NEW s, CarrHolds(c, s), NEW k \in Nat, NEW n \in Nat, k + n <= Len(s),
           NEW t, Without(t, s, k, n), NEW r \in stdcarr_erase_n(c, At(c.begin, k, c.cap), n)
    PROVE  CarrGives(r, s, t)
<1> DEFINE p == At(c.begin, k, c.cap)
           right == STDCARR_ERS_SHIFT_RIGHT(c, p, n)
           it == IF right THEN p ELSE stdcarr_low_forward(c, p, n)
<1>1. r \in stdcarr_low_erase_shift(c, it, n, right) /\ right \in BOOLEAN
  BY SideChosen DEF stdcarr_erase_n
<1>2. it = IF right THEN At(c.begin, k, c.cap) ELSE At(c.begin, k + n, c.cap)
  <2>1. CarrShape(c) /\ c.size = Len(s)
    BY CarrHoldsParts
  <2>2. stdcarr_low_forward(c, p, n) = At(c.begin, k + n, c.cap)
    BY <2>1, Onward
  <2> HIDE DEF right
  <2> QED  BY <2>2, Zenon
<1> HIDE DEF it, right
<1> QED  BY <1>1, <1>2, GapClosed

\* n elements taken from the front, and from the back.
LEMMA FrontErased ==
    ASSUME NEW c, NEW s, CarrHolds(c, s), NEW n \in Nat, n <= Len(s),
           NEW t, Without(t, s, 0, n), NEW r \in stdcarr_pop_front_n(c, n)
    PROVE  CarrGives(r, s, t)
<1> DEFINE k == 0
           it == c.begin
           right == TRUE
<1>1. r \in stdcarr_low_erase_shift(c, it, n, right)
  BY DEF stdcarr_pop_front_n
<1>2. it = IF right THEN At(c.begin, k, c.cap) ELSE At(c.begin, k + n, c.cap)
  BY CarrHoldsParts, Ends
<1>3. k \in Nat /\ k + n <= Len(s) /\ right \in BOOLEAN /\ Without(t, s, k, n)
  OBVIOUS
<1> HIDE DEF k, it, right
<1> QED  BY <1>1, <1>2, <1>3, GapClosed

LEMMA BackErased ==
    ASSUME NEW c, NEW s, CarrHolds(c, s), NEW k \in Nat, NEW n \in Nat, k + n = Len(s),
           NEW t, Without(t, s, k, n), NEW r \in stdcarr_pop_back_n(c, n)
    PROVE  CarrGives(r, s, t)
<1> DEFINE it == c.end
           right == FALSE
<1>1. r \in stdcarr_low_erase_shift(c, it, n, right)
  BY DEF stdcarr_pop_back_n
<1>2. it = IF right THEN At(c.begin, k, c.cap) ELSE At(c.begin, k + n, c.cap)
  BY CarrHoldsParts, Ends
<1>3. k + n <= Len(s) /\ right \in BOOLEAN
  BY CarrHoldsParts
<1> HIDE DEF it, right
<1> QED  BY <1>1, <1>2, <1>3, GapClosed

\* Every call keeps the elements in order, and its iterators right.
LEMMA CarrStep ==
    ASSUME CarrHolds(carr, carrList), carrIts, CarrNext
    PROVE  CarrHolds(carr, carrList)' /\ carrIts'
<1> DEFINE s == carrList
<1>1. /\ s \in Seq(Cell) /\ Len(s) \in Nat /\ carr.size = Len(s) /\ CarrHolds(carr, s) /\ carr.opts \in CarrOpts
      /\ CarrShape(carr)
  BY CarrHoldsParts
<1>2. CASE CarrInsert
  <2>1. PICK k \in 0 .. Len(s), v \in CarrBatches : CarrInsertAt(k, v)
    BY <1>1, <1>2 DEF CarrInsert
  <2> QED  BY <2>1, CarrInsertedAt
<1>3. CASE CarrPushFront
  <2> DEFINE k == 0
  <2>1. PICK v \in CarrBatches : CarrInsertAt(k, v)
    BY <1>3 DEF CarrPushFront
  <2>2. k \in 0 .. Len(s)
    BY <1>1
  <2> HIDE DEF k
  <2> QED  BY <2>1, <2>2, CarrInsertedAt
<1>4. CASE CarrPushBack
  <2> DEFINE k == carr.size
  <2>1. PICK v \in CarrBatches : CarrInsertAt(k, v)
    BY <1>4 DEF CarrPushBack
  <2>2. k \in 0 .. Len(s)
    BY <1>1
  <2> HIDE DEF k
  <2> QED  BY <2>1, <2>2, CarrInsertedAt
<1>5. CASE CarrErase
  <2>1. PICK k \in 0 .. Len(s) : \E n \in 0 .. Len(s) - k :
          CarrReturns(stdcarr_erase_n(carr, stdcarr_get(carr, k), n), CarrErased(carrList, k, n))
    BY <1>1, <1>5 DEF CarrErase
  <2>2. PICK n \in 0 .. Len(s) - k :
          CarrReturns(stdcarr_erase_n(carr, stdcarr_get(carr, k), n), CarrErased(carrList, k, n))
    BY <2>1
  <2>3. k \in Nat /\ n \in Nat /\ k + n <= Len(s)
    BY <1>1
  <2>4. Without(CarrErased(carrList, k, n), s, k, n)
    BY <1>1, <2>3, IsWithout DEF CarrErased
  <2>5. stdcarr_get(carr, k) = At(carr.begin, k, carr.cap)
    BY DEF stdcarr_get, stdcarr_low_forward, At
  <2>6. \A r \in stdcarr_erase_n(carr, stdcarr_get(carr, k), n) : CarrGives(r, carrList, CarrErased(carrList, k, n))
    BY <2>3, <2>4, <2>5, CarrErasedAt
  <2> QED  BY <2>2, <2>6, CarrReturned
<1>6. CASE CarrPopFront
  <2> DEFINE k == 0
  <2>1. PICK n \in 1 .. Len(s) : CarrReturns(stdcarr_pop_front_n(carr, n), CarrErased(carrList, 0, n))
    BY <1>1, <1>6 DEF CarrPopFront
  <2>2. k \in Nat /\ n \in Nat /\ n <= Len(s) /\ k + n <= Len(s)
    BY <1>1
  <2> HIDE DEF k
  <2>3. Without(CarrErased(carrList, k, n), s, k, n)
    BY <1>1, <2>2, IsWithout DEF CarrErased
  <2> USE DEF k
  <2>4. \A r \in stdcarr_pop_front_n(carr, n) : CarrGives(r, carrList, CarrErased(carrList, 0, n))
    BY <2>2, <2>3, FrontErased
  <2> QED  BY <2>1, <2>4, CarrReturned
<1>7. CASE CarrPopBack
  <2>1. PICK n \in 1 .. Len(s) : CarrReturns(stdcarr_pop_back_n(carr, n), CarrErased(carrList, Len(s) - n, n))
    BY <1>1, <1>7 DEF CarrPopBack
  <2> DEFINE k == Len(s) - n
  <2>2. k \in Nat /\ n \in Nat /\ k + n = Len(s) /\ k + n <= Len(s)
    BY <1>1
  <2> HIDE DEF k
  <2>3. Without(CarrErased(carrList, k, n), s, k, n)
    BY <1>1, <2>2, IsWithout DEF CarrErased
  <2>4. \A r \in stdcarr_pop_back_n(carr, n) : CarrGives(r, carrList, CarrErased(carrList, k, n))
    BY <2>2, <2>3, BackErased
  <2> QED  BY <2>1, <2>4, CarrReturned DEF k
<1>8. CASE CarrResize
  <2>1. PICK n \in 0 .. CarrMaxSize : CarrReturns(stdcarr_resize(carr, n), CarrPrefix(carrList, n))
    BY <1>8 DEF CarrResize
  <2>2. n \in Nat /\ Cut(CarrPrefix(carrList, n), s, n)
    BY <1>1, CarrAssumption, IsCut DEF CarrPrefix
  <2>3. \A r \in stdcarr_resize(carr, n) : CarrGives(r, carrList, CarrPrefix(carrList, n))
    BY <2>2, CarrResized
  <2> QED  BY <2>1, <2>3, CarrReturned
<1>9. CASE CarrSetCapacity
  <2>1. PICK n \in 0 .. CarrMaxSize :
          CarrReturns(stdcarr_set_capacity(carr, n), CarrPrefix(carrList, Smaller(n, Len(carrList))))
    BY <1>9 DEF CarrSetCapacity
  <2> DEFINE t == CarrPrefix(carrList, Smaller(n, Len(carrList)))
  <2>2. n \in Nat /\ Cut(t, s, Smaller(n, Len(s)))
    BY <1>1, CarrAssumption, Shorter, IsCut DEF CarrPrefix
  <2> HIDE DEF t
  <2>3. \A r \in stdcarr_set_capacity(carr, n) : CarrGives(r, carrList, t)
    BY <2>2, CarrRecap
  <2> QED  BY <2>1, <2>3, CarrReturned DEF t
<1>10. CASE CarrReserve
  <2>1. PICK n \in 0 .. CarrMaxSize : CarrReturns(stdcarr_reserve(carr, n), carrList)
    BY <1>10 DEF CarrReserve
  <2>2. n \in Nat
    BY CarrAssumption
  <2>3. \A r \in stdcarr_reserve(carr, n) : CarrGives(r, carrList, carrList)
    BY <2>2, CarrReserved
  <2> QED  BY <2>1, <2>3, CarrReturned
<1>11. CASE stdcarr_set_opts
  <2>1. PICK opts \in CarrOpts : carr' = [carr EXCEPT !.opts = opts] /\ carrList' = carrList /\ carrIts' = carrIts
    BY <1>11 DEF stdcarr_set_opts
  <2>2. /\ carr' \in CarrRec /\ carr'.mem = carr.mem /\ carr'.begin = carr.begin /\ carr'.end = carr.end
        /\ carr'.size = carr.size /\ carr'.cap = carr.cap /\ carr'.sound = carr.sound
    BY <1>1, <2>1 DEF CarrShape, CarrRec
  <2>3. CarrShape(carr')
    BY <1>1, <2>2 DEF CarrShape
  <2> QED  BY <1>1, <2>1, <2>2, <2>3 DEF CarrHolds
<1>12. CASE CarrCopy
  <2>1. CASE CarrReturns({CarrResult(stdcarr_copy_construct(carr), 0, "STDESUCCESS")}, carrList)
    <3>1. CarrHolds(stdcarr_copy_construct(carr), carrList)
      BY CarrCopied
    <3>2. \A r \in {CarrResult(stdcarr_copy_construct(carr), 0, "STDESUCCESS")} : CarrGives(r, carrList, carrList)
      BY <3>1 DEF CarrGives, CarrResult
    <3> QED  BY <2>1, <3>2, CarrReturned
  <2>2. CASE \E n \in 0 .. CarrMaxSize :
               \E r \in stdcarr_reserve(stdcarr_construct(carr.opts), n) :
                 CarrReturns({q \in stdcarr_set_eq(r.c, carr) : q.ret = "STDESUCCESS"}, carrList)
    <3>1. PICK n \in 0 .. CarrMaxSize :
               \E r \in stdcarr_reserve(stdcarr_construct(carr.opts), n) :
                 CarrReturns({q \in stdcarr_set_eq(r.c, carr) : q.ret = "STDESUCCESS"}, carrList)
      BY <2>2
    <3>2. PICK r \in stdcarr_reserve(stdcarr_construct(carr.opts), n) :
                 CarrReturns({q \in stdcarr_set_eq(r.c, carr) : q.ret = "STDESUCCESS"}, carrList)
      BY <3>1
    <3>3. n \in Nat /\ CarrHolds(stdcarr_construct(carr.opts), << >>)
      BY <1>1, CarrAssumption, CarrConstructed
    <3>4. CarrGives(r, << >>, << >>)
      BY <3>2, <3>3, CarrReserved
    <3>5. CarrHolds(r.c, << >>)
      BY <3>4 DEF CarrGives
    <3>6. \A q \in {q \in stdcarr_set_eq(r.c, carr) : q.ret = "STDESUCCESS"} : CarrGives(q, carrList, carrList)
      BY <1>1, <3>5, CarrAssigned DEF CarrGives
    <3> QED  BY <3>2, <3>6, CarrReturned
  <2> QED  BY <1>12, <2>1, <2>2 DEF CarrCopy
<1> QED  BY <1>2, <1>3, <1>4, <1>5, <1>6, <1>7, <1>8, <1>9, <1>10, <1>11, <1>12 DEF CarrNext

LEMMA CarrInitially == CarrInit => CarrHolds(carr, carrList) /\ carrIts
BY CarrConstructed DEF CarrInit

\* The distance of two iterators is that of their elements.
LEMMA Distance ==
    ASSUME NEW c, CarrShape(c), NEW j \in Nat, j <= c.size, NEW k \in Nat, k <= c.size
    PROVE  stdcarr_it_cmp(c, At(c.begin, j, c.cap), At(c.begin, k, c.cap)) = j - k
<1> DEFINE C == c.cap
           b == c.begin
           f == At(b, j, C)
           g == At(b, k, C)
<1>1. /\ C \in Nat /\ b \in Nat /\ c.size \in Nat
      /\ (c.size < C /\ b < C) \/ (c.size = 0 /\ C = 0 /\ b = 0)
  BY CarrParts
<1>2. CASE C = 0
  <2>1. f = 0 /\ g = 0 /\ b = 0 /\ j = 0 /\ k = 0
    BY <1>1, <1>2 DEF At
  <2> HIDE DEF f, g
  <2>2. stdcarr_it_cmp(c, f, g) = f - g
    BY <2>1 DEF stdcarr_it_cmp
  <2> QED  BY <2>1, <2>2 DEF f, g
<1>3. CASE C # 0
  <2>1. j < C /\ k < C /\ b < C
    BY <1>1, <1>3
  <2> HIDE DEF C, b
  <2>2. CASE b + j < C /\ b + k < C
    <3>1. f = b + j /\ g = b + k /\ f >= b /\ g >= b
      BY <1>1, <2>2 DEF At
    <3> HIDE DEF f, g
    <3>2. stdcarr_it_cmp(c, f, g) = f - g
      BY <3>1 DEF stdcarr_it_cmp, b
    <3> QED  BY <1>1, <3>1, <3>2 DEF f, g, b, C
  <2>3. CASE b + j < C /\ ~ (b + k < C)
    <3>1. f = b + j /\ g = b + k - C /\ f >= b /\ ~ (g >= b) /\ C \in Int
      BY <1>1, <2>1, <2>3 DEF At
    <3> HIDE DEF f, g
    <3>2. stdcarr_it_cmp(c, f, g) = (f - C) + (0 - g)
      BY <3>1 DEF stdcarr_it_cmp, b, C
    <3>3. stdcarr_it_cmp(c, f, g) = j - k
      BY <1>1, <3>1, <3>2
    <3> QED  BY <3>3 DEF f, g, b, C
  <2>4. CASE ~ (b + j < C) /\ b + k < C
    <3>1. f = b + j - C /\ g = b + k /\ ~ (f >= b) /\ g >= b
      BY <1>1, <2>1, <2>4 DEF At
    <3> HIDE DEF f, g
    <3>2. stdcarr_it_cmp(c, f, g) = (C - g) + f
      BY <3>1 DEF stdcarr_it_cmp, b, C
    <3>3. stdcarr_it_cmp(c, f, g) = j - k
      BY <1>1, <3>1, <3>2
    <3> QED  BY <3>3 DEF f, g, b, C
  <2>5. CASE ~ (b + j < C) /\ ~ (b + k < C)
    <3>1. f = b + j - C /\ g = b + k - C /\ ~ (f >= b) /\ ~ (g >= b)
      BY <1>1, <2>1, <2>5 DEF At
    <3> HIDE DEF f, g
    <3>2. stdcarr_it_cmp(c, f, g) = f - g
      BY <3>1 DEF stdcarr_it_cmp, b
    <3>3. stdcarr_it_cmp(c, f, g) = j - k
      BY <1>1, <3>1, <3>2
    <3> QED  BY <3>3 DEF f, g, b, C
  <2> QED  BY <2>2, <2>3, <2>4, <2>5
<1> QED  BY <1>2, <1>3

LEMMA CarrIsRight ==
    ASSUME CarrHolds(carr, carrList), carrIts
    PROVE  CarrRight /\ CopiesSound
<1>1. /\ CarrShape(carr) /\ Len(carrList) \in Nat /\ carr.size = Len(carrList)
      /\ carr.end = At(carr.begin, Len(carrList), carr.cap)
      /\ carr.size < carr.cap \/ (carr.size = 0 /\ carr.cap = 0)
  BY CarrHoldsParts
<1>2. \A k : stdcarr_get(carr, k) = At(carr.begin, k, carr.cap)
  BY DEF stdcarr_get, stdcarr_low_forward, At
<1>3. \A k \in 0 .. carr.size - 1 :
        carrList[k + 1] # Junk => carr.mem[stdcarr_get(carr, k)] = carrList[k + 1]
  BY <1>1, <1>2 DEF CarrHolds
<1>4. ASSUME NEW j \in 0 .. carr.size, NEW k \in 0 .. carr.size
      PROVE  /\ stdcarr_rank(carr, stdcarr_get(carr, k)) = k
             /\ stdcarr_it_cmp(carr, stdcarr_get(carr, j), stdcarr_get(carr, k)) = j - k
  <2>1. j \in Nat /\ k \in Nat /\ j <= carr.size /\ k <= carr.size
    BY <1>1
  <2>2. stdcarr_rank(carr, At(carr.begin, k, carr.cap)) = k
    BY <1>1, <2>1, RankOf
  <2>3. stdcarr_it_cmp(carr, At(carr.begin, j, carr.cap), At(carr.begin, k, carr.cap)) = j - k
    BY <1>1, <2>1, Distance
  <2> QED  BY <1>2, <2>2, <2>3
<1>5. CopiesSound
  BY <1>1 DEF CarrShape, CopiesSound
<1> QED  BY <1>1, <1>2, <1>3, <1>4, <1>5 DEF CarrRight

-----------------------------------------------------------------------------
(***************************************************************************)
(* Both arrays.                                                            *)
(***************************************************************************)
ArraysInv ==
    /\ Holds(arr, arrList)
    /\ CarrHolds(carr, carrList)
    /\ carrIts

LEMMA ArraysStep ==
    ASSUME ArraysInv, [ArraysNext]_arraysVars
    PROVE  ArraysInv'
<1>1. CASE ArrNext /\ UNCHANGED carrVars
  <2>1. Holds(arr, arrList)'
    BY <1>1, ArrStep DEF ArraysInv
  <2> QED  BY <1>1, <2>1 DEF ArraysInv, carrVars
<1>2. CASE CarrNext /\ UNCHANGED arrVars
  <2>1. CarrHolds(carr, carrList)' /\ carrIts'
    BY <1>2, CarrStep DEF ArraysInv
  <2> QED  BY <1>2, <2>1 DEF ArraysInv, arrVars
<1>3. CASE UNCHANGED arraysVars
  BY <1>3 DEF ArraysInv, arraysVars, arrVars, carrVars
<1> QED  BY <1>1, <1>2, <1>3 DEF ArraysNext

(***************************************************************************)
(* Both arrays hold exactly the elements their client asked for, in order, *)
(* and the iterators of the circular one count them: whatever stdarr.c and *)
(* stdcarr.c insert, erase, grow, shrink or copy, whichever allocations    *)
(* fail, and for every size, minimal block and element.                    *)
(***************************************************************************)
THEOREM ArraysHold == ArraysSpec => []ArraysRight
<1>1. ArrInit /\ CarrInit => ArraysInv
  BY ArrInitially, CarrInitially DEF ArraysInv
<1>2. ArraysInv /\ [ArraysNext]_arraysVars => ArraysInv'
  BY ArraysStep
<1>3. ArraysInv => ArraysRight
  BY ArrHolds, CarrIsRight DEF ArraysInv, ArraysRight
<1> QED  BY <1>1, <1>2, <1>3, PTL DEF ArraysSpec

(***************************************************************************)
(* No copy of stdcarr.c leaves its block, and what its shifts copy with    *)
(* memcpy never overlaps, wherever the elements lie and wherever the gap   *)
(* is: the arithmetic of stdcarr_low_insert_shift_* and _erase_shift_*.    *)
(***************************************************************************)
THEOREM CopiesStayInside == ArraysSpec => []CopiesSound
<1>1. ArrInit /\ CarrInit => ArraysInv
  BY ArrInitially, CarrInitially DEF ArraysInv
<1>2. ArraysInv /\ [ArraysNext]_arraysVars => ArraysInv'
  BY ArraysStep
<1>3. ArraysInv => CopiesSound
  BY CarrIsRight DEF ArraysInv
<1> QED  BY <1>1, <1>2, <1>3, PTL DEF ArraysSpec
=============================================================================

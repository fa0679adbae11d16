-------------------------- MODULE DmxSection_proofs --------------------------
(****************************************************************************)
(* Proofs about DmxSection for every size of the buffer, every set of       *)
(* lengths and every number of sections and tries, where no overflow falls  *)
(* into a read (~ResetsMeetReads; with one, WholeSections is false).        *)
(*                                                                          *)
(* Whole says of each cell what follows it.  That cannot be cut and joined  *)
(* without an induction over the cells; Parts says the same of each cell and *)
(* the whole section it is in, by its position, and can.                    *)
(****************************************************************************)
EXTENDS DmxSection, TLAPS

\* Each of the first d cells of h lies in its section, which lies in h.
Parts(h, d) ==
    \A k \in 1..d :
        /\ h[k] \in Cell
        /\ h[k].i <= h[k].len /\ h[k].i <= k /\ k - h[k].i + h[k].len <= d
        /\ \A j \in 1..h[k].len :
             h[k - h[k].i + j] = [n |-> h[k].n, len |-> h[k].len, i |-> j]

\* Numbers rise along h, and cells of one number are in one section.
Ordered(h, d) ==
    \A k, l \in 1..d : k <= l =>
        /\ h[k].n <= h[l].n
        /\ h[k].n = h[l].n => k - h[k].i = l - h[l].i

Before(h, d, m) == \A k \in 1..d : h[k].n < m

\* A section ends at the w-th cell.
Boundary(h, d, w) == w \in 1..d /\ h[w].i = h[w].len

-----------------------------------------------------------------------------
LEMMA CellFields ==
    ASSUME Bounds, NEW c \in Cell
    PROVE  /\ c.n \in Nat /\ c.len \in Nat /\ c.len \in 1..Cap /\ c.i \in Nat /\ c.i \in 1..Cap
           /\ c = [n |-> c.n, len |-> c.len, i |-> c.i]
<1>1. /\ c.n \in 0..MaxSec /\ c.len \in Lens /\ c.i \in 1..Cap
      /\ c = [n |-> c.n, len |-> c.len, i |-> c.i]
  BY DEF Cell
<1>2. Lens \subseteq 1..Cap /\ Cap \in Nat /\ MaxSec \in Nat
  BY DEF Bounds
<1> QED
  BY <1>1, <1>2

\* Cells in the range of the k-th cell's section are cells of that section.
LEMMA InSection ==
    ASSUME Bounds, NEW d \in Nat, NEW h, Parts(h, d), NEW k \in 1..d, NEW l \in 1..d,
           k - h[k].i < l, l <= k - h[k].i + h[k].len
    PROVE  /\ h[l].n = h[k].n /\ h[l].len = h[k].len
           /\ h[l].i = l - (k - h[k].i)
<1> DEFINE j == l - (k - h[k].i)
<1>1. h[k] \in Cell
  BY DEF Parts
<1>2. h[k].i \in Nat /\ h[k].len \in Nat
  BY <1>1, CellFields
<1>3. j \in 1..h[k].len /\ k - h[k].i + j = l
  BY <1>2
<1>4. h[k - h[k].i + j] = [n |-> h[k].n, len |-> h[k].len, i |-> j]
  BY <1>3 DEF Parts
<1> QED
  BY <1>3, <1>4

\* What follows a boundary is of later sections than what precedes it.
LEMMA AcrossBoundary ==
    ASSUME Bounds, NEW d \in Nat, NEW h, Parts(h, d), Ordered(h, d),
           NEW w, Boundary(h, d, w), NEW k \in 1..w, NEW l \in (w + 1)..d
    PROVE  h[k].n < h[l].n
<1>1. w \in 1..d /\ k \in 1..d /\ l \in 1..d /\ h[w].i = h[w].len
  BY DEF Boundary
<1>2. h[k] \in Cell /\ h[l] \in Cell /\ h[w] \in Cell
  BY <1>1 DEF Parts
<1>3. /\ h[k].n \in Nat /\ h[l].n \in Nat /\ h[w].n \in Nat
      /\ h[k].i \in Nat /\ h[k].i >= 1
      /\ h[l].i \in Nat /\ h[l].len \in Nat /\ h[w].i \in Nat
  BY <1>2, CellFields
<1>4. h[k].n <= h[l].n /\ (h[k].n = h[l].n => k - h[k].i = l - h[l].i)
  BY <1>1 DEF Ordered
<1>5. ASSUME h[k].n = h[l].n
      PROVE  FALSE
  <2>1. k - h[k].i = l - h[l].i
    BY <1>4, <1>5
  <2>2. h[l].i <= h[l].len
    BY <1>1 DEF Parts
  <2>3. l - h[l].i < w /\ w <= l - h[l].i + h[l].len
    BY <1>1, <1>3, <2>1, <2>2
  <2>4. h[w].len = h[l].len /\ h[w].i = w - (l - h[l].i)
    BY <1>1, <2>3, InSection
  <2> QED
    BY <1>1, <1>3, <2>2, <2>4
<1> QED
  BY <1>3, <1>4, <1>5

\* Cut at a boundary, what is taken is whole sections (aui_common_ring_buf_rd) ...
LEMMA PartsTaken ==
    ASSUME Bounds, NEW d \in Nat, NEW h, Parts(h, d),
           NEW w, Boundary(h, d, w),
           NEW p, \A k \in 1..w : p[k] = h[k]
    PROVE  Parts(p, w)
<1>1. w \in 1..d /\ h[w].i = h[w].len
  BY DEF Boundary
<1> SUFFICES ASSUME NEW k \in 1..w
             PROVE  /\ p[k] \in Cell
                    /\ p[k].i <= p[k].len /\ p[k].i <= k /\ k - p[k].i + p[k].len <= w
                    /\ \A j \in 1..p[k].len :
                         p[k - p[k].i + j] = [n |-> p[k].n, len |-> p[k].len, i |-> j]
  BY DEF Parts
<1>2. p[k] = h[k] /\ k \in 1..d
  BY <1>1
<1>3. /\ h[k] \in Cell
      /\ h[k].i <= h[k].len /\ h[k].i <= k /\ k - h[k].i + h[k].len <= d
      /\ \A j \in 1..h[k].len :
           h[k - h[k].i + j] = [n |-> h[k].n, len |-> h[k].len, i |-> j]
  BY <1>2 DEF Parts
<1>4. h[k].i \in Nat /\ h[k].len \in Nat /\ h[k].i >= 1
  BY <1>3, CellFields
<1>5. k - h[k].i + h[k].len <= w
  <2>1. SUFFICES ASSUME k - h[k].i + h[k].len > w
                 PROVE  FALSE
    BY <1>1, <1>4
  <2>2. k - h[k].i < w /\ w <= k - h[k].i + h[k].len
    BY <1>1, <1>4, <2>1
  <2>3. h[w].len = h[k].len /\ h[w].i = w - (k - h[k].i)
    BY <1>1, <1>2, <2>2, InSection
  <2> QED
    BY <1>1, <1>4, <2>1, <2>3
<1>6. ASSUME NEW j \in 1..h[k].len
      PROVE  p[k - h[k].i + j] = [n |-> h[k].n, len |-> h[k].len, i |-> j]
  <2>1. k - h[k].i + j \in 1..w
    BY <1>1, <1>3, <1>4, <1>5
  <2> QED
    BY <1>3, <2>1
<1> QED
  BY <1>2, <1>3, <1>5, <1>6

\* ... and so is what is left.
LEMMA PartsLeft ==
    ASSUME Bounds, NEW d \in Nat, NEW h, Parts(h, d), Ordered(h, d),
           NEW w, Boundary(h, d, w),
           NEW p, \A k \in 1..(d - w) : p[k] = h[k + w]
    PROVE  Parts(p, d - w) /\ Ordered(p, d - w)
<1>1. w \in 1..d /\ h[w].i = h[w].len
  BY DEF Boundary
<1>2. Parts(p, d - w)
  <2> SUFFICES ASSUME NEW k \in 1..(d - w)
               PROVE  /\ p[k] \in Cell
                      /\ p[k].i <= p[k].len /\ p[k].i <= k /\ k - p[k].i + p[k].len <= d - w
                      /\ \A j \in 1..p[k].len :
                           p[k - p[k].i + j] = [n |-> p[k].n, len |-> p[k].len, i |-> j]
    BY DEF Parts
  <2> DEFINE m == k + w
  <2>2. p[k] = h[m] /\ m \in 1..d /\ m = k + w
    BY <1>1
  <2> HIDE DEF m
  <2>3. /\ h[m] \in Cell
        /\ h[m].i <= h[m].len /\ h[m].i <= m /\ m - h[m].i + h[m].len <= d
        /\ \A j \in 1..h[m].len :
             h[m - h[m].i + j] = [n |-> h[m].n, len |-> h[m].len, i |-> j]
    BY <2>2 DEF Parts
  <2>4. h[m].i \in Nat /\ h[m].len \in Nat /\ h[m].i >= 1
    BY <2>3, CellFields
  <2>5. h[m].i <= k
    <3>1. SUFFICES ASSUME h[m].i > k
                   PROVE  FALSE
      BY <2>4
    <3>2. m - h[m].i < w /\ w <= m - h[m].i + h[m].len
      BY <1>1, <2>2, <2>3, <2>4, <3>1
    <3>3. h[w].len = h[m].len /\ h[w].i = w - (m - h[m].i)
      BY <1>1, <2>2, <3>2, InSection
    <3> QED
      BY <1>1, <2>2, <2>3, <2>4, <3>3
  <2>6. ASSUME NEW j \in 1..h[m].len
        PROVE  p[k - h[m].i + j] = [n |-> h[m].n, len |-> h[m].len, i |-> j]
    <3> DEFINE q == k - h[m].i + j
    <3>1. q \in 1..(d - w) /\ q + w = m - h[m].i + j
      BY <1>1, <2>2, <2>3, <2>4, <2>5
    <3>2. p[q] = h[q + w]
      BY <3>1
    <3> QED
      BY <2>3, <3>1, <3>2
  <2> QED
    BY <1>1, <2>2, <2>3, <2>4, <2>5, <2>6
<1>3. Ordered(p, d - w)
  <2> SUFFICES ASSUME NEW k \in 1..(d - w), NEW l \in 1..(d - w), k <= l
               PROVE  /\ p[k].n <= p[l].n
                      /\ p[k].n = p[l].n => k - p[k].i = l - p[l].i
    BY DEF Ordered
  <2>1. p[k] = h[k + w] /\ p[l] = h[l + w] /\ k + w \in 1..d /\ l + w \in 1..d /\ k + w <= l + w
    BY <1>1
  <2>2. /\ h[k + w].n <= h[l + w].n
        /\ h[k + w].n = h[l + w].n => (k + w) - h[k + w].i = (l + w) - h[l + w].i
    BY <2>1 DEF Ordered
  <2>3. h[k + w].i \in Nat /\ h[l + w].i \in Nat
    <3>1. h[k + w] \in Cell /\ h[l + w] \in Cell
      BY <2>1 DEF Parts
    <3> QED
      BY <3>1, CellFields
  <2> QED
    BY <1>1, <2>1, <2>2, <2>3
<1> QED
  BY <1>2, <1>3

\* A section put behind whole sections (aui_common_ring_buf_wt).
LEMMA PartsAppended ==
    ASSUME Bounds, NEW d \in Nat, NEW h, Parts(h, d), Ordered(h, d),
           NEW m \in 0..MaxSec, NEW len \in Lens, Before(h, d, m),
           NEW p, \A k \in 1..d : p[k] = h[k],
           \A j \in 1..len : p[d + j] = [n |-> m, len |-> len, i |-> j]
    PROVE  Parts(p, d + len) /\ Ordered(p, d + len)
<1>1. len \in Nat /\ len \in 1..Cap /\ m \in Nat
  BY DEF Bounds
<1>2. ASSUME NEW k \in 1..d
      PROVE  /\ p[k] = h[k] /\ h[k] \in Cell
             /\ h[k].i <= h[k].len /\ h[k].i <= k /\ k - h[k].i + h[k].len <= d
             /\ h[k].i \in Nat /\ h[k].len \in Nat /\ h[k].i >= 1 /\ h[k].n \in Nat /\ h[k].n < m
  <2>1. /\ h[k] \in Cell
        /\ h[k].i <= h[k].len /\ h[k].i <= k /\ k - h[k].i + h[k].len <= d
    BY DEF Parts
  <2> QED
    BY <2>1, CellFields DEF Before
<1>3. ASSUME NEW k \in (d + 1)..(d + len)
      PROVE  p[k].n = m /\ p[k].len = len /\ p[k].i = k - d /\ p[k] \in Cell
  <2>1. k - d \in 1..len /\ d + (k - d) = k
    BY <1>1
  <2>2. p[k] = [n |-> m, len |-> len, i |-> k - d]
    BY <2>1
  <2>3. k - d \in 1..Cap
    BY <1>1, <2>1 DEF Bounds
  <2> QED
    BY <2>2, <2>3 DEF Cell
<1>4. Parts(p, d + len)
  <2> SUFFICES ASSUME NEW k \in 1..(d + len)
               PROVE  /\ p[k] \in Cell
                      /\ p[k].i <= p[k].len /\ p[k].i <= k /\ k - p[k].i + p[k].len <= d + len
                      /\ \A j \in 1..p[k].len :
                           p[k - p[k].i + j] = [n |-> p[k].n, len |-> p[k].len, i |-> j]
    BY DEF Parts
  <2>1. CASE k \in 1..d
    <3>1. ASSUME NEW j \in 1..h[k].len
          PROVE  p[k - h[k].i + j] = [n |-> h[k].n, len |-> h[k].len, i |-> j]
      <4>1. h[k - h[k].i + j] = [n |-> h[k].n, len |-> h[k].len, i |-> j]
        BY <2>1 DEF Parts
      <4>2. k - h[k].i + j \in 1..d
        BY <1>2, <2>1
      <4> QED
        BY <4>1, <4>2
    <3> QED
      BY <1>1, <1>2, <2>1, <3>1
  <2>2. CASE k \in (d + 1)..(d + len)
    <3>1. p[k].n = m /\ p[k].len = len /\ p[k].i = k - d /\ p[k] \in Cell
      BY <1>3, <2>2
    <3>2. k - p[k].i = d
      BY <1>1, <2>2, <3>1
    <3> QED
      BY <1>1, <2>2, <3>1, <3>2
  <2> QED
    BY <1>1, <2>1, <2>2
<1>5. Ordered(p, d + len)
  <2> SUFFICES ASSUME NEW k \in 1..(d + len), NEW l \in 1..(d + len), k <= l
               PROVE  /\ p[k].n <= p[l].n
                      /\ p[k].n = p[l].n => k - p[k].i = l - p[l].i
    BY DEF Ordered
  <2>1. CASE l \in 1..d
    BY <1>2, <2>1 DEF Ordered
  <2>2. CASE k \in (d + 1)..(d + len)
    <3>1. p[k].n = m /\ p[k].i = k - d /\ p[l].n = m /\ p[l].i = l - d
      BY <1>1, <1>3, <2>2
    <3> QED
      BY <1>1, <2>2, <3>1
  <2>3. CASE k \in 1..d /\ l \in (d + 1)..(d + len)
    BY <1>1, <1>2, <1>3, <2>3
  <2> QED
    BY <1>1, <2>1, <2>2, <2>3
<1> QED
  BY <1>4, <1>5

LEMMA PartsAreWhole ==
    ASSUME Bounds, NEW d \in Nat, NEW s, Len(s) = d, s # <<>> => d > 0, Parts(s, d)
    PROVE  Whole(s)
<1>1. ASSUME s # <<>>
      PROVE  s[1].i = 1 /\ s[Len(s)].i = s[Len(s)].len
  <2>1. 1 \in 1..d /\ d \in 1..d
    BY <1>1
  <2>2. s[1] \in Cell /\ s[1].i <= 1 /\ s[d] \in Cell /\ s[d].i <= s[d].len /\ d - s[d].i + s[d].len <= d
    BY <2>1 DEF Parts
  <2>3. s[1].i \in Nat /\ s[1].i >= 1 /\ s[d].i \in Nat /\ s[d].len \in Nat
    BY <2>2, CellFields
  <2> QED
    BY <2>2, <2>3
<1>2. ASSUME NEW k \in 1..(Len(s) - 1)
      PROVE  IF s[k].i = s[k].len THEN s[k + 1].i = 1
             ELSE s[k + 1] = [s[k] EXCEPT !.i = @ + 1]
  <2>1. k \in 1..d /\ k + 1 \in 1..d
    OBVIOUS
  <2>2. s[k] \in Cell /\ s[k + 1] \in Cell /\ s[k].i <= s[k].len
    BY <2>1 DEF Parts
  <2>3. /\ s[k].i \in Nat /\ s[k].len \in Nat /\ s[k].i >= 1
        /\ s[k + 1].i \in Nat /\ s[k + 1].len \in Nat /\ s[k + 1].i >= 1
        /\ s[k] = [n |-> s[k].n, len |-> s[k].len, i |-> s[k].i]
    BY <2>2, CellFields
  <2>4. CASE s[k].i = s[k].len
    <3>1. SUFFICES ASSUME s[k + 1].i > 1
                   PROVE  FALSE
      BY <2>3, <2>4
    <3>2. s[k + 1].i <= s[k + 1].len
      BY <2>1 DEF Parts
    <3>3. (k + 1) - s[k + 1].i < k /\ k <= (k + 1) - s[k + 1].i + s[k + 1].len
      BY <2>1, <2>3, <3>1, <3>2
    <3>4. s[k].len = s[k + 1].len /\ s[k].i = k - ((k + 1) - s[k + 1].i)
      BY <2>1, <3>3, InSection
    <3> QED
      BY <2>1, <2>3, <2>4, <3>2, <3>4
  <2>5. CASE s[k].i # s[k].len
    <3>1. s[k].i + 1 \in 1..s[k].len /\ k - s[k].i + (s[k].i + 1) = k + 1
      BY <2>1, <2>2, <2>3, <2>5
    <3>2. s[k - s[k].i + (s[k].i + 1)] = [n |-> s[k].n, len |-> s[k].len, i |-> s[k].i + 1]
      BY <2>1, <3>1 DEF Parts
    <3>3. s[k + 1] = [n |-> s[k].n, len |-> s[k].len, i |-> s[k].i + 1]
      BY <3>1, <3>2
    <3>4. [s[k] EXCEPT !.i = @ + 1] = [n |-> s[k].n, len |-> s[k].len, i |-> s[k].i + 1]
      BY <2>2 DEF Cell
    <3> QED
      BY <2>5, <3>3, <3>4
  <2> QED
    BY <2>4, <2>5
<1> QED
  BY <1>1, <1>2 DEF Whole

-----------------------------------------------------------------------------
\* The first number that neither the buffer nor the application has seen.
Fresh == IF drv.pc = "idle" THEN drv.n + 1 ELSE drv.n

\* The buffer and the last read hold whole sections, the read's before the buffer's.
Sections ==
    /\ Parts(Held, DataLen) /\ Ordered(Held, DataLen) /\ Before(Held, DataLen, Fresh)
    /\ Parts(out, Len(out)) /\ Before(out, Len(out), Fresh)
    /\ \A j \in 1..Len(out), k \in 1..DataLen : out[j].n < Held[k].n

\* A section that was found to fit still fits, since a read only makes room; the
\* mutex is held across a call of the event_cb and then only, and no read is
\* past its first look meanwhile.
Putting ==
    /\ drv.pc # "idle" => drv.len \in Lens
    /\ drv.pc = "copy" => drv.len <= Cap - DataLen
    /\ drv.pc \in {"room", "copy", "full"} => drv.fails <= TryCnt
    /\ lock <=> drv.pc = "event"
    /\ lock => ~Reading

\* The length a read has found ends a section, and goes on doing so while
\* sections are put behind it.
Getting ==
    /\ app.pc = "head" => DataLen > 0
    /\ app.pc \in {"rd", "copy"} => Boundary(Held, DataLen, app.want)

SInv == TypeOK /\ Sections /\ Putting /\ Getting

-----------------------------------------------------------------------------
\* The cells held, by their slots in the memory.
LEMMA Memory ==
    ASSUME Bounds, TypeOK
    PROVE  /\ Cap \in Nat
           /\ DataLen \in Nat /\ DataLen <= Cap
           /\ Slot(rd + DataLen) = wt
           /\ Len(Held) = DataLen
           /\ \A k \in 1..DataLen : Held[k] = buf[Slot(rd + k - 1)] /\ Slot(rd + k - 1) \in Slots
<1>1. Cap \in Nat /\ rd \in 0..Cap /\ wt \in 0..Cap
  BY DEF Bounds, TypeOK, Slots
<1>2. DataLen \in Nat /\ DataLen <= Cap /\ Slot(rd + DataLen) = wt
  BY <1>1 DEF DataLen, Slot
<1>3. ASSUME NEW k \in 1..DataLen
      PROVE  Held[k] = buf[Slot(rd + k - 1)] /\ Slot(rd + k - 1) \in Slots
  <2>1. Held[k] = buf[Slot(rd + k - 1)]
    BY <1>2 DEF Held, Cells
  <2>2. Slot(rd + k - 1) \in Slots
    BY <1>1, <1>2 DEF Slot, Slots
  <2> QED
    BY <2>1, <2>2
<1>4. Len(Held) = DataLen
  <2>1. Held = [i \in 1..DataLen |-> buf[Slot(rd + i - 1)]]
    BY DEF Held, Cells
  <2> QED
    BY <1>2, <2>1
<1> QED
  BY <1>1, <1>2, <1>3, <1>4

\* The copy of a write goes round the end of the memory and leaves what is held.
LEMMA MemoryAppended ==
    ASSUME Bounds, TypeOK, PutCopy, drv.len \in Lens, drv.len <= Cap - DataLen
    PROVE  /\ buf' \in [Slots -> Cell] /\ wt' \in Slots
           /\ DataLen' = DataLen + drv.len
           /\ \A k \in 1..DataLen : Held'[k] = Held[k]
           /\ \A j \in 1..drv.len :
                Held'[DataLen + j] = [n |-> drv.n, len |-> drv.len, i |-> j]
<1> DEFINE L == drv.len
           S == Section(drv.n, drv.len)
<1>1. /\ Cap \in Nat /\ DataLen \in Nat /\ DataLen <= Cap /\ Slot(rd + DataLen) = wt
      /\ \A k \in 1..DataLen : Held[k] = buf[Slot(rd + k - 1)] /\ Slot(rd + k - 1) \in Slots
  BY Memory
<1>2. rd \in 0..Cap /\ wt \in 0..Cap /\ L \in Nat /\ L \in 1..Cap /\ L <= Cap - DataLen
  <2>1. rd \in 0..Cap /\ wt \in 0..Cap
    BY DEF TypeOK, Slots
  <2>2. L \in 1..Cap
    BY DEF Bounds
  <2>3. L \in Nat
    BY <1>1, <2>2
  <2> QED
    BY <2>1, <2>2, <2>3
<1>3. /\ buf' = [i \in Slots |-> IF Slot(i - wt) < L THEN S[Slot(i - wt) + 1] ELSE buf[i]]
      /\ wt' = Slot(wt + L) /\ rd' = rd
  BY DEF PutCopy
<1>4. ASSUME NEW j \in 1..L
      PROVE  S[j] = [n |-> drv.n, len |-> L, i |-> j] /\ S[j] \in Cell
  <2>1. S[j] = [n |-> drv.n, len |-> L, i |-> j]
    BY <1>4 DEF Section
  <2>2. drv.n \in 0..MaxSec /\ j \in 1..Cap /\ L \in Lens
    BY <1>1, <1>2, <1>4 DEF TypeOK
  <2> QED
    BY <2>1, <2>2 DEF Cell
<1> HIDE DEF S
<1>5. buf' \in [Slots -> Cell]
  <2>1. ASSUME NEW i \in Slots, Slot(i - wt) < L
        PROVE  Slot(i - wt) + 1 \in 1..L
    BY <1>1, <1>2, <2>1 DEF Slot, Slots
  <2>2. ASSUME NEW i \in Slots
        PROVE  (IF Slot(i - wt) < L THEN S[Slot(i - wt) + 1] ELSE buf[i]) \in Cell
    BY <1>4, <2>1 DEF TypeOK
  <2> QED
    BY <1>3, <2>2
<1>6. wt' \in Slots /\ wt' \in 0..Cap
  BY <1>1, <1>2, <1>3 DEF Slot, Slots
<1>7. DataLen' = DataLen + L
  <2>1. DataLen' = Slot(wt' - rd')
    BY DEF DataLen
  <2>2. DataLen = Slot(wt - rd)
    BY DEF DataLen
  <2> QED
    BY <1>1, <1>2, <1>3, <2>1, <2>2 DEF Slot
<1>8. ASSUME NEW k \in 1..(DataLen + L)
      PROVE  Held'[k] = buf'[Slot(rd + k - 1)] /\ Slot(rd + k - 1) \in Slots
  <2>1. Held'[k] = buf'[Slot(rd' + k - 1)]
    BY <1>7 DEF Held, Cells, Slot
  <2>2. Slot(rd + k - 1) \in Slots
    BY <1>1, <1>2 DEF Slot, Slots
  <2> QED
    BY <1>3, <2>1, <2>2
<1>9. ASSUME NEW k \in 1..DataLen
      PROVE  Held'[k] = Held[k]
  <2>1. ~(Slot(Slot(rd + k - 1) - wt) < L)
    BY <1>1, <1>2 DEF Slot
  <2>2. buf'[Slot(rd + k - 1)] = buf[Slot(rd + k - 1)]
    BY <1>1, <1>3, <2>1
  <2>3. k \in 1..(DataLen + L)
    BY <1>1, <1>2
  <2> QED
    BY <1>1, <1>8, <2>2, <2>3
<1>10. ASSUME NEW j \in 1..L
       PROVE  Held'[DataLen + j] = [n |-> drv.n, len |-> L, i |-> j]
  <2> DEFINE p == Slot(rd + (DataLen + j) - 1)
  <2>1. DataLen + j \in 1..(DataLen + L)
    BY <1>1, <1>2
  <2>2. Slot(p - wt) = j - 1
    BY <1>1, <1>2 DEF Slot
  <2>3. Held'[DataLen + j] = buf'[p] /\ p \in Slots
    BY <1>8, <2>1
  <2> HIDE DEF p
  <2>4. buf'[p] = S[Slot(p - wt) + 1]
    BY <1>2, <1>3, <2>2, <2>3
  <2>5. S[Slot(p - wt) + 1] = S[j]
    BY <2>2
  <2> QED
    BY <1>4, <2>3, <2>4, <2>5
<1> QED
  BY <1>5, <1>6, <1>7, <1>9, <1>10

\* The copy of a read: the oldest cells.
LEMMA MemoryTaken ==
    ASSUME Bounds, TypeOK, GetCopy, app.want \in 1..DataLen
    PROVE  /\ rd' \in Slots
           /\ DataLen' = DataLen - app.want
           /\ \A k \in 1..(DataLen - app.want) : Held'[k] = Held[k + app.want]
           /\ out' = [k \in 1..app.want |-> Held[k]]
<1> DEFINE w == app.want
<1>1. /\ Cap \in Nat /\ DataLen \in Nat /\ DataLen <= Cap /\ Slot(rd + DataLen) = wt
      /\ \A k \in 1..DataLen : Held[k] = buf[Slot(rd + k - 1)] /\ Slot(rd + k - 1) \in Slots
  BY Memory
<1>2. rd \in 0..Cap /\ wt \in 0..Cap /\ w \in Nat /\ w \in 1..DataLen
  BY <1>1 DEF TypeOK, Slots
<1>3. buf' = buf /\ wt' = wt /\ rd' = Slot(rd + w) /\ out' = Cells(w)
  BY DEF GetCopy
<1>4. rd' \in Slots /\ rd' \in 0..Cap
  BY <1>1, <1>2, <1>3 DEF Slot, Slots
<1>5. DataLen' = DataLen - w
  <2>1. DataLen' = Slot(wt' - rd')
    BY DEF DataLen
  <2>2. DataLen = Slot(wt - rd)
    BY DEF DataLen
  <2> QED
    BY <1>1, <1>2, <1>3, <2>1, <2>2 DEF Slot
<1>6. ASSUME NEW k \in 1..(DataLen - w)
      PROVE  Held'[k] = Held[k + w]
  <2>1. Held'[k] = buf'[Slot(rd' + k - 1)]
    BY <1>5 DEF Held, Cells, Slot
  <2>2. k + w \in 1..DataLen
    BY <1>1, <1>2
  <2>3. Slot(rd' + k - 1) = Slot(rd + (k + w) - 1)
    BY <1>1, <1>2, <1>3 DEF Slot
  <2> QED
    BY <1>1, <1>3, <2>1, <2>2, <2>3
<1>7. out' = [k \in 1..w |-> Held[k]]
  <2>1. ASSUME NEW k \in 1..w
        PROVE  Held[k] = buf[Slot(rd + k - 1)]
    BY <1>1, <1>2
  <2>2. out' = [k \in 1..w |-> buf[Slot(rd + k - 1)]]
    BY <1>3 DEF Cells
  <2> QED
    BY <2>1, <2>2
<1> QED
  BY <1>4, <1>5, <1>6, <1>7

-----------------------------------------------------------------------------
LEMMA RingKept ==
    ASSUME UNCHANGED ring
    PROVE  Held' = Held /\ DataLen' = DataLen
BY DEF ring, Held, Cells, DataLen, Slot

LEMMA SectionsKept ==
    ASSUME Sections, UNCHANGED <<ring, out>>, Fresh' = Fresh
    PROVE  Sections'
<1>1. Held' = Held /\ DataLen' = DataLen /\ out' = out
  BY RingKept
<1> QED
  BY <1>1 DEF Sections, Parts, Ordered, Before

LEMMA ResetEmpties ==
    ASSUME Bounds, Rst
    PROVE  DataLen' = 0 /\ rd' \in Slots /\ wt' \in Slots /\ buf' = buf
<1>1. Cap \in Nat
  BY DEF Bounds
<1>2. rd' = 0 /\ wt' = 0 /\ buf' = buf
  BY DEF Rst
<1>3. DataLen' = Slot(wt' - rd')
  BY DEF DataLen
<1> QED
  BY <1>1, <1>2, <1>3 DEF Slot, Slots

LEMMA SectionsReset ==
    ASSUME Sections, DataLen' = 0, out' = out, drv.n \in Nat, drv'.n = drv.n, drv.pc # "idle"
    PROVE  Sections'
<1>1. Parts(Held, DataLen)' /\ Ordered(Held, DataLen)' /\ Before(Held, DataLen, Fresh)'
  BY DEF Parts, Ordered, Before
<1>2. \A j \in 1..Len(out'), k \in 1..DataLen' : out'[j].n < Held'[k].n
  OBVIOUS
<1>3. Parts(out, Len(out))'
  BY DEF Sections, Parts
<1>4. Before(out, Len(out), Fresh)'
  <2>1. Fresh = drv.n /\ (Fresh' = drv.n \/ Fresh' = drv.n + 1)
    BY DEF Fresh
  <2>2. ASSUME NEW k \in 1..Len(out)
        PROVE  out[k].n < Fresh'
    <3>1. out[k].n < drv.n
      BY <2>1 DEF Sections, Before
    <3>2. out[k].n \in Int
      BY DEF Sections, Parts, Cell
    <3> QED
      BY <2>1, <3>1, <3>2
  <2> QED
    BY <2>2 DEF Before
<1> QED
  BY <1>1, <1>2, <1>3, <1>4 DEF Sections

\* One step per action, and under it one per part of the invariant.
LEMMA SectionsNext ==
    ASSUME Bounds, ~ResetsMeetReads, SInv, [Next]_vars
    PROVE  SInv'
<1>1. TypeOK /\ Sections /\ Putting /\ Getting
  BY DEF SInv
<1>2. /\ Cap \in Nat /\ DataLen \in Nat /\ DataLen <= Cap /\ DataLen \in 0..Cap
      /\ \A k \in 1..DataLen : Held[k] = buf[Slot(rd + k - 1)]
  BY <1>1, Memory
<1>3. ASSUME NEW l \in Lens, Put(l)
      PROVE  SInv'
  <2>0. UNCHANGED ring /\ out' = out /\ app' = app
    BY <1>3 DEF Put
  <2>1. Held' = Held /\ DataLen' = DataLen
    BY <2>0, RingKept
  <2>2. TypeOK'
    BY <1>1, <1>3 DEF TypeOK, Put, ring, Bounds
  <2>3. Fresh' = Fresh
    BY <1>1, <1>3 DEF Fresh, Put, TypeOK
  <2>4. Sections'
    BY <1>1, <2>0, <2>3, SectionsKept
  <2>5. Putting'
    BY <1>1, <1>3 DEF Putting, Put, Reading, Bounds
  <2>6. Getting'
    BY <1>1, <2>0, <2>1 DEF Getting, Boundary
  <2> QED
    BY <2>2, <2>4, <2>5, <2>6 DEF SInv
<1>4. CASE PutRoom
  <2>0. UNCHANGED ring /\ out' = out /\ app' = app
    BY <1>4 DEF PutRoom
  <2>1. Held' = Held /\ DataLen' = DataLen
    BY <2>0, RingKept
  <2>2. TypeOK'
    BY <1>1, <1>4 DEF TypeOK, PutRoom, Drv, ring
  <2>3. Fresh' = Fresh
    BY <1>1, <1>4 DEF Fresh, PutRoom, Drv, TypeOK
  <2>4. Sections'
    BY <1>1, <2>0, <2>3, SectionsKept
  <2>5. Putting'
    BY <1>1, <1>4, <2>1 DEF Putting, PutRoom, Drv, Reading, TypeOK
  <2>6. Getting'
    BY <1>1, <2>0, <2>1 DEF Getting, Boundary
  <2> QED
    BY <2>2, <2>4, <2>5, <2>6 DEF SInv
<1>5. CASE PutCopy
  <2>1. /\ drv.pc = "copy" /\ ~lock /\ drv.len \in Lens /\ drv.len <= Cap - DataLen
        /\ drv' = [drv EXCEPT !.pc = "idle"]
        /\ UNCHANGED <<rd, lock, run, app, late, out, hasCb>>
    BY <1>1, <1>5 DEF PutCopy, Drv, Putting
  <2>2. /\ buf' \in [Slots -> Cell] /\ wt' \in Slots
        /\ DataLen' = DataLen + drv.len
        /\ \A k \in 1..DataLen : Held'[k] = Held[k]
        /\ \A j \in 1..drv.len :
             Held'[DataLen + j] = [n |-> drv.n, len |-> drv.len, i |-> j]
    BY <1>1, <1>5, <2>1, MemoryAppended
  <2>3. drv.n \in 0..MaxSec /\ drv.n \in Nat /\ drv.len \in Nat /\ Fresh = drv.n /\ Fresh' = drv.n + 1
    <3>1. drv.n \in 0..MaxSec /\ MaxSec \in Nat
      BY <1>1 DEF TypeOK, Bounds
    <3>2. drv.len \in Nat
      BY <2>1 DEF Bounds
    <3>3. Fresh = drv.n /\ Fresh' = drv.n + 1
      BY <1>1, <2>1 DEF Fresh, TypeOK
    <3> QED
      BY <3>1, <3>2, <3>3
  <2>4. TypeOK'
    BY <1>1, <2>1, <2>2 DEF TypeOK
  <2>5. Sections'
    <3>1. Parts(Held, DataLen) /\ Ordered(Held, DataLen) /\ Before(Held, DataLen, drv.n)
      BY <1>1, <2>3 DEF Sections
    <3>2. Parts(Held', DataLen + drv.len) /\ Ordered(Held', DataLen + drv.len)
      BY <1>2, <2>1, <2>2, <2>3, <3>1, PartsAppended
    <3>3. ASSUME NEW k \in 1..(DataLen + drv.len)
          PROVE  /\ Held'[k].n < drv.n + 1
                 /\ \A j \in 1..Len(out) : out[j].n < Held'[k].n
      <4>1. CASE k \in 1..DataLen
        <5>1. Held'[k] = Held[k] /\ Held[k].n < drv.n /\ Held[k] \in Cell
          BY <2>2, <3>1, <4>1 DEF Before, Parts
        <5>2. Held[k].n \in Nat
          BY <5>1, CellFields
        <5> QED
          BY <1>1, <2>3, <4>1, <5>1, <5>2 DEF Sections
      <4>2. CASE k \in (DataLen + 1)..(DataLen + drv.len)
        <5>1. k - DataLen \in 1..drv.len /\ DataLen + (k - DataLen) = k
          BY <1>2, <2>3, <4>2
        <5>2. Held'[k].n = drv.n
          <6> DEFINE j == k - DataLen
          <6>1. j \in 1..drv.len /\ DataLen + j = k
            BY <5>1
          <6> HIDE DEF j
          <6>2. Held'[DataLen + j] = [n |-> drv.n, len |-> drv.len, i |-> j]
            BY <2>2, <6>1
          <6> QED
            BY <6>1, <6>2
        <5>3. \A j \in 1..Len(out) : out[j].n < drv.n
          BY <1>1, <2>3 DEF Sections, Before
        <5> QED
          BY <2>3, <5>2, <5>3
      <4> QED
        BY <1>2, <2>3, <4>1, <4>2
    <3>4. Before(out, Len(out), drv.n + 1)
      <4>1. ASSUME NEW j \in 1..Len(out)
            PROVE  out[j].n < drv.n + 1
        <5>1. out[j].n < drv.n /\ out[j] \in Cell
          BY <1>1, <2>3 DEF Sections, Before, Parts
        <5>2. out[j].n \in Nat
          BY <5>1, CellFields
        <5> QED
          BY <2>3, <5>1, <5>2
      <4> QED
        BY <4>1 DEF Before
    <3>5. Parts(out, Len(out))
      BY <1>1 DEF Sections
    <3> QED
      BY <2>1, <2>2, <2>3, <3>2, <3>3, <3>4, <3>5 DEF Sections, Before
  <2>6. Putting'
    BY <1>1, <2>1 DEF Putting, Reading, TypeOK
  <2>7. Getting'
    BY <1>1, <1>2, <2>1, <2>2, <2>3 DEF Getting, Boundary
  <2> QED
    BY <2>4, <2>5, <2>6, <2>7 DEF SInv
<1>6. CASE PutFull
  <2>0. UNCHANGED ring /\ out' = out /\ app' = app
    BY <1>6 DEF PutFull
  <2>1. Held' = Held /\ DataLen' = DataLen
    BY <2>0, RingKept
  <2>2. TypeOK'
    <3>1. /\ drv \in [pc : {"idle", "room", "copy", "full", "report", "event", "reset"},
                      n : 0..MaxSec, len : Lens \cup {0}, fails : 0..(TryCnt + 1)]
          /\ drv.pc = "full" /\ drv.fails <= TryCnt /\ TryCnt \in Nat
      BY <1>1, <1>6 DEF TypeOK, PutFull, Putting, Bounds
    <3> DEFINE q == IF hasCb THEN "report" ELSE IF drv.fails < TryCnt THEN "room" ELSE "reset"
    <3>2. drv' = [drv EXCEPT !.fails = drv.fails + 1, !.pc = q] /\ q \in {"report", "room", "reset"}
      BY <1>6 DEF PutFull
    <3>3. drv.fails + 1 \in 0..(TryCnt + 1)
      BY <3>1
    <3> HIDE DEF q
    <3>4. drv' \in [pc : {"idle", "room", "copy", "full", "report", "event", "reset"},
                    n : 0..MaxSec, len : Lens \cup {0}, fails : 0..(TryCnt + 1)]
      BY <3>1, <3>2, <3>3
    <3>5. UNCHANGED <<buf, rd, wt, lock, run, app, late, out, hasCb>>
      BY <1>6 DEF PutFull, ring
    <3> QED
      BY <1>1, <3>4, <3>5 DEF TypeOK
  <2>3. Fresh' = Fresh
    BY <1>1, <1>6 DEF Fresh, PutFull, TypeOK
  <2>4. Sections'
    BY <1>1, <2>0, <2>3, SectionsKept
  <2>5. Putting'
    BY <1>1, <1>6, <2>1 DEF Putting, PutFull, Reading, TypeOK, Bounds
  <2>6. Getting'
    BY <1>1, <2>0, <2>1 DEF Getting, Boundary
  <2> QED
    BY <2>2, <2>4, <2>5, <2>6 DEF SInv
<1>7. CASE PutReport
  <2>0. UNCHANGED ring /\ out' = out /\ app' = app
    BY <1>7 DEF PutReport
  <2>1. Held' = Held /\ DataLen' = DataLen
    BY <2>0, RingKept
  <2>2. TypeOK'
    BY <1>1, <1>7 DEF TypeOK, PutReport, Drv, ring
  <2>3. Fresh' = Fresh
    BY <1>1, <1>7 DEF Fresh, PutReport, Drv, TypeOK
  <2>4. Sections'
    BY <1>1, <2>0, <2>3, SectionsKept
  <2>5. Putting'
    BY <1>1, <1>7, <2>0 DEF Putting, PutReport, Drv, MayReset, Reading, TypeOK
  <2>6. Getting'
    BY <1>1, <2>0, <2>1 DEF Getting, Boundary
  <2> QED
    BY <2>2, <2>4, <2>5, <2>6 DEF SInv
<1>8. CASE PutReported
  <2>1. Rst /\ out' = out /\ app' = app /\ drv.pc = "event" /\ drv'.n = drv.n
    BY <1>1, <1>8 DEF PutReported, Drv, TypeOK
  <2>2. DataLen' = 0 /\ rd' \in Slots /\ wt' \in Slots /\ buf' = buf
    BY <2>1, ResetEmpties
  <2>3. ~Reading
    BY <1>1, <2>1 DEF Putting
  <2>4. TypeOK'
    BY <1>1, <1>8, <2>2 DEF TypeOK, PutReported, Drv
  <2>5. Sections'
    <3>1. drv.n \in Nat
      BY <1>1 DEF TypeOK
    <3> QED
      BY <1>1, <2>1, <2>2, <3>1, SectionsReset
  <2>6. Putting'
    BY <1>1, <1>8, <2>3 DEF Putting, PutReported, Drv, Reading, TypeOK
  <2>7. Getting'
    BY <2>1, <2>3 DEF Getting, Reading
  <2> QED
    BY <2>4, <2>5, <2>6, <2>7 DEF SInv
<1>9. CASE PutReset
  <2>1. Rst /\ out' = out /\ app' = app /\ drv.pc = "reset" /\ drv'.n = drv.n
    BY <1>1, <1>9 DEF PutReset, Drv, TypeOK
  <2>2. DataLen' = 0 /\ rd' \in Slots /\ wt' \in Slots /\ buf' = buf
    BY <2>1, ResetEmpties
  <2>3. ~Reading
    BY <1>9 DEF PutReset, MayReset
  <2>4. TypeOK'
    BY <1>1, <1>9, <2>2 DEF TypeOK, PutReset, Drv
  <2>5. Sections'
    <3>1. drv.n \in Nat
      BY <1>1 DEF TypeOK
    <3> QED
      BY <1>1, <2>1, <2>2, <3>1, SectionsReset
  <2>6. Putting'
    BY <1>1, <1>9, <2>3 DEF Putting, PutReset, Drv, Reading, TypeOK
  <2>7. Getting'
    BY <2>1, <2>3 DEF Getting, Reading
  <2> QED
    BY <2>4, <2>5, <2>6, <2>7 DEF SInv
<1>10. CASE (\E all \in BOOLEAN : Get(all)) \/ GetStatus \/ GetEmpty \/ StartStop \/ Tick
  <2>0. UNCHANGED ring /\ out' = out /\ drv' = drv /\ lock' = lock
    BY <1>10 DEF Get, GetStatus, GetEmpty, StartStop, Tick
  <2>1. Held' = Held /\ DataLen' = DataLen
    BY <2>0, RingKept
  <2>2. TypeOK'
    <3> DEFINE Apps == [pc : {"idle", "status", "len", "empty", "head", "rd", "copy"},
                        all : BOOLEAN, want : 0..Cap]
    <3>1. app \in Apps /\ late \in BOOLEAN /\ run \in BOOLEAN
      BY <1>1 DEF TypeOK
    <3>2. app' \in Apps
      <4>1. CASE \E all \in BOOLEAN : Get(all)
        BY <1>2, <4>1 DEF Get
      <4>2. CASE GetStatus
        BY <3>1, <4>2 DEF GetStatus, App
      <4>3. CASE GetEmpty
        BY <3>1, <4>3 DEF GetEmpty, App
      <4>4. CASE StartStop \/ Tick
        BY <3>1, <4>4 DEF StartStop, Tick
      <4> QED
        BY <1>10, <4>1, <4>2, <4>3, <4>4
    <3>3. late' \in BOOLEAN /\ run' \in BOOLEAN /\ UNCHANGED <<buf, rd, wt, drv, lock, out, hasCb>>
      BY <1>10, <3>1 DEF Get, GetStatus, GetEmpty, StartStop, Tick, ring
    <3> QED
      BY <1>1, <3>2, <3>3 DEF TypeOK
  <2>3. Fresh' = Fresh
    BY <2>0 DEF Fresh
  <2>4. Sections'
    BY <1>1, <2>0, <2>3, SectionsKept
  <2>5. app' = app \/ app'.pc \in {"idle", "status", "len"}
    BY <1>1, <1>10 DEF Get, GetStatus, GetEmpty, StartStop, Tick, App, TypeOK
  <2>6. Putting'
    BY <1>1, <2>0, <2>1, <2>5 DEF Putting, Reading
  <2>7. Getting'
    BY <1>1, <2>1, <2>5 DEF Getting, Boundary
  <2> QED
    BY <2>2, <2>4, <2>6, <2>7 DEF SInv
<1>11. CASE GetLen \/ GetHead \/ GetRd
  <2>0. UNCHANGED ring /\ out' = out /\ drv' = drv /\ lock' = lock /\ ~lock
    BY <1>11 DEF GetLen, GetHead, GetRd
  <2>1. Held' = Held /\ DataLen' = DataLen
    BY <2>0, RingKept
  <2>2. Fresh' = Fresh
    BY <2>0 DEF Fresh
  <2>3. Sections'
    BY <1>1, <2>0, <2>2, SectionsKept
  <2>4. Putting'
    BY <1>1, <2>0, <2>1 DEF Putting
  <2>5. Parts(Held, DataLen)
    BY <1>1 DEF Sections
  <2>6. CASE GetLen
    <3>1. TypeOK'
      BY <1>1, <1>2, <2>6 DEF TypeOK, GetLen, ring
    <3>2. app'.pc = "rd" => Boundary(Held, DataLen, app'.want)
      <4>1. SUFFICES ASSUME app'.pc = "rd"
                     PROVE  Boundary(Held, DataLen, DataLen)
        BY <1>1, <2>6 DEF GetLen, TypeOK
      <4>2. DataLen \in 1..DataLen
        BY <1>1, <1>2, <2>6, <4>1 DEF GetLen, TypeOK
      <4>3. /\ Held[DataLen] \in Cell /\ Held[DataLen].i <= Held[DataLen].len
            /\ DataLen - Held[DataLen].i + Held[DataLen].len <= DataLen
        BY <2>5, <4>2 DEF Parts
      <4>4. Held[DataLen].i \in Nat /\ Held[DataLen].len \in Nat
        BY <4>3, CellFields
      <4> QED
        BY <1>2, <4>2, <4>3, <4>4 DEF Boundary
    <3>3. app'.pc # "copy" /\ (app'.pc = "head" => DataLen > 0)
      BY <1>1, <1>2, <2>6 DEF GetLen, TypeOK
    <3>4. Getting'
      BY <2>1, <3>2, <3>3 DEF Getting
    <3> QED
      BY <2>3, <2>4, <3>1, <3>4 DEF SInv
  <2>7. CASE GetHead
    <3>1. 1 \in 1..DataLen
      BY <1>1, <1>2, <2>7 DEF GetHead, Getting
    <3>2. Held[1] = buf[rd]
      <4>1. rd \in 0..Cap
        BY <1>1 DEF TypeOK, Slots
      <4>2. Slot(rd + 1 - 1) = rd
        BY <1>2, <4>1 DEF Slot
      <4> QED
        BY <1>2, <3>1, <4>2
    <3>3. /\ Held[1] \in Cell /\ Held[1].i <= 1 /\ Held[1].i <= Held[1].len
          /\ 1 - Held[1].i + Held[1].len <= DataLen
      BY <2>5, <3>1 DEF Parts
    <3>4. Held[1].i = 1 /\ Held[1].len \in 1..DataLen /\ Held[1].len \in 0..Cap
      <4>1. Held[1].i \in Nat /\ Held[1].i >= 1 /\ Held[1].len \in Nat /\ Held[1].len \in 1..Cap
        BY <3>3, CellFields
      <4> QED
        BY <1>2, <3>3, <4>1
    <3>5. Boundary(Held, DataLen, Held[1].len)
      <4> DEFINE w == Held[1].len
      <4>1. w \in 1..DataLen /\ 1 - Held[1].i < w /\ w <= 1 - Held[1].i + Held[1].len
        BY <3>4
      <4>2. Held[w].len = Held[1].len /\ Held[w].i = w - (1 - Held[1].i)
        BY <1>2, <2>5, <3>1, <4>1, InSection
      <4> QED
        BY <3>4, <4>1, <4>2 DEF Boundary
    <3>6. app' = [app EXCEPT !.want = Held[1].len, !.pc = IF Held[1].len > Req THEN "idle" ELSE "rd"]
      BY <2>7, <3>2, <3>4 DEF GetHead, HeaderLengths
    <3>7. TypeOK'
      BY <1>1, <2>7, <3>4, <3>6 DEF TypeOK, GetHead, ring
    <3>8. Getting'
      BY <1>1, <2>1, <3>5, <3>6 DEF Getting, TypeOK
    <3> QED
      BY <2>3, <2>4, <3>7, <3>8 DEF SInv
  <2>8. CASE GetRd
    <3>1. Boundary(Held, DataLen, app.want) /\ app.want \in 1..DataLen
      BY <1>1, <2>8 DEF GetRd, Getting, Boundary
    <3>2. app' = [app EXCEPT !.want = app.want, !.pc = "copy"]
      <4>1. app.want \in Nat /\ app.want # 0 /\ ~(app.want > DataLen)
        BY <1>2, <3>1
      <4> QED
        BY <2>8, <4>1 DEF GetRd
    <3>3. TypeOK'
      BY <1>1, <2>8, <3>2 DEF TypeOK, GetRd, ring
    <3>4. Getting'
      BY <1>1, <2>1, <3>1, <3>2 DEF Getting, TypeOK
    <3> QED
      BY <2>3, <2>4, <3>3, <3>4 DEF SInv
  <2> QED
    BY <1>11, <2>6, <2>7, <2>8
<1>12. CASE GetCopy
  <2> DEFINE w == app.want
  <2>1. /\ app.pc = "copy" /\ app' = [app EXCEPT !.pc = "idle"] /\ Boundary(Held, DataLen, w)
        /\ UNCHANGED <<buf, wt, lock, run, drv, late, hasCb>>
    BY <1>1, <1>12 DEF GetCopy, App, Getting
  <2>2. w \in 1..DataLen
    BY <2>1 DEF Boundary
  <2>3. /\ rd' \in Slots
        /\ DataLen' = DataLen - w
        /\ \A k \in 1..(DataLen - w) : Held'[k] = Held[k + w]
        /\ out' = [k \in 1..w |-> Held[k]]
    BY <1>1, <1>12, <2>2, MemoryTaken
  <2> HIDE DEF w
  <2>4. w \in Nat /\ w <= DataLen /\ Len(out') = w /\ \A k \in 1..w : out'[k] = Held[k]
    BY <1>2, <2>2, <2>3
  <2>5. Parts(Held, DataLen) /\ Ordered(Held, DataLen) /\ Before(Held, DataLen, Fresh)
    BY <1>1 DEF Sections
  <2>6. Parts(out', w)
    BY <1>2, <2>1, <2>4, <2>5, PartsTaken
  <2>7. TypeOK'
    <3>1. out' \in Seq(Cell)
      <4>1. ASSUME NEW k \in 1..w
            PROVE  Held[k] \in Cell
        <5>1. k \in 1..DataLen
          BY <1>2, <2>4
        <5> QED
          BY <2>5, <5>1 DEF Parts
      <4>2. [k \in 1..w |-> Held[k]] \in [1..w -> Cell]
        BY <4>1
      <4> QED
        BY <2>3, <2>4, <4>2
    <3>2. app' \in [pc : {"idle", "status", "len", "empty", "head", "rd", "copy"},
                    all : BOOLEAN, want : 0..Cap]
      BY <1>1, <2>1 DEF TypeOK
    <3>3. UNCHANGED <<buf, wt, lock, run, drv, late, hasCb>>
      BY <2>1
    <3> HIDE DEF w
    <3> QED
      BY <1>1, <2>3, <3>1, <3>2, <3>3 DEF TypeOK
  <2>8. Parts(Held', DataLen - w) /\ Ordered(Held', DataLen - w)
    BY <1>2, <2>1, <2>3, <2>5, PartsLeft
  <2>9. Fresh' = Fresh
    BY <2>1 DEF Fresh
  <2>10. Sections'
    <3>1. ASSUME NEW k \in 1..(DataLen - w)
          PROVE  /\ Held'[k].n < Fresh
                 /\ \A j \in 1..w : out'[j].n < Held'[k].n
      <4>1. k + w \in 1..DataLen /\ k + w \in (w + 1)..DataLen /\ Held'[k] = Held[k + w]
        BY <1>2, <2>3, <2>4
      <4>2. Held[k + w].n < Fresh
        BY <2>5, <4>1 DEF Before
      <4>3. \A j \in 1..w : Held[j].n < Held[k + w].n
        BY <1>2, <2>1, <2>5, <4>1, AcrossBoundary
      <4> QED
        BY <2>4, <4>1, <4>2, <4>3
    <3>2. Before(out', w, Fresh)
      BY <1>2, <2>4, <2>5 DEF Before
    <3> QED
      BY <2>3, <2>4, <2>6, <2>8, <2>9, <3>1, <3>2 DEF Sections, Before
  <2>11. Putting'
    BY <1>1, <1>2, <2>1, <2>3, <2>4 DEF Putting, Reading, TypeOK, Bounds
  <2>12. Getting'
    BY <1>1, <2>1 DEF Getting, TypeOK
  <2> QED
    BY <2>7, <2>10, <2>11, <2>12 DEF SInv
<1>13. CASE UNCHANGED vars
  <2>1. UNCHANGED <<ring, out>> /\ Held' = Held /\ DataLen' = DataLen /\ Fresh' = Fresh
    BY <1>13, RingKept DEF vars, Fresh
  <2>2. Sections'
    BY <1>1, <2>1, SectionsKept
  <2>3. TypeOK'
    BY <1>1, <1>13 DEF TypeOK, vars, ring
  <2>4. Putting' /\ Getting'
    BY <1>1, <1>13, <2>1 DEF Putting, Getting, Boundary, Reading, vars
  <2> QED
    BY <2>2, <2>3, <2>4 DEF SInv
<1> QED
  BY <1>3, <1>4, <1>5, <1>6, <1>7, <1>8, <1>9, <1>10, <1>11, <1>12, <1>13
     DEF Next, PutStep, GetStep

LEMMA SectionsInit == ASSUME Bounds, Init PROVE SInv
<1>1. Cap \in Nat /\ Cap \in 1..Cap /\ MaxSec \in Nat /\ TryCnt \in Nat
  <2>1. PICK l \in Lens : l \in 1..Cap
    BY DEF Bounds
  <2> QED
    BY <2>1 DEF Bounds
<1>2. Blank \in Cell
  <2>1. (CHOOSE l \in Lens : TRUE) \in Lens
    BY DEF Bounds
  <2> QED
    BY <1>1, <2>1 DEF Blank, Cell
<1>3. DataLen = 0
  BY <1>1 DEF Init, DataLen, Slot
<1>4. TypeOK
  <2>1. buf \in [Slots -> Cell]
    BY <1>2 DEF Init
  <2>2. rd \in Slots /\ wt \in Slots
    BY <1>1 DEF Init, Slots
  <2>3. drv \in [pc : {"idle", "room", "copy", "full", "report", "event", "reset"},
                 n : 0..MaxSec, len : Lens \cup {0}, fails : 0..(TryCnt + 1)]
    <3>1. 0 \in 0..MaxSec /\ 0 \in Lens \cup {0} /\ 0 \in 0..(TryCnt + 1)
      BY <1>1
    <3> QED
      BY <3>1 DEF Init
  <2>4. app \in [pc : {"idle", "status", "len", "empty", "head", "rd", "copy"},
                 all : BOOLEAN, want : 0..Cap]
    BY <1>1 DEF Init
  <2>5. out \in Seq(Cell)
    BY DEF Init
  <2> QED
    BY <2>1, <2>2, <2>3, <2>4, <2>5 DEF TypeOK, Init
<1>5. Sections
  BY <1>3 DEF Sections, Parts, Ordered, Before, Init
<1>6. Putting /\ Getting
  BY DEF Putting, Getting, Init
<1> QED
  BY <1>4, <1>5, <1>6 DEF SInv

LEMMA SInvHolds == ASSUME ~ResetsMeetReads PROVE Spec => []SInv
<1>1. Init => SInv
  BY SectionsInit, ConstantsAssumption
<1>2. SInv /\ [Next]_vars => SInv'
  BY SectionsNext, ConstantsAssumption
<1> QED
  BY <1>1, <1>2, PTL DEF Spec

\* The positions stay in the memory and every length a thread keeps is one the
\* buffer can hold (aui_dmx_put_data_to_rbuf, aui_common_get_rbuf_rdlen).
THEOREM TypesHold == ASSUME ~ResetsMeetReads PROVE Spec => []TypeOK
<1>1. SInv => TypeOK
  BY DEF SInv
<1> QED
  BY SInvHolds, <1>1, PTL

\* What aui_dmx_channel_sync_get_section_data and its _ext return are complete
\* sections, none twice or after a later one, and the buffer is in step with the
\* sections whatever overflowed and was reset.
THEOREM SectionsStayWhole == ASSUME ~ResetsMeetReads PROVE Spec => []WholeSections
<1>1. SInv => WholeSections
  <2> SUFFICES ASSUME SInv PROVE WholeSections
    OBVIOUS
  <2>1. TypeOK /\ Sections
    BY DEF SInv
  <2>2. Whole(out)
    <3>1. out \in Seq(Cell)
      BY <2>1 DEF TypeOK
    <3>2. Len(out) \in Nat /\ (out # <<>> => Len(out) > 0)
      BY <3>1
    <3> QED
      BY <2>1, <3>2, PartsAreWhole, ConstantsAssumption DEF Sections
  <2>3. Whole(Held)
    <3>1. DataLen \in Nat /\ Len(Held) = DataLen
      BY <2>1, Memory, ConstantsAssumption
    <3>2. Held # <<>> => DataLen > 0
      BY <3>1 DEF Held, Cells
    <3> QED
      BY <2>1, <3>1, <3>2, PartsAreWhole, ConstantsAssumption DEF Sections
  <2> QED
    BY <2>1, <2>2, <2>3 DEF WholeSections, Sections
<1> QED
  BY SInvHolds, <1>1, PTL
=============================================================================

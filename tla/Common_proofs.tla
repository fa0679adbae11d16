---------------------------- MODULE Common_proofs -----------------------------
(****************************************************************************)
(* Proofs about the ring buffer and the device registry of aui_common.c, and *)
(* about teletext, which is built on both: RingBuf, DevRegistry and VbiTtx. *)
(*                                                                          *)
(* RingBuf, for every Size, Byte and MaxReq.  That no access leaves the     *)
(* buffer holds whatever the threads; that the buffer is a FIFO holds for   *)
(* every choice of them that is single-ended: at most one reader, at most   *)
(* one other thread that writes, resets made by the reader only.            *)
(****************************************************************************)
EXTENDS RingBuf, DevRegistry, VbiTtx, SequenceTheorems, TLAPS

SingleEnded ==
    /\ \A s, t \in Reader : s = t
    /\ \A s, t \in Writer : s = t
    /\ Reader \cap Writer = {}
    /\ Resetter \subseteq Reader

\* What the writer saw stays an upper bound until it decides on it.
SeenIsUpperBound ==
    \A w \in Writer : pc[w] = "wt_room" => DataLen <= seen[w]

IInv == TypeOK /\ NoOverrun /\ SeenIsUpperBound

\* A copy never goes round more than once, however stale the length it acts on.
FitsTheBuffer == \A w \in Writer : pc[w] = "wt_copy" => Len(data[w]) < Size

-----------------------------------------------------------------------------
\* Going round the ring from a slot stays in the ring.
LEMMA SlotInSlots ==
    ASSUME NEW p \in Slots, NEW n \in 0..Size
    PROVE  Slot(p + n) \in Slots
  BY SizeAssumption DEF Slots, Slot

\* The data length leaves one slot free (aui_common_ring_buf_data_len).
LEMMA DataLenInSlots ==
    ASSUME rd \in Slots, wt \in Slots
    PROVE  DataLen \in Slots
  BY SizeAssumption DEF Slots, DataLen

\* A read of n bytes shortens the data by n ...
LEMMA ReadShortens ==
    ASSUME rd \in Slots, wt \in Slots, NEW n \in 0..DataLen,
           rd' = Slot(rd + n), wt' = wt
    PROVE  DataLen' = DataLen - n
  BY SizeAssumption DEF Slots, Slot, DataLen

\* ... and a write of n bytes that fit lengthens it by n.
LEMMA WriteLengthens ==
    ASSUME rd \in Slots, wt \in Slots, NEW n \in Nat, DataLen + n < Size,
           wt' = Slot(wt + n), rd' = rd
    PROVE  DataLen' = DataLen + n
  BY SizeAssumption DEF Slots, Slot, DataLen

LEMMA FiniteFunctionsAreSeqs ==
    ASSUME NEW n \in Nat, NEW s \in [1..n -> Byte]
    PROVE  s \in Seq(Byte)
  OBVIOUS

LEMMA RequestsAreSeqs == Requests \subseteq Seq(Byte)
  BY FiniteFunctionsAreSeqs, MaxReqAssumption DEF Requests

-----------------------------------------------------------------------------
LEMMA TypeInit == Init => IInv
  <1> SUFFICES ASSUME Init PROVE IInv
    OBVIOUS
  <1>0. <<>> \in Seq(Byte) /\ 0 \in Slots /\ 0 \in 0..MaxReq
    BY SizeAssumption, MaxReqAssumption DEF Slots
  <1>1. TypeOK
    BY <1>0, ByteAssumption DEF Init, TypeOK
  <1>2. NoOverrun /\ SeenIsUpperBound
    BY DEF Init, NoOverrun, ReaderSafe, WriterSafe, SeenIsUpperBound, Thread
  <1> QED BY <1>1, <1>2 DEF IInv

\* No step leaves the types.
LEMMA TypeStep == ASSUME TypeOK, FitsTheBuffer, [Next]_vars PROVE TypeOK'
  <1> USE DEF TypeOK
  <1>d. DataLen \in Slots
    BY DataLenInSlots
  <1>z. 0 \in Slots
    BY SizeAssumption DEF Slots
  <1>1. CASE InitRing
    BY <1>1, <1>z, ByteAssumption DEF InitRing
  <1>2. CASE UnInitRing
    BY <1>2 DEF UnInitRing
  <1>3. ASSUME NEW t \in Thread, Rst(t) PROVE TypeOK'
    BY <1>3, <1>z DEF Rst
  <1>4. ASSUME NEW r \in Reader, RdCheck(r) PROVE TypeOK'
    <2>1. PICK n \in 1..MaxReq : want' = [want EXCEPT ![r] = n]
      BY <1>4 DEF RdCheck
    <2>2. want' \in [Reader -> 0..MaxReq]
      BY <2>1, MaxReqAssumption
    <2> QED BY <1>4, <2>2 DEF RdCheck, Goto
  <1>5. ASSUME NEW r \in Reader, RdLen(r) PROVE TypeOK'
    BY <1>5, <1>d DEF RdLen, Goto, Thread
  <1>6. ASSUME NEW r \in Reader, RdCopy(r) PROVE TypeOK'
    <2>2. ReadLen(r) \in 0..Size
      BY SizeAssumption, MaxReqAssumption DEF ReadLen, Slots, Thread
    <2>3. rd' \in Slots
      BY <1>6, <2>2, SlotInSlots DEF RdCopy
    <2>4. \A i \in 1..ReadLen(r) : Slot(rd + i - 1) \in Slots
      BY <2>2, SizeAssumption DEF Slots, Slot
    <2>5. [i \in 1..ReadLen(r) |-> buf[Slot(rd + i - 1)]] \in [1..ReadLen(r) -> Byte]
      BY <2>4
    <2>a. ReadLen(r) \in Nat
      BY <2>2, SizeAssumption
    <2>b. [i \in 1..ReadLen(r) |-> buf[Slot(rd + i - 1)]] \in Seq(Byte)
      BY <2>a, <2>5, FiniteFunctionsAreSeqs
    <2>6. out' \in [Reader -> Seq(Byte)]
      BY <1>6, <2>b DEF RdCopy
    <2> QED BY <1>6, <1>z, <2>3, <2>6 DEF RdCopy, Goto, Thread
  <1>7. ASSUME NEW w \in Writer, WtCheck(w) PROVE TypeOK'
    BY <1>7, RequestsAreSeqs DEF WtCheck, Goto
  <1>8. ASSUME NEW w \in Writer, WtLen(w) PROVE TypeOK'
    BY <1>8, <1>d DEF WtLen, Goto, Thread
  <1>9. ASSUME NEW w \in Writer, WtRoom(w) PROVE TypeOK'
    BY <1>9, <1>z DEF WtRoom, Goto, Thread
  <1>10. ASSUME NEW w \in Writer, WtCopy(w) PROVE TypeOK'
    <2>1. Len(data[w]) \in 0..Size
      BY <1>10, SizeAssumption DEF WtCopy, Goto, FitsTheBuffer
    <2>2. wt' \in Slots
      BY <1>10, <2>1, SlotInSlots DEF WtCopy
    <2>3. \A i \in Slots : PastWt(i) \in Nat
      BY SizeAssumption DEF PastWt, Slots
    <2>4. \A i \in Slots : PastWt(i) < Len(data[w]) => data[w][PastWt(i) + 1] \in Byte
      BY <2>3
    <2>5. buf' \in [Slots -> Byte]
      BY <1>10, <2>4 DEF WtCopy
    <2> QED BY <1>10, <2>2, <2>5 DEF WtCopy, Goto
  <1>11. CASE UNCHANGED vars
    BY <1>11 DEF vars
  <1> QED BY <1>1, <1>2, <1>3, <1>4, <1>5, <1>6, <1>7, <1>8, <1>9, <1>10, <1>11 DEF Next

LEMMA FitsStep ==
    ASSUME TypeOK, FitsTheBuffer, [Next]_vars PROVE FitsTheBuffer'
  <1> USE DEF TypeOK, FitsTheBuffer, Thread
  <1>1. CASE InitRing \/ UnInitRing
    BY <1>1 DEF InitRing, UnInitRing
  <1>2. ASSUME NEW t \in Thread, Rst(t) PROVE FitsTheBuffer'
    BY <1>2 DEF Rst
  <1>3. ASSUME NEW r \in Reader, RdCheck(r) \/ RdLen(r) \/ RdCopy(r) PROVE FitsTheBuffer'
    BY <1>3 DEF RdCheck, RdLen, RdCopy, Goto
  <1>4. ASSUME NEW w \in Writer, WtCheck(w) PROVE FitsTheBuffer'
    BY <1>4 DEF WtCheck, Goto
  <1>5. ASSUME NEW w \in Writer, WtLen(w) \/ WtCopy(w) PROVE FitsTheBuffer'
    BY <1>5 DEF WtLen, WtCopy, Goto
  <1>6. ASSUME NEW w \in Writer, WtRoom(w) PROVE FitsTheBuffer'
    <2>1. seen[w] \in Nat /\ Len(data[w]) \in Nat
      BY SizeAssumption DEF Slots
    <2>2. Fits(w) => Len(data[w]) < Size
      BY <2>1, SizeAssumption DEF Fits, Room
    <2> QED BY <1>6, <2>2 DEF WtRoom, Goto
  <1>7. CASE UNCHANGED vars
    BY <1>7 DEF vars
  <1> QED BY <1>1, <1>2, <1>3, <1>4, <1>5, <1>6, <1>7 DEF Next

\* What the writer may copy while the ring has room for it fits the buffer.
LEMMA SafeFits == ASSUME TypeOK, WriterSafe PROVE FitsTheBuffer
  <1>1. DataLen \in Nat
    BY DataLenInSlots, SizeAssumption DEF TypeOK, Slots
  <1> QED BY <1>1, SizeAssumption DEF TypeOK, WriterSafe, FitsTheBuffer

\* With a single reader and a single writer what each of them saw stays safe:
\* the other one can only move the data length in the harmless direction.
LEMMA SafeStep ==
    ASSUME SingleEnded, IInv, [Next]_vars
    PROVE  (NoOverrun /\ SeenIsUpperBound)'
  <1> USE DEF IInv, TypeOK, NoOverrun, ReaderSafe, WriterSafe, SeenIsUpperBound
  <1>d. DataLen \in Slots
    BY DataLenInSlots
  <1>n. DataLen \in Nat /\ Size \in Nat
    BY <1>d, SizeAssumption DEF Slots
  <1>1. CASE InitRing
    <2>1. \A t \in Thread : pc'[t] = "idle"
      BY <1>1 DEF InitRing, Quiet
    <2> QED BY <2>1 DEF Thread
  <1>2. CASE UnInitRing
    <2>1. \A t \in Thread : pc'[t] = "idle"
      BY <1>2 DEF UnInitRing, Quiet
    <2> QED BY <2>1 DEF Thread
  <1>3. ASSUME NEW t \in Thread, Rst(t) PROVE (NoOverrun /\ SeenIsUpperBound)'
    <2>1. DataLen' = 0
      BY <1>3 DEF Rst, DataLen
    <2>2. \A r \in Reader : pc'[r] = "idle"
      BY <1>3 DEF Rst, SingleEnded
    <2>3. ReaderSafe'
      BY <2>2
    <2>4. WriterSafe'
      BY <1>3, <2>1, <1>n DEF Rst
    <2>5. SeenIsUpperBound'
      BY <1>3, <2>1, <1>n, SizeAssumption DEF Rst, Slots, Thread
    <2> QED BY <2>3, <2>4, <2>5
  <1>4. ASSUME NEW r \in Reader, RdCheck(r) PROVE (NoOverrun /\ SeenIsUpperBound)'
    BY <1>4 DEF RdCheck, Goto, DataLen, Thread
  <1>5. ASSUME NEW r \in Reader, RdLen(r) PROVE (NoOverrun /\ SeenIsUpperBound)'
    <2>1. DataLen' = DataLen
      BY <1>5 DEF RdLen, DataLen
    <2>2. \A s \in Reader : s = r
      BY DEF SingleEnded
    <2>3. ReaderSafe'
      BY <1>5, <2>1, <2>2, <1>n DEF RdLen, Goto, Thread
    <2>4. \A w \in Writer : pc'[w] = pc[w] /\ seen'[w] = seen[w] /\ data'[w] = data[w]
      BY <1>5 DEF RdLen, Goto, SingleEnded, Thread
    <2> QED BY <2>1, <2>3, <2>4
  <1>6. ASSUME NEW r \in Reader, RdCopy(r) PROVE (NoOverrun /\ SeenIsUpperBound)'
    <2>1. ReadLen(r) \in 0..DataLen
      BY <1>6, <1>d, SizeAssumption, MaxReqAssumption DEF RdCopy, Goto, ReadLen, Slots, Thread
    <2>2. DataLen' = DataLen - ReadLen(r)
      BY <1>6, <2>1, ReadShortens DEF RdCopy
    <2>3. DataLen' <= DataLen /\ DataLen' \in Nat
      BY <2>1, <2>2, <1>n
    <2>4. \A s \in Reader : pc'[s] = "idle"
      BY <1>6 DEF RdCopy, Goto, SingleEnded, Thread
    <2>5. ReaderSafe'
      BY <2>4
    <2>6. \A w \in Writer : pc'[w] = pc[w] /\ seen'[w] = seen[w] /\ data'[w] = data[w]
      BY <1>6 DEF RdCopy, Goto, SingleEnded, Thread
    <2>7. WriterSafe'
      BY <2>3, <2>6, <1>n
    <2>8. SeenIsUpperBound'
      BY <2>3, <2>6, <1>n, SizeAssumption DEF Slots, Thread
    <2> QED BY <2>5, <2>7, <2>8
  <1>7. ASSUME NEW w \in Writer, WtCheck(w) PROVE (NoOverrun /\ SeenIsUpperBound)'
    <2>1. DataLen' = DataLen
      BY <1>7 DEF WtCheck, DataLen
    <2>2. \A s \in Writer : pc'[s] = "wt_len"
      BY <1>7 DEF WtCheck, Goto, SingleEnded, Thread
    <2>3. \A r \in Reader : pc'[r] = pc[r] /\ seen'[r] = seen[r]
      BY <1>7 DEF WtCheck, Goto, SingleEnded, Thread
    <2> QED BY <2>1, <2>2, <2>3
  <1>8. ASSUME NEW w \in Writer, WtLen(w) PROVE (NoOverrun /\ SeenIsUpperBound)'
    <2>1. DataLen' = DataLen
      BY <1>8 DEF WtLen, DataLen
    <2>2. \A s \in Writer : pc'[s] = "wt_room" /\ seen'[s] = DataLen
      BY <1>8 DEF WtLen, Goto, SingleEnded, Thread
    <2>3. \A r \in Reader : pc'[r] = pc[r] /\ seen'[r] = seen[r]
      BY <1>8 DEF WtLen, Goto, SingleEnded, Thread
    <2> QED BY <2>1, <2>2, <2>3, <1>n
  <1>9. ASSUME NEW w \in Writer, WtRoom(w) PROVE (NoOverrun /\ SeenIsUpperBound)'
    <2>1. DataLen' = DataLen
      BY <1>9 DEF WtRoom, DataLen
    <2>2. DataLen <= seen[w] /\ seen[w] \in Nat /\ Len(data[w]) \in Nat
      BY <1>9, SizeAssumption DEF WtRoom, Goto, Slots, Thread
    <2>3. Fits(w) => DataLen + Len(data[w]) < Size
      BY <2>2, <1>n DEF Fits, Room
    <2>4. \A s \in Writer : s = w
      BY DEF SingleEnded
    <2>5. WriterSafe'
      BY <1>9, <2>1, <2>3, <2>4 DEF WtRoom, Goto, Thread
    <2>6. SeenIsUpperBound'
      BY <1>9, <2>4 DEF WtRoom, Goto, Thread
    <2>7. \A r \in Reader : pc'[r] = pc[r] /\ seen'[r] = seen[r]
      BY <1>9 DEF WtRoom, Goto, SingleEnded, Thread
    <2> QED BY <2>1, <2>5, <2>6, <2>7
  <1>10. ASSUME NEW w \in Writer, WtCopy(w) PROVE (NoOverrun /\ SeenIsUpperBound)'
    <2>1. Len(data[w]) \in Nat /\ DataLen + Len(data[w]) < Size
      BY <1>10 DEF WtCopy, Goto
    <2>2. DataLen' = DataLen + Len(data[w])
      BY <1>10, <2>1, WriteLengthens DEF WtCopy
    <2>3. DataLen' >= DataLen /\ DataLen' \in Nat
      BY <2>1, <2>2, <1>n
    <2>4. \A s \in Writer : pc'[s] = "idle"
      BY <1>10 DEF WtCopy, Goto, SingleEnded, Thread
    <2>5. \A r \in Reader : pc'[r] = pc[r] /\ seen'[r] = seen[r] /\ seen[r] \in Nat
      BY <1>10, SizeAssumption DEF WtCopy, Goto, SingleEnded, Thread, Slots
    <2>6. ReaderSafe'
      BY <2>3, <2>5, <1>n
    <2> QED BY <2>4, <2>6
  <1>11. CASE UNCHANGED vars
    BY <1>11 DEF vars, DataLen
  <1> QED BY <1>1, <1>2, <1>3, <1>4, <1>5, <1>6, <1>7, <1>8, <1>9, <1>10, <1>11 DEF Next

-----------------------------------------------------------------------------
\* Whatever threads read, write and reset the buffer, however many, the
\* positions stay inside it and so does every byte a read or a write touches: a
\* length gone stale between two critical sections costs data, never an access
\* outside pby_ring_buf (aui_common_ring_buf_rd, aui_common_ring_buf_wt).
THEOREM PositionsStayInside == Spec => []TypeOK
  <1>1. Init => TypeOK /\ FitsTheBuffer
    BY TypeInit DEF IInv, Init, FitsTheBuffer, Thread
  <1>2. TypeOK /\ FitsTheBuffer /\ [Next]_vars => TypeOK' /\ FitsTheBuffer'
    BY TypeStep, FitsStep
  <1> QED BY <1>1, <1>2, PTL DEF Spec

\* The positions never leave the buffer and no copy acts on a length that has
\* gone bad since it was taken, whatever the size of the buffer
\* (aui_common_ring_buf_rd, aui_common_ring_buf_wt).
THEOREM SingleEndedIsSafe == ASSUME SingleEnded PROVE Spec => [](TypeOK /\ NoOverrun)
  <1>1. Init => IInv
    BY TypeInit
  <1>2. IInv /\ [Next]_vars => IInv'
    <2> SUFFICES ASSUME IInv, [Next]_vars PROVE IInv'
      OBVIOUS
    <2>1. TypeOK'
      BY TypeStep, SafeFits DEF IInv, NoOverrun
    <2>2. (NoOverrun /\ SeenIsUpperBound)'
      BY SafeStep
    <2> QED BY <2>1, <2>2 DEF IInv
  <1>3. IInv => TypeOK /\ NoOverrun
    BY DEF IInv
  <1> QED BY <1>1, <1>2, <1>3, PTL DEF Spec

-----------------------------------------------------------------------------
\* What the ring holds, read off as a sequence.
ReadsAsSeq ==
    /\ Contents \in Seq(Byte)
    /\ Len(Contents) = DataLen
    /\ DataLen \in Nat
    /\ \A i \in 1..DataLen : Contents[i] = buf[Slot(rd + i - 1)]

LEMMA ContentsIsSeq == TypeOK => ReadsAsSeq
  <1> SUFFICES ASSUME TypeOK PROVE ReadsAsSeq
    OBVIOUS
  <1>1. DataLen \in Nat /\ DataLen < Size
    BY DataLenInSlots, SizeAssumption DEF TypeOK, Slots
  <1>2. \A i \in 1..DataLen : Slot(rd + i - 1) \in Slots
    BY <1>1, SizeAssumption DEF TypeOK, Slots, Slot
  <1>3. Contents \in [1..DataLen -> Byte]
    BY <1>2 DEF Contents, TypeOK
  <1>4. Contents \in Seq(Byte) /\ Len(Contents) = DataLen
    BY <1>1, <1>3, FiniteFunctionsAreSeqs
  <1> QED BY <1>1, <1>4 DEF Contents, ReadsAsSeq

LEMMA ContentsStaySeq == TypeOK' => ReadsAsSeq'
  BY ContentsIsSeq, PTL

\* The bytes a read of n copies out are the n oldest, and the ring keeps the rest.
LEMMA ReadTakesTheFront ==
    ASSUME TypeOK, TypeOK', NEW n \in 0..DataLen,
           rd' = Slot(rd + n), wt' = wt, buf' = buf
    PROVE  /\ [i \in 1..n |-> buf[Slot(rd + i - 1)]] = SubSeq(Contents, 1, n)
           /\ Contents' = SubSeq(Contents, n + 1, Len(Contents))
  <1>1. /\ Contents \in Seq(Byte) /\ Len(Contents) = DataLen /\ DataLen \in Nat
        /\ \A i \in 1..DataLen : Contents[i] = buf[Slot(rd + i - 1)]
    BY ContentsIsSeq DEF ReadsAsSeq
  <1>2. /\ Contents' \in Seq(Byte) /\ Len(Contents') = DataLen'
        /\ \A i \in 1..DataLen' : Contents'[i] = buf'[Slot(rd' + i - 1)]
    BY ContentsStaySeq DEF ReadsAsSeq
  <1>3. DataLen' = DataLen - n
    BY ReadShortens DEF TypeOK
  <1>4. DataLen < Size
    BY DataLenInSlots, SizeAssumption DEF TypeOK, Slots
  <1>5. \A i \in 1..(DataLen - n) : Slot(rd' + i - 1) = Slot(rd + (i + n) - 1)
    BY <1>1, <1>4, SizeAssumption DEF TypeOK, Slots, Slot
  <1>6. [i \in 1..n |-> buf[Slot(rd + i - 1)]] = SubSeq(Contents, 1, n)
    BY <1>1
  <1>7. Contents' = SubSeq(Contents, n + 1, Len(Contents))
    <2> DEFINE rest == SubSeq(Contents, n + 1, Len(Contents))
    <2>1. rest \in Seq(Byte) /\ Len(rest) = DataLen - n
      BY <1>1
    <2>2. \A i \in 1..(DataLen - n) : rest[i] = Contents[i + n]
      BY <1>1
    <2>3. \A i \in 1..(DataLen - n) : Contents'[i] = rest[i]
      <3> TAKE i \in 1..(DataLen - n)
      <3>1. i + n \in 1..DataLen
        BY <1>1
      <3>2. Contents'[i] = buf[Slot(rd' + i - 1)]
        BY <1>2, <1>3
      <3> QED BY <3>1, <3>2, <1>1, <1>5, <2>2
    <2> HIDE DEF rest
    <2>4. Contents' = rest
      BY <1>2, <1>3, <2>1, <2>3, SeqEqual
    <2> QED BY <2>4 DEF rest
  <1> QED BY <1>6, <1>7

\* How far behind the write position the i-th byte from the read position lies.
LEMMA PastWtOfByte ==
    ASSUME rd \in Slots, wt \in Slots, NEW i \in 1..(Size - 1)
    PROVE  /\ i <= DataLen => PastWt(Slot(rd + i - 1)) = Size + i - 1 - DataLen
           /\ i > DataLen => PastWt(Slot(rd + i - 1)) = i - DataLen - 1
  <1>1. rd \in 0..(Size - 1) /\ wt \in 0..(Size - 1) /\ Size \in Nat
    BY SizeAssumption DEF Slots
  <1>2. CASE wt >= rd
    <2>1. DataLen = wt - rd
      BY <1>2 DEF DataLen
    <2> QED BY <1>1, <1>2, <2>1 DEF Slot, PastWt
  <1>3. CASE wt < rd
    <2>1. DataLen = Size + wt - rd
      BY <1>1, <1>3 DEF DataLen
    <2> QED BY <1>1, <1>3, <2>1 DEF Slot, PastWt
  <1> QED BY <1>1, <1>2, <1>3

\* A write of a sequence that fits appends it to what the ring holds.
LEMMA WriteAppends ==
    ASSUME TypeOK, TypeOK', NEW s \in Seq(Byte), DataLen + Len(s) < Size,
           buf' = [i \in Slots |-> IF PastWt(i) < Len(s) THEN s[PastWt(i) + 1] ELSE buf[i]],
           wt' = Slot(wt + Len(s)), rd' = rd
    PROVE  Contents' = Contents \o s
  <1>1. /\ Contents \in Seq(Byte) /\ Len(Contents) = DataLen /\ DataLen \in Nat
        /\ \A i \in 1..DataLen : Contents[i] = buf[Slot(rd + i - 1)]
    BY ContentsIsSeq DEF ReadsAsSeq
  <1>2. /\ Contents' \in Seq(Byte) /\ Len(Contents') = DataLen'
        /\ \A i \in 1..DataLen' : Contents'[i] = buf'[Slot(rd' + i - 1)]
    BY ContentsStaySeq DEF ReadsAsSeq
  <1>3. Len(s) \in Nat
    OBVIOUS
  <1>4. DataLen' = DataLen + Len(s)
    BY <1>3, WriteLengthens DEF TypeOK
  <1> DEFINE joined == Contents \o s
  <1>5. joined \in Seq(Byte) /\ Len(joined) = DataLen + Len(s)
    BY <1>1, ConcatProperties
  <1>6. \A i \in 1..(DataLen + Len(s)) : Contents'[i] = joined[i]
    <2> SUFFICES ASSUME NEW i \in 1..(DataLen + Len(s))
                 PROVE  Contents'[i] = joined[i]
      OBVIOUS
    <2>1. Slot(rd + i - 1) \in Slots
      BY <1>1, <1>3, SizeAssumption DEF TypeOK, Slots, Slot
    <2>0. rd \in Slots /\ wt \in Slots
      BY DEF TypeOK
    <2>5. i \in 1..(Size - 1) /\ i \in Nat /\ Size \in Nat
      BY <1>1, <1>3, SizeAssumption
    <2>2. Contents'[i] = buf'[Slot(rd + i - 1)]
      BY <1>2, <1>4
    <2>3. CASE i <= DataLen
      <3>0. PastWt(Slot(rd + i - 1)) = Size + i - 1 - DataLen
        BY <2>0, <2>5, <2>3, PastWtOfByte
      <3>1. PastWt(Slot(rd + i - 1)) >= Len(s)
        BY <3>0, <2>5, <1>1, <1>3
      <3>2. PastWt(Slot(rd + i - 1)) \in Int
        BY <2>1, SizeAssumption DEF TypeOK, Slots, PastWt
      <3>3. Contents'[i] = buf[Slot(rd + i - 1)]
        BY <2>1, <2>2, <3>1, <3>2, <1>3
      <3> QED BY <3>3, <2>3, <1>1
    <2>4. CASE i > DataLen
      <3>1. PastWt(Slot(rd + i - 1)) = i - DataLen - 1
        BY <2>0, <2>5, <2>4, PastWtOfByte
      <3>2. i - DataLen - 1 < Len(s) /\ (i - DataLen - 1) + 1 = i - DataLen
        BY <1>1, <1>3
      <3>3. Contents'[i] = s[i - DataLen]
        BY <2>1, <2>2, <3>1, <3>2
      <3> QED BY <3>3, <2>4, <1>1, <1>3
    <2> QED BY <2>3, <2>4, <1>1, <1>3
  <1> HIDE DEF joined
  <1>7. Contents' = joined
    BY <1>2, <1>4, <1>5, <1>6, SeqEqual
  <1> QED BY <1>7 DEF joined

-----------------------------------------------------------------------------
\* No thread is inside a call of a buffer that is not there.
LiveInCalls == \A t \in Thread : pc[t] # "idle" => live

RInv == IInv /\ LiveInCalls

LEMMA LiveStep == ASSUME TypeOK, LiveInCalls, [Next]_vars PROVE LiveInCalls'
  <1> USE DEF TypeOK, LiveInCalls, Thread
  <1>1. CASE InitRing \/ UnInitRing
    BY <1>1 DEF InitRing, UnInitRing, Quiet
  <1>2. ASSUME NEW t \in Thread, Rst(t) PROVE LiveInCalls'
    BY <1>2 DEF Rst
  <1>3. ASSUME NEW r \in Reader, RdCheck(r) \/ RdLen(r) \/ RdCopy(r) PROVE LiveInCalls'
    BY <1>3 DEF RdCheck, RdLen, RdCopy, Goto
  <1>4. ASSUME NEW w \in Writer, WtCheck(w) \/ WtLen(w) \/ WtRoom(w) \/ WtCopy(w)
        PROVE  LiveInCalls'
    BY <1>4 DEF WtCheck, WtLen, WtRoom, WtCopy, Goto
  <1>5. CASE UNCHANGED vars
    BY <1>5 DEF vars
  <1> QED BY <1>1, <1>2, <1>3, <1>4, <1>5 DEF Next

LEMMA RInvHolds == ASSUME SingleEnded PROVE Spec => []RInv
  <1>1. Init => RInv
    BY TypeInit DEF RInv, Init, LiveInCalls, Thread
  <1>2. RInv /\ [Next]_vars => RInv'
    <2> SUFFICES ASSUME RInv, [Next]_vars PROVE RInv'
      OBVIOUS
    <2>1. TypeOK' /\ LiveInCalls'
      BY TypeStep, SafeFits, LiveStep DEF RInv, IInv, NoOverrun
    <2>2. (NoOverrun /\ SeenIsUpperBound)'
      BY SafeStep DEF RInv
    <2> QED BY <2>1, <2>2 DEF RInv, IInv
  <1> QED BY <1>1, <1>2, PTL DEF Spec

\* The queue the ring buffer stands for: nothing while there is no buffer.
Queue == IF live THEN Contents ELSE <<>>

LEMMA EmptyRing == rd = 0 /\ wt = 0 => Contents = <<>>
  BY DEF Contents, DataLen

LEMMA EmptyRingNext == (rd = 0 /\ wt = 0 => Contents = <<>>)'
  BY EmptyRing, PTL

\* A step that leaves the buffer and the positions alone leaves the queue alone.
LEMMA QueueUnmoved ==
    ASSUME UNCHANGED <<live, buf, rd, wt>> PROVE Queue' = Queue
  BY DEF Queue, Contents, DataLen

\* Every critical section is one step of the queue, or none.
LEMMA StepRefines ==
    ASSUME SingleEnded, RInv, RInv', [Next]_vars
    PROVE  [Fifo!FifoNext]_(Fifo!fifoVars)
  <1> USE DEF Fifo!fifoVars
  <1>t. TypeOK /\ TypeOK' /\ LiveInCalls /\ ReaderSafe /\ WriterSafe
    BY DEF RInv, IInv, NoOverrun
  <1>c. ReadsAsSeq
    BY <1>t, ContentsIsSeq
  <1>1. CASE InitRing
    <2>1. Queue' = <<>>
      BY <1>1, EmptyRingNext DEF InitRing, Queue
    <2>2. Fifo!Clear
      BY <1>1, <2>1 DEF InitRing, Fifo!Clear, Queue
    <2> QED BY <2>2 DEF Fifo!FifoNext
  <1>2. CASE UnInitRing
    <2>1. Fifo!Clear
      BY <1>2 DEF UnInitRing, Fifo!Clear
    <2> QED BY <2>1 DEF Fifo!FifoNext
  <1>3. ASSUME NEW t \in Thread, Rst(t) PROVE [Fifo!FifoNext]_(Fifo!fifoVars)
    <2>1. Queue' = <<>>
      BY <1>3, EmptyRingNext DEF Rst, Queue
    <2>2. Fifo!Clear
      BY <1>3, <2>1 DEF Rst, Fifo!Clear, Queue
    <2> QED BY <2>2 DEF Fifo!FifoNext
  <1>4. ASSUME NEW r \in Reader, RdCheck(r) PROVE [Fifo!FifoNext]_(Fifo!fifoVars)
    <2>1. PICK n \in 1..MaxReq : want' = [want EXCEPT ![r] = n]
      BY <1>4 DEF RdCheck
    <2>2. want'[r] = n /\ n \in Nat
      BY <2>1, <1>t, MaxReqAssumption DEF TypeOK
    <2>3. Queue' = Queue /\ UNCHANGED <<out, data>>
      BY <1>4, QueueUnmoved DEF RdCheck
    <2>4. Fifo!CallRead(r)
      BY <2>1, <2>2, <2>3 DEF Fifo!CallRead, Queue
    <2> QED BY <2>4 DEF Fifo!FifoNext
  <1>5. ASSUME NEW r \in Reader, RdLen(r) PROVE [Fifo!FifoNext]_(Fifo!fifoVars)
    BY <1>5, QueueUnmoved DEF RdLen, Queue
  <1>6. ASSUME NEW r \in Reader, RdCopy(r) PROVE [Fifo!FifoNext]_(Fifo!fifoVars)
    <2>1. live /\ live' /\ pc[r] = "rd_copy"
      BY <1>6, <1>t DEF RdCopy, Goto, LiveInCalls, Thread
    <2>2. ReadLen(r) \in 0..DataLen /\ ReadLen(r) <= want[r]
      BY <2>1, <1>t, DataLenInSlots, SizeAssumption, MaxReqAssumption
      DEF TypeOK, ReaderSafe, ReadLen, Slots, Thread
    <2>3. /\ [i \in 1..ReadLen(r) |-> buf[Slot(rd + i - 1)]]
                 = SubSeq(Contents, 1, ReadLen(r))
          /\ Contents' = SubSeq(Contents, ReadLen(r) + 1, Len(Contents))
      BY <1>6, <1>t, <2>2, ReadTakesTheFront DEF RdCopy
    <2>4. Queue = Contents /\ Queue' = Contents' /\ ReadLen(r) \in 0..Len(Queue)
      BY <2>1, <2>2, <1>c DEF Queue, ReadsAsSeq
    <2>5. out' = [out EXCEPT ![r] = SubSeq(Queue, 1, ReadLen(r))]
      BY <1>6, <2>3, <2>4 DEF RdCopy
    <2>6. Queue' = SubSeq(Queue, ReadLen(r) + 1, Len(Queue))
      BY <2>3, <2>4
    <2>7. Fifo!Read(r)
      BY <1>6, <2>2, <2>4, <2>5, <2>6 DEF Fifo!Read, RdCopy, Queue
    <2> QED BY <2>7 DEF Fifo!FifoNext
  <1>7. ASSUME NEW w \in Writer, WtCheck(w) PROVE [Fifo!FifoNext]_(Fifo!fifoVars)
    <2>1. PICK s \in Requests : data' = [data EXCEPT ![w] = s]
      BY <1>7 DEF WtCheck
    <2>2. data'[w] = s /\ s \in Seq(Byte)
      BY <2>1, <1>t, RequestsAreSeqs DEF TypeOK
    <2>3. Queue' = Queue /\ UNCHANGED <<out, want>>
      BY <1>7, QueueUnmoved DEF WtCheck
    <2>4. Fifo!CallWrite(w)
      BY <2>1, <2>2, <2>3 DEF Fifo!CallWrite, Queue
    <2> QED BY <2>4 DEF Fifo!FifoNext
  <1>8. ASSUME NEW w \in Writer, WtLen(w) \/ WtRoom(w)
        PROVE  [Fifo!FifoNext]_(Fifo!fifoVars)
    BY <1>8, QueueUnmoved DEF WtLen, WtRoom, Queue
  <1>9. ASSUME NEW w \in Writer, WtCopy(w) PROVE [Fifo!FifoNext]_(Fifo!fifoVars)
    <2>1. live /\ live' /\ pc[w] = "wt_copy" /\ data[w] \in Seq(Byte)
      BY <1>9, <1>t DEF WtCopy, Goto, LiveInCalls, Thread, TypeOK
    <2>2. DataLen + Len(data[w]) < Size
      BY <2>1, <1>t DEF WriterSafe
    <2>3. Contents' = Contents \o data[w]
      BY <1>9, <1>t, <2>1, <2>2, WriteAppends DEF WtCopy
    <2>4. Queue = Contents /\ Queue' = Contents' /\ Len(Queue) = DataLen
      BY <2>1, <1>c DEF Queue, ReadsAsSeq
    <2>5. Len(Queue) + Len(data[w]) <= Size - 1
      BY <2>1, <2>2, <2>4, <1>c, SizeAssumption DEF ReadsAsSeq
    <2>6. Fifo!Write(w)
      BY <1>9, <2>3, <2>4, <2>5 DEF Fifo!Write, WtCopy, Queue
    <2> QED BY <2>6 DEF Fifo!FifoNext
  <1>10. CASE UNCHANGED vars
    BY <1>10, QueueUnmoved DEF vars, Queue
  <1> QED
    BY <1>1, <1>2, <1>3, <1>4, <1>5, <1>6, <1>7, <1>8, <1>9, <1>10 DEF Next

\* The ring buffer is a bounded first-in first-out queue of Size - 1 bytes: a
\* read delivers the oldest bytes written, in order and each once, a write adds
\* all of its bytes or none, and a reset loses exactly what was still unread,
\* although the mutex is given up between the check of the length and the copy
\* (aui_common_ring_buf_rd, aui_common_ring_buf_wt, aui_common_rst_ring_buf).
THEOREM RingIsFifo == ASSUME SingleEnded PROVE Spec => RefinesFifo
  <1>1. Init => Fifo!FifoInit
    BY DEF Init, Fifo!FifoInit
  <1>2. RInv /\ RInv' /\ [Next]_vars => [Fifo!FifoNext]_(Fifo!fifoVars)
    BY StepRefines
  <1>3. Spec => []RInv
    BY RInvHolds
  <1> QED BY <1>1, <1>2, <1>3, PTL DEF Spec, RefinesFifo, Fifo!FifoSpec

-----------------------------------------------------------------------------
(****************************************************************************)
(* DevRegistry for every set of threads, addresses and indices.  Handles may *)
(* be shared (FindsFirst) and the unsynchronised initialisation of the lists  *)
(* may race: what is proved is what survives both.                          *)
(****************************************************************************)
\* The thread works on a structure that is not linked, or not any more.
Private(t) == at[t] \in {"reg", "wipe", "mark", "add", "unlisted", "free"}

\* Threads that nobody shares a structure with: where an open never finds a
\* device, those that have one open are among them.
Owner == {t \in User : Private(t) \/ (~FindsFirst /\ at[t] = "open")}

Owned ==
    /\ \A t \in Owner : mem[held[t]] # Free
    /\ \A t, u \in Owner : held[t] = held[u] => t = u

PrivateIsUnlisted == \A t \in User : Private(t) => held[t] \notin list

RegInv == RegTypeOK /\ Owned /\ PrivateIsUnlisted /\ ListedIsAllocated /\ UniqueIndex

-----------------------------------------------------------------------------
LEMMA RegStarts == RegInit => RegInv
  BY ModeAssumption
  DEF RegInit, RegInv, RegTypeOK, Owned, Owner, Private, PrivateIsUnlisted,
      ListedIsAllocated, UniqueIndex

\* One step per action: what it does to the structures, then to the list.
LEMMA RegStep == ASSUME RegInv, [RegNext]_regVars PROVE RegInv'
  <1> USE DEF RegInv, RegTypeOK, Owned, Owner, Private, PrivateIsUnlisted,
              ListedIsAllocated, UniqueIndex, Go
  <1>1. ASSUME NEW t \in User, OpenNew(t) PROVE RegInv'
    <2>1. PICK i \in Idx, h \in Hdl : /\ mem[h] = Free
                                      /\ mem' = [mem EXCEPT ![h] = i]
                                      /\ held' = [held EXCEPT ![t] = h]
      BY <1>1 DEF OpenNew
    <2>2. i # Free /\ h # None /\ h \notin list
      BY <2>1, FreeAssumption
    <2>3. RegTypeOK'
      BY <1>1, <2>1, <2>2 DEF OpenNew
    <2>4. \A u \in Owner : held[u] # h
      BY <2>1
    <2>5. Owned'
      BY <1>1, <2>1, <2>2, <2>4 DEF OpenNew
    <2>6. PrivateIsUnlisted'
      BY <1>1, <2>1, <2>2 DEF OpenNew
    <2>7. ListedIsAllocated' /\ UniqueIndex'
      BY <1>1, <2>1, <2>2 DEF OpenNew
    <2> QED BY <2>3, <2>5, <2>6, <2>7
  <1>2. ASSUME NEW t \in User, OpenFound(t) PROVE RegInv'
    BY <1>2, FreeAssumption DEF OpenFound
  <1>3. ASSUME NEW t \in User, RegCheck(t) PROVE RegInv'
    BY <1>3 DEF RegCheck
  <1>4. ASSUME NEW t \in User, RegWipe(t) PROVE RegInv'
    BY <1>4 DEF RegWipe
  <1>5. ASSUME NEW t \in User, RegMark(t) PROVE RegInv'
    BY <1>5 DEF RegMark
  <1>6. ASSUME NEW t \in User, RegAdd(t) PROVE RegInv'
    <2>1. t \in Owner /\ mem[held[t]] # Free /\ held[t] \in Hdl
      BY <1>6 DEF RegAdd
    <2>2. RegTypeOK' /\ Owned'
      BY <1>6 DEF RegAdd
    <2>3. PrivateIsUnlisted'
      BY <1>6, <2>1 DEF RegAdd
    <2>4. ListedIsAllocated' /\ UniqueIndex'
      BY <1>6, <2>1 DEF RegAdd, SameIdx
    <2> QED BY <2>2, <2>3, <2>4
  <1>7. ASSUME NEW t \in User, RegTaken(t) PROVE RegInv'
    <2>1. t \in Owner /\ held[t] \in Hdl /\ held[t] \notin list
      BY <1>7 DEF RegTaken
    <2>2. CASE FindsFirst
      BY <1>7, <2>1, <2>2 DEF RegTaken
    <2>3. CASE ~FindsFirst
      BY <1>7, <2>1, <2>3 DEF RegTaken
    <2> QED BY <2>2, <2>3
  <1>8. ASSUME NEW t \in User, Unregister(t) PROVE RegInv'
    <2>1. held[t] \in Hdl /\ mem[held[t]] # Free
      BY <1>8 DEF Unregister
    <2>2. \A u \in Owner \ {t} : held[u] # held[t]
      BY <1>8 DEF Unregister
    <2>3. RegTypeOK'
      BY <1>8 DEF Unregister, Unreg
    <2>4. Owner' = Owner \cup {t} /\ UNCHANGED <<mem, held>>
      BY <1>8 DEF Unregister
    <2>5. Owned'
      BY <2>1, <2>2, <2>4
    <2>6. PrivateIsUnlisted' /\ ListedIsAllocated' /\ UniqueIndex'
      BY <1>8 DEF Unregister, Unreg
    <2> QED BY <2>3, <2>5, <2>6
  <1>9. ASSUME NEW t \in User, UnregisterFails(t) PROVE RegInv'
    BY <1>9 DEF UnregisterFails
  <1>10. ASSUME NEW t \in User, Release(t) PROVE RegInv'
    <2>1. t \in Owner /\ held[t] \in Hdl /\ held[t] \notin list
      BY <1>10 DEF Release
    <2>2. \A u \in Owner \ {t} : held[u] # held[t]
      BY <2>1
    <2>3. RegTypeOK'
      BY <1>10 DEF Release
    <2>4. Owned'
      BY <1>10, <2>1, <2>2 DEF Release
    <2>5. PrivateIsUnlisted' /\ ListedIsAllocated' /\ UniqueIndex'
      BY <1>10, <2>1 DEF Release
    <2> QED BY <2>3, <2>4, <2>5
  <1>11. CASE UNCHANGED regVars
    BY <1>11 DEF regVars
  <1> QED
    BY <1>1, <1>2, <1>3, <1>4, <1>5, <1>6, <1>7, <1>8, <1>9, <1>10, <1>11 DEF RegNext

\* However opens, closes and the racing first registrations interleave, two
\* listed devices never share an index (aui_dev_reg).
THEOREM RegistryUnique == RegSpec => []UniqueIndex
  <1>1. RegInv /\ [RegNext]_regVars => RegInv'
    BY RegStep
  <1>2. RegInv => UniqueIndex
    BY DEF RegInv
  <1> QED BY RegStarts, <1>1, <1>2, PTL DEF RegSpec

\* ... and no freed structure is ever linked (aui_dev_unreg before free).
THEOREM RegistryAllocated == RegSpec => []ListedIsAllocated
  <1>1. RegInv /\ [RegNext]_regVars => RegInv'
    BY RegStep
  <1>2. RegInv => ListedIsAllocated
    BY DEF RegInv
  <1> QED BY RegStarts, <1>1, <1>2, PTL DEF RegSpec

-----------------------------------------------------------------------------
(****************************************************************************)
(* VbiTtx, whose lines go through a ring buffer and whose device is in a    *)
(* registry, for every capacity and every length of packet.                 *)
(****************************************************************************)
\* A write thread and its callbacks live within one start and its stop: the
\* ring buffer is there from the one to the other, the mutex and the condition
\* from before the thread is created until after it was joined, and packets
\* arrive only between the enabling of the channel and its release.
OneSession ==
    /\ app # "idle" => ring
    /\ app = "spawn" => sync = "ready"
    /\ thr # "none" => app \in {"started", "clear", "signal", "join"} /\ sync = "ready"
    /\ chan = "on" \/ cb # "idle" => app \in {"run", "create", "spawn", "started"}

TInv == TtxTypeOK /\ OneSession /\ (cb = "put" => left > 0)

LEMMA TtxStarts == TtxInit => TInv
<1>1. 0 \in 0..Cap /\ 0 \in 0..MaxLines
  BY BoundsAssumption
<1> QED
  BY <1>1 DEF TtxInit, TtxTypeOK, TInv, OneSession

\* One step per thread, and under it one per statement.
LEMMA TtxStep ==
    ASSUME TInv, [TtxNext]_ttxVars
    PROVE  TInv'
<1> USE BoundsAssumption DEF TInv, OneSession, TtxTypeOK
<1>1. CASE StartSetup
  <2>1. 0 \in 0..Cap
    OBVIOUS
  <2> QED
    BY <1>1, <2>1 DEF StartSetup
<1>2. CASE StartFails
  BY <1>2 DEF StartFails
<1>3. CASE StartEnable
  BY <1>3 DEF StartEnable
<1>4. CASE StartRun
  BY <1>4 DEF StartRun
<1>5. CASE StartSync
  BY <1>5 DEF StartSync
<1>6. CASE StartSpawn
  BY <1>6 DEF StartSpawn
<1>7. CASE StartSpawnFails
  BY <1>7 DEF StartSpawnFails
<1>8. CASE StopFree
  BY <1>8 DEF StopFree
<1>9. CASE StopFreeFails
  BY <1>9 DEF StopFreeFails
<1>10. CASE StopFlag
  BY <1>10 DEF StopFlag
<1>11. CASE StopSignal
  BY <1>11 DEF StopSignal, Signal
<1>12. CASE StopJoin
  BY <1>12 DEF StopJoin
<1>13. CASE StopJoinFails
  BY <1>13 DEF StopJoinFails
<1>14. CASE StopDestroy
  BY <1>14 DEF StopDestroy
<1>15. CASE ThrFlag
  BY <1>15 DEF ThrFlag, Thr, appVars
<1>16. CASE ThrLen
  BY <1>16 DEF ThrLen, Thr, appVars
<1>17. CASE ThrSleep \/ ThrSpurious
  BY <1>17 DEF ThrSleep, ThrSpurious, Thr, appVars
<1>18. CASE ThrRead
  BY <1>18 DEF ThrRead, Thr, appVars
<1>19. CASE ThrWrite
  BY <1>19 DEF ThrWrite, Thr, appVars
<1>20. CASE CbBegin
  BY <1>20 DEF CbBegin, appVars
<1>21. CASE CbFlag
  BY <1>21 DEF CbFlag, appVars
<1>22. CASE CbPut
  <2>1. lines' \in 0..Cap /\ left' \in 0..MaxLines
    BY <1>22 DEF CbPut
  <2> QED
    BY <1>22, <2>1 DEF CbPut, appVars
<1>23. CASE CbLen
  BY <1>23 DEF CbLen, appVars
<1>24. CASE CbSignal
  BY <1>24 DEF CbSignal, Signal, appVars
<1>25. CASE UNCHANGED ttxVars
  BY <1>25 DEF ttxVars, appVars
<1> QED
  BY <1>1, <1>2, <1>3, <1>4, <1>5, <1>6, <1>7, <1>8, <1>9, <1>10, <1>11, <1>12, <1>13,
     <1>14, <1>15, <1>16, <1>17, <1>18, <1>19, <1>20, <1>21, <1>22, <1>23, <1>24, <1>25
     DEF TtxNext, StartStep, StartRest, StopStep, StopRest,
         ThrStep, CbStep

LEMMA TtxHolds == TtxSpec => []TInv
<1>1. TtxInit => TInv
  BY TtxStarts
<1>2. TInv /\ [TtxNext]_ttxVars => TInv'
  BY TtxStep
<1> QED
  BY <1>1, <1>2, PTL DEF TtxSpec

\* The queue never holds more lines than it has room for, and the callback puts
\* no more lines than its packet has (aui_vbi_data_callback).
THEOREM TtxTypesHold == TtxSpec => []TtxTypeOK
<1>1. TtxSpec => []TInv
  BY TtxHolds
<1>2. TInv => TtxTypeOK
  BY DEF TInv
<1> QED
  BY <1>1, <1>2, PTL

\* Through every start, every stop and every failure of either, a thread about
\* to touch the ring buffer, the mutex or the condition finds them there, and no
\* write thread survives into the next start (aui_vbi_ttx_stop).
THEOREM TtxObjectsAreThere == TtxSpec => []UsersFindTheirObjects
<1>1. TtxSpec => []TInv
  BY TtxHolds
<1>2. TInv => UsersFindTheirObjects
  BY DEF TInv, OneSession, TtxTypeOK, UsersFindTheirObjects
<1> QED
  BY <1>1, <1>2, PTL
=============================================================================

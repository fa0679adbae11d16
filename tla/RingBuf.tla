------------------------------- MODULE RingBuf -------------------------------
(***************************************************************************)
(* The ring buffer of src/linux/aui_common.c (aui_common_init_ring_buf to  *)
(* aui_common_ring_buf_wt).  Every access to the positions is made under   *)
(* the mutex sem_ring, but a read and a write give it up twice: they look  *)
(* at the length in one critical section, decide on it with the mutex      *)
(* free, and copy in a later one.  An action is one critical section.      *)
(***************************************************************************)
EXTENDS Integers, Sequences

CONSTANTS
    Size,       \* ul_ring_buf_len
    Byte,       \* the bytes, 0 among them
    Reader,     \* threads that call aui_common_ring_buf_rd
    Writer,     \* threads that call aui_common_ring_buf_wt
    Resetter,   \* those of them that call aui_common_rst_ring_buf
    MaxReq      \* bound: the longest request

ASSUME SizeAssumption == Size \in Nat \ {0}
ASSUME ByteAssumption == 0 \in Byte
ASSUME MaxReqAssumption == MaxReq \in Nat \ {0}

VARIABLES
    live,       \* pby_ring_buf # NULL
    buf, rd, wt,
    pc,         \* where each thread stands
    want,       \* want[r]: ul_buf_len of r's call of _rd
    data,       \* data[w]: p_data_in of w's call of _wt
    seen,       \* seen[t]: the data length t found in its first section
    out         \* out[r]: p_data_out of r's last completed read

vars == <<live, buf, rd, wt, pc, want, data, seen, out>>

Thread == Reader \cup Writer
Slots == 0..(Size - 1)
Requests == UNION {[1..n -> Byte] : n \in 1..MaxReq}

(***************************************************************************)
(* Positions wrap at Size, and one slot always stays free.                 *)
(***************************************************************************)
Slot_NoWrapAtEnd(i) == IF i <= Size THEN i ELSE i - Size   \* mutant
Slot(i) == IF i < Size THEN i ELSE i - Size

DataLen == IF wt >= rd THEN wt - rd ELSE Size + wt - rd

Room_NoFreeSlot(len) == Size - len                          \* mutant
Room(len) == Size - len - 1

Contents == [i \in 1..DataLen |-> buf[Slot(rd + i - 1)]]

Init ==
    /\ live = FALSE
    /\ buf = [i \in Slots |-> 0]
    /\ rd = 0
    /\ wt = 0
    /\ pc = [t \in Thread |-> "idle"]
    /\ want = [r \in Reader |-> 0]
    /\ data = [w \in Writer |-> <<>>]
    /\ seen = [t \in Thread |-> 0]
    /\ out = [r \in Reader |-> <<>>]

Goto(t, from, to) == pc[t] = from /\ pc' = [pc EXCEPT ![t] = to]

Quiet == \A t \in Thread : pc[t] = "idle"

(***************************************************************************)
(* Creation and release.  The callers modelled here create the buffer      *)
(* before its threads start and release it after they have been joined     *)
(* (aui_vbi_ttx_start, aui_vbi_ttx_stop), hence Quiet.                      *)
(***************************************************************************)
InitRing ==
    /\ ~live /\ Quiet
    /\ live' = TRUE
    /\ buf' = [i \in Slots |-> 0]
    /\ rd' = 0
    /\ wt' = 0
    /\ UNCHANGED <<pc, want, data, seen, out>>

UnInitRing ==
    /\ live /\ Quiet
    /\ live' = FALSE
    /\ UNCHANGED <<buf, rd, wt, pc, want, data, seen, out>>

Rst(t) ==
    /\ t \in Resetter /\ live /\ pc[t] = "idle"
    /\ rd' = 0
    /\ wt' = 0
    /\ UNCHANGED <<live, buf, pc, want, data, seen, out>>

(***************************************************************************)
(* aui_common_ring_buf_rd: check, take the length, copy.                   *)
(***************************************************************************)
RdCheck(r) ==
    /\ live /\ Goto(r, "idle", "rd_len")
    /\ \E n \in 1..MaxReq : want' = [want EXCEPT ![r] = n]
    /\ UNCHANGED <<live, buf, rd, wt, data, seen, out>>

RdLen(r) ==
    /\ Goto(r, "rd_len", "rd_copy")
    /\ seen' = [seen EXCEPT ![r] = DataLen]
    /\ UNCHANGED <<live, buf, rd, wt, want, data, out>>

ReadLen(r) == IF want[r] > seen[r] THEN seen[r] ELSE want[r]

RdCopy(r) ==
    /\ Goto(r, "rd_copy", "idle")
    /\ out' = [out EXCEPT ![r] = [i \in 1..ReadLen(r) |-> buf[Slot(rd + i - 1)]]]
    /\ rd' = Slot(rd + ReadLen(r))
    /\ seen' = [seen EXCEPT ![r] = 0]       \* a local: gone on return
    /\ UNCHANGED <<live, buf, wt, want, data>>

(***************************************************************************)
(* aui_common_ring_buf_wt: check, take the length (aui_common_ring_buf_    *)
(* remain), refuse or copy.                                                *)
(***************************************************************************)
WtCheck(w) ==
    /\ live /\ Goto(w, "idle", "wt_len")
    /\ \E s \in Requests : data' = [data EXCEPT ![w] = s]
    /\ UNCHANGED <<live, buf, rd, wt, want, seen, out>>

WtLen(w) ==
    /\ Goto(w, "wt_len", "wt_room")
    /\ seen' = [seen EXCEPT ![w] = DataLen]
    /\ UNCHANGED <<live, buf, rd, wt, want, data, out>>

Fits(w) == Len(data[w]) <= Room(seen[w])

WtRoom(w) ==
    /\ Goto(w, "wt_room", IF Fits(w) THEN "wt_copy" ELSE "idle")
    /\ seen' = [seen EXCEPT ![w] = 0]
    /\ UNCHANGED <<live, buf, rd, wt, want, data, out>>

\* How far slot i lies past the write position, counting round the ring.
PastWt_OneCopy(i) == IF i >= wt THEN i - wt ELSE Size + MaxReq  \* mutant
PastWt(i) == IF i >= wt THEN i - wt ELSE Size + i - wt

WtCopy(w) ==
    /\ Goto(w, "wt_copy", "idle")
    /\ buf' = [i \in Slots |-> IF PastWt(i) < Len(data[w])
                               THEN data[w][PastWt(i) + 1] ELSE buf[i]]
    /\ wt' = Slot(wt + Len(data[w]))
    /\ UNCHANGED <<live, rd, want, data, seen, out>>

Next ==
    \/ InitRing \/ UnInitRing
    \/ \E t \in Thread : Rst(t)
    \/ \E r \in Reader : RdCheck(r) \/ RdLen(r) \/ RdCopy(r)
    \/ \E w \in Writer : WtCheck(w) \/ WtLen(w) \/ WtRoom(w) \/ WtCopy(w)

Spec == Init /\ [][Next]_vars

(***************************************************************************)
(* Properties                                                              *)
(***************************************************************************)
\* The positions stay inside the buffer and every thread's locals keep their
\* ranges: a position equal to Size would index past pby_ring_buf.
TypeOK ==
    /\ live \in BOOLEAN
    /\ buf \in [Slots -> Byte]
    /\ rd \in Slots
    /\ wt \in Slots
    /\ pc \in [Thread -> {"idle", "rd_len", "rd_copy", "wt_len", "wt_room", "wt_copy"}]
    /\ want \in [Reader -> 0..MaxReq]
    /\ data \in [Writer -> Seq(Byte)]
    /\ seen \in [Thread -> Slots]
    /\ out \in [Reader -> Seq(Byte)]

\* A length seen in one critical section may be old when the copy acts on it.
\* The reader's is never too large, so it never moves rd past wt ...
ReaderSafe ==
    \A r \in Reader : pc[r] = "rd_copy" => seen[r] <= DataLen

\* ... and the writer's never too small, so it never overwrites unread bytes
\* and never makes a full buffer look empty.
WriterSafe ==
    \A w \in Writer : pc[w] = "wt_copy" => DataLen + Len(data[w]) < Size

NoOverrun == ReaderSafe /\ WriterSafe

\* The ring buffer is a bounded FIFO of Size - 1 bytes.  After
\* aui_common_rst_ring_buf ("reset the ring buffer, i.e. empty the buffer") no
\* read brings back bytes that the reset threw away.
Fifo == INSTANCE BoundedFifo WITH
    Cap <- Size - 1,
    q <- IF live THEN Contents ELSE <<>>
RefinesFifo == Fifo!FifoSpec
=============================================================================

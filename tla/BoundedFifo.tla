----------------------------- MODULE BoundedFifo -----------------------------
(***************************************************************************)
(* What aui_common_ring_buf_* promises its callers: a first-in first-out   *)
(* queue of bytes that never holds more than Cap of them.  A write appends *)
(* all the bytes it was called with or none; a read takes the oldest       *)
(* bytes, never more than it asked for; a reset empties the queue.         *)
(***************************************************************************)
EXTENDS Integers, Sequences

CONSTANTS
    Cap,        \* bytes the queue can hold
    Byte,       \* the bytes
    Reader,     \* the threads that read
    Writer      \* the threads that write

VARIABLES
    q,          \* the bytes written and not yet read, oldest first
    out,        \* out[r]: what the last read of r delivered
    want,       \* want[r]: how many bytes r asked for last
    data        \* data[w]: the bytes w last asked to write

fifoVars == <<q, out, want, data>>

FifoInit ==
    /\ q = <<>>
    /\ out = [r \in Reader |-> <<>>]
    /\ want = [r \in Reader |-> 0]
    /\ data = [w \in Writer |-> <<>>]

\* A thread names what it wants; the queue is not touched yet.
CallRead(r) ==
    /\ want'[r] \in Nat
    /\ want' = [want EXCEPT ![r] = want'[r]]
    /\ UNCHANGED <<q, out, data>>

CallWrite(w) ==
    /\ data'[w] \in Seq(Byte)
    /\ data' = [data EXCEPT ![w] = data'[w]]
    /\ UNCHANGED <<q, out, want>>

Write(w) ==
    /\ Len(q) + Len(data[w]) <= Cap
    /\ q' = q \o data[w]
    /\ UNCHANGED <<out, want, data>>

Read(r) ==
    \E n \in 0..Len(q) :
        /\ n <= want[r]
        /\ out' = [out EXCEPT ![r] = SubSeq(q, 1, n)]
        /\ q' = SubSeq(q, n + 1, Len(q))
        /\ UNCHANGED <<want, data>>

Clear ==
    /\ q' = <<>>
    /\ UNCHANGED <<out, want, data>>

FifoNext ==
    \/ Clear
    \/ \E r \in Reader : CallRead(r) \/ Read(r)
    \/ \E w \in Writer : CallWrite(w) \/ Write(w)

FifoSpec == FifoInit /\ [][FifoNext]_fifoVars
=============================================================================

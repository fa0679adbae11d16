------------------------------ MODULE DmxSection ------------------------------
(***************************************************************************)
(* The synchronous reading of sections of src/linux/aui_dmx.c.  The         *)
(* driver's thread puts each section into the ring buffer of the channel    *)
(* (or filter) and resets it when it overflows; the application takes one   *)
(* section with aui_dmx_channel_sync_get_section_data or all of them with   *)
(* aui_dmx_channel_sync_get_section_data_ext.  A section is a run of cells  *)
(* [n, len, i]: cell i of the n-th section; cell 1 is the header, which     *)
(* holds the length.  One action is one section under the mutex of the ring *)
(* buffer (RingBuf), or what lies between two of them.                      *)
(***************************************************************************)
EXTENDS Integers, Sequences

CONSTANTS
    Cap,            \* cells the ring buffer holds, one less than its size
    Lens,           \* the lengths of sections
    Req,            \* req_size of the application
    MaxSec,         \* bound: sections received
    TryCnt,         \* AUI_DMX_RINBUF_WRITE_TRYCNT
    ResetsMeetReads \* an overflow may meet a get that is past its first look

Bounds ==
    /\ Cap \in Nat /\ Req \in Nat /\ MaxSec \in Nat /\ TryCnt \in Nat
    /\ Lens \subseteq 1..Cap /\ Lens # {}
    /\ \A l \in Lens : l <= Req

ASSUME ConstantsAssumption == Bounds

VARIABLES
    buf,        \* the ring buffer's memory
    rd, wt,     \* and its positions
    lock,       \* its mutex is held across a call of the event_cb
    hasCb,      \* the application gave an event_cb when it opened the channel
    run,        \* the channel's status is AUI_DMX_CHANNEL_RUN
    drv,        \* aui_dmx_put_data_to_rbuf: [pc, n, len, fails]
    app,        \* the get: [pc, all, want]
    late,       \* timeout_ms have passed since the get was called
    out         \* what the last successful get returned

ring == <<buf, rd, wt>>
vars == <<ring, lock, hasCb, run, drv, app, late, out>>

Slots == 0..Cap
Cell == [n : 0..MaxSec, len : Lens, i : 1..Cap]
Blank == [n |-> 0, len |-> CHOOSE l \in Lens : TRUE, i |-> Cap]
Section(n, l) == [i \in 1..l |-> [n |-> n, len |-> l, i |-> i]]

\* RingBuf: the k cells from the read position, and the cells held.
Slot(i) == IF i < 0 THEN i + Cap + 1 ELSE IF i <= Cap THEN i ELSE i - Cap - 1
Cells(k) == [i \in 1..k |-> buf[Slot(rd + i - 1)]]
DataLen == Slot(wt - rd)
Held == Cells(DataLen)

Init ==
    /\ buf = [i \in Slots |-> Blank]
    /\ rd = 0 /\ wt = 0
    /\ lock = FALSE
    /\ hasCb \in BOOLEAN
    /\ run = FALSE
    /\ drv = [pc |-> "idle", n |-> 0, len |-> 0, fails |-> 0]
    /\ app = [pc |-> "idle", all |-> FALSE, want |-> 0]
    /\ late = FALSE
    /\ out = <<>>

-----------------------------------------------------------------------------
Drv(from, to) == drv.pc = from /\ drv' = [drv EXCEPT !.pc = to]
App(from, to) == app.pc = from /\ app' = [app EXCEPT !.pc = to]

\* The get looks at the header and takes the bytes in later sections.
Reading == app.pc \in {"head", "rd", "copy"}
MayReset == ResetsMeetReads \/ ~Reading

\* aui_common_rst_ring_buf, and the same in aui_dmx_rpt_overflow.
Rst_ReadOnly == rd' = 0 /\ UNCHANGED <<buf, wt>>     \* mutant
Rst == rd' = 0 /\ wt' = 0 /\ UNCHANGED buf

(***************************************************************************)
(* aui_dmx_put_data_to_rbuf                                                *)
(***************************************************************************)
Put(l) ==
    /\ drv.pc = "idle" /\ drv.n < MaxSec
    /\ drv' = [pc |-> "room", n |-> drv.n + 1, len |-> l, fails |-> 0]
    /\ UNCHANGED <<ring, lock, run, app, late, out, hasCb>>

\* aui_common_ring_buf_wt takes the length under the mutex, then copies
\* under the mutex; nobody else adds data.
PutRoom ==
    /\ ~lock
    /\ Drv("room", IF drv.len <= Cap - DataLen THEN "copy" ELSE "full")
    /\ UNCHANGED <<ring, lock, run, app, late, out, hasCb>>

PutCopy_NoWrap ==       \* mutant
    /\ ~lock
    /\ Drv("copy", "idle")
    /\ buf' = [i \in Slots |-> IF Slot(i - wt) < drv.len
                               THEN Section(drv.n, drv.len)[Slot(i - wt) + 1] ELSE buf[i]]
    /\ wt' = wt + drv.len
    /\ UNCHANGED <<rd, lock, run, app, late, out, hasCb>>
PutCopy ==
    /\ ~lock
    /\ Drv("copy", "idle")
    /\ buf' = [i \in Slots |-> IF Slot(i - wt) < drv.len
                               THEN Section(drv.n, drv.len)[Slot(i - wt) + 1] ELSE buf[i]]
    /\ wt' = Slot(wt + drv.len)
    /\ UNCHANGED <<rd, lock, run, app, late, out, hasCb>>

PutFull ==
    /\ drv.pc = "full"
    /\ drv' = [drv EXCEPT !.fails = @ + 1,
                          !.pc = IF hasCb THEN "report"
                                 ELSE IF drv.fails < TryCnt THEN "room" ELSE "reset"]
    /\ UNCHANGED <<ring, lock, run, app, late, out, hasCb>>

\* aui_dmx_rpt_overflow calls the event_cb with the mutex locked.
PutReport ==
    /\ ~lock /\ MayReset
    /\ Drv("report", "event")
    /\ lock' = TRUE
    /\ UNCHANGED <<ring, run, app, late, out, hasCb>>

\* The event_cb of aui_dmx_test.c returns at once; one that got the data itself
\* would lock the mutex again and wait for itself.
PutReported_KeepsLock ==    \* mutant
    /\ Drv("event", IF drv.fails <= TryCnt THEN "room" ELSE "reset")
    /\ Rst
    /\ UNCHANGED <<lock, run, app, late, out, hasCb>>
PutReported ==
    /\ Drv("event", IF drv.fails <= TryCnt THEN "room" ELSE "reset")
    /\ Rst
    /\ lock' = FALSE
    /\ UNCHANGED <<run, app, late, out, hasCb>>

\* "automatic rst": the section is given up with all the others.
PutReset ==
    /\ ~lock /\ MayReset
    /\ Drv("reset", "idle")
    /\ Rst
    /\ UNCHANGED <<lock, run, app, late, out, hasCb>>

(***************************************************************************)
(* The gets                                                                *)
(***************************************************************************)
Get(all) ==
    /\ app.pc = "idle"
    /\ app' = [pc |-> "status", all |-> all, want |-> 0]
    /\ late' = FALSE
    /\ UNCHANGED <<ring, lock, run, drv, out, hasCb>>

GetStatus ==
    /\ App("status", IF run THEN "len" ELSE "idle")
    /\ UNCHANGED <<ring, lock, run, drv, late, out, hasCb>>

GetLen ==
    /\ ~lock /\ app.pc = "len"
    /\ app' = [app EXCEPT !.want = DataLen,
                          !.pc = IF DataLen = 0 THEN "empty"
                                 ELSE IF ~app.all THEN "head"
                                 ELSE IF DataLen > Req THEN "idle" ELSE "rd"]
    /\ UNCHANGED <<ring, lock, run, drv, late, out, hasCb>>

GetEmpty ==
    /\ App("empty", IF late THEN "idle" ELSE "status")
    /\ UNCHANGED <<ring, lock, run, drv, late, out, hasCb>>

\* aui_common_get_rbuf_rdlen: the length in the header at the read position.
\* Out of step with the sections, it finds whatever bytes are there.
HeaderLengths == IF buf[rd].i = 1 THEN {buf[rd].len} ELSE 1..(Req + 1)

GetHead ==
    /\ ~lock /\ app.pc = "head"
    /\ \E l \in HeaderLengths :
         app' = [app EXCEPT !.want = l, !.pc = IF l > Req THEN "idle" ELSE "rd"]
    /\ UNCHANGED <<ring, lock, run, drv, late, out, hasCb>>

\* aui_common_ring_buf_rd: the length, cut to what is there ...
GetRd ==
    /\ ~lock /\ app.pc = "rd"
    /\ LET n == IF app.want > DataLen THEN DataLen ELSE app.want IN
       app' = [app EXCEPT !.want = n, !.pc = IF n = 0 THEN "idle" ELSE "copy"]
    /\ UNCHANGED <<ring, lock, run, drv, late, out, hasCb>>

\* ... and the bytes.  If they have gone since, the read position passes the
\* write position.
GetCopy ==
    /\ ~lock
    /\ App("copy", "idle")
    /\ out' = Cells(app.want)
    /\ rd' = Slot(rd + app.want)
    /\ UNCHANGED <<buf, wt, lock, run, drv, late, hasCb>>

(***************************************************************************)
(* The rest of the world                                                   *)
(***************************************************************************)
\* aui_dmx_channel_start, aui_dmx_channel_stop: neither empties the buffer.
StartStop ==
    /\ run' = ~run
    /\ UNCHANGED <<ring, lock, drv, app, late, out, hasCb>>

Tick ==
    /\ ~late /\ app.pc # "idle"
    /\ late' = TRUE
    /\ UNCHANGED <<ring, lock, run, drv, app, out, hasCb>>

-----------------------------------------------------------------------------
PutStep == PutRoom \/ PutCopy \/ PutFull \/ PutReport \/ PutReported \/ PutReset
GetStep == GetStatus \/ GetLen \/ GetEmpty \/ GetHead \/ GetRd \/ GetCopy

Next ==
    \/ \E l \in Lens : Put(l)
    \/ PutStep
    \/ \E all \in BOOLEAN : Get(all)
    \/ GetStep
    \/ StartStop \/ Tick

\* Both threads run and time passes.  A mutex released again and again is
\* not held for ever against a thread that waits for it.
Spec == Init /\ [][Next]_vars /\ SF_vars(PutStep) /\ SF_vars(GetStep) /\ WF_vars(Tick)

-----------------------------------------------------------------------------
\* The memory holds cells, the positions stay in it, and no thread's locals
\* leave their range.
TypeOK ==
    /\ buf \in [Slots -> Cell] /\ rd \in Slots /\ wt \in Slots
    /\ lock \in BOOLEAN /\ hasCb \in BOOLEAN /\ run \in BOOLEAN /\ late \in BOOLEAN
    /\ drv \in [pc : {"idle", "room", "copy", "full", "report", "event", "reset"},
                n : 0..MaxSec, len : Lens \cup {0}, fails : 0..(TryCnt + 1)]
    /\ app \in [pc : {"idle", "status", "len", "empty", "head", "rd", "copy"},
                all : BOOLEAN, want : 0..Cap]
    /\ out \in Seq(Cell)

\* Cells are whole sections: each header is followed by its section.
Whole(s) ==
    /\ s # <<>> => s[1].i = 1 /\ s[Len(s)].i = s[Len(s)].len
    /\ \A k \in 1..(Len(s) - 1) :
         IF s[k].i = s[k].len THEN s[k + 1].i = 1
         ELSE s[k + 1] = [s[k] EXCEPT !.i = @ + 1]

\* "Getting of one complete synchronized section from the DMX channel/filter
\* performed successfully": what the gets return are complete sections, none
\* twice or after a later one, and between two gets the ring buffer is in step
\* with the sections, whatever overflowed and was reset: one bad length would
\* shift every later section.
WholeSections ==
    /\ Whole(out)
    /\ ~Reading => Whole(Held)
    /\ \A j \in 1..Len(out), k \in 1..DataLen : out[j].n < Held[k].n

\* The gets return, with or without data ("time out!"), and putting a section
\* ends: the driver's thread is never kept by a full buffer.
CallsReturn ==
    /\ (app.pc # "idle") ~> (app.pc = "idle")
    /\ (drv.pc # "idle") ~> (drv.pc = "idle")
=============================================================================

-------------------------------- MODULE VbiTtx --------------------------------
(***************************************************************************)
(* Teletext insertion of src/linux/aui_vbi.c.  The demux driver calls       *)
(* aui_vbi_data_callback with a PES packet of teletext lines, which go      *)
(* through a ring buffer to aui_vbi_write_thread; the application starts    *)
(* and stops both.  The ring buffer has one reader and one writer, so by    *)
(* RingBuf!RefinesFifo it is a bounded queue; only the number of lines in   *)
(* it matters here.  Every section under dev_hdl->mutex is one statement    *)
(* (a signal, or the release by pthread_cond_wait), hence one action.       *)
(***************************************************************************)
EXTENDS Integers

CONSTANTS
    Cap,        \* lines VBI_BUFFER_SIZE has room for
    MaxLines    \* bound: lines in a PES packet

ASSUME BoundsAssumption == Cap \in Nat \ {0} /\ MaxLines \in Nat \ {0}

VARIABLES
    app,        \* the application's place in ttx_start and ttx_stop
    flag,       \* thread_flag = VBI_WRITE_RUN
    ring,       \* vbi_rbuf is initialised
    lines,      \* lines in vbi_rbuf
    sync,       \* mutex and cond: "raw", "ready" or "destroyed"
    chan,       \* the demux: "none", "open", "alloc" (a channel) or "on"
    thr,        \* aui_vbi_write_thread
    cb,         \* aui_vbi_data_callback
    left        \* lines of the packet the callback has not put yet

appVars == <<app, chan, ring, sync>>
ttxVars == <<app, flag, ring, lines, sync, chan, thr, cb, left>>

TtxInit ==
    /\ app = "idle"
    /\ flag = FALSE
    /\ ring = FALSE
    /\ lines = 0
    /\ sync = "raw"
    /\ chan = "none"
    /\ thr = "none"
    /\ cb = "idle"
    /\ left = 0

(***************************************************************************)
(* aui_vbi_ttx_start                                                       *)
(***************************************************************************)
StartSetup ==
    /\ app = "idle"
    /\ app' = "enable"
    /\ flag' = FALSE
    /\ ring' = TRUE
    /\ lines' = 0
    /\ chan' = "alloc"
    /\ UNCHANGED <<sync, thr, cb, left>>

\* A step of the set-up fails: the ring buffer goes, what was opened stays.
StartFails ==
    /\ \/ app = "idle" /\ chan' \in {chan, "open", "alloc"}
       \/ app = "enable" /\ chan' = chan
    /\ app' = "idle"
    /\ flag' = FALSE
    /\ ring' = FALSE
    /\ UNCHANGED <<lines, sync, thr, cb, left>>

StartEnable ==
    /\ app = "enable"
    /\ app' = "run"
    /\ chan' = "on"
    /\ UNCHANGED <<flag, ring, lines, sync, thr, cb, left>>

StartRun ==
    /\ app = "run"
    /\ app' = "create"
    /\ flag' = TRUE
    /\ UNCHANGED <<ring, lines, sync, chan, thr, cb, left>>

StartSync ==
    /\ app = "create"
    /\ app' = "spawn"
    /\ sync' = "ready"
    /\ UNCHANGED <<flag, ring, lines, chan, thr, cb, left>>

StartSpawn ==
    /\ app = "spawn"
    /\ app' = "started"
    /\ thr' = "flag"
    /\ UNCHANGED <<flag, ring, lines, sync, chan, cb, left>>

\* pthread_create fails; aui_vbi_ttx_start ignores it and reports success.
StartSpawnFails ==
    /\ app = "spawn"
    /\ app' = "started"
    /\ flag' = FALSE
    /\ UNCHANGED <<ring, lines, sync, chan, thr, cb, left>>

(***************************************************************************)
(* aui_vbi_ttx_stop                                                        *)
(***************************************************************************)
\* The driver lets a callback in flight finish before the channel is gone.
StopFree ==
    /\ app = "started" /\ cb = "idle"
    /\ app' = "clear"
    /\ chan' = "open"
    /\ UNCHANGED <<flag, ring, lines, sync, thr, cb, left>>

\* alisldmx_free_channel fails on the disabled channel: an early return.
StopFreeFails ==
    /\ app = "started"
    /\ chan' = "alloc"
    /\ UNCHANGED <<app, flag, ring, lines, sync, thr, cb, left>>

StopFlag ==
    /\ app = "clear"
    /\ app' = "signal"
    /\ flag' = FALSE
    /\ UNCHANGED <<ring, lines, sync, chan, thr, cb, left>>

\* pthread_cond_signal wakes a waiting thread and is lost on any other.
Signal == thr' = IF thr = "waiting" THEN "read" ELSE thr

StopSignal ==
    /\ app = "signal"
    /\ app' = "join"
    /\ Signal
    /\ UNCHANGED <<flag, ring, lines, sync, chan, cb, left>>

StopJoin_NoWait ==      \* mutant
    /\ app = "join"
    /\ app' = "destroy"
    /\ thr' = IF thr = "exited" THEN "none" ELSE thr
    /\ UNCHANGED <<flag, ring, lines, sync, chan, cb, left>>
StopJoin ==
    /\ app = "join" /\ thr = "exited"
    /\ app' = "destroy"
    /\ thr' = "none"
    /\ UNCHANGED <<flag, ring, lines, sync, chan, cb, left>>

\* Joining a thread that was never created fails: everything stays behind.
StopJoinFails ==
    /\ app = "join" /\ thr = "none"
    /\ app' = "idle"
    /\ UNCHANGED <<flag, ring, lines, sync, chan, thr, cb, left>>

StopDestroy ==
    /\ app = "destroy"
    /\ app' = "idle"
    /\ sync' = "destroyed"
    /\ ring' = FALSE
    /\ chan' \in {"none", "open"}       \* alisldmx_close may fail
    /\ UNCHANGED <<flag, lines, thr, cb, left>>

(***************************************************************************)
(* aui_vbi_write_thread                                                    *)
(***************************************************************************)
Thr(from, to) == thr = from /\ thr' = to

ThrFlag ==
    /\ Thr("flag", IF flag THEN "len" ELSE "exited")
    /\ UNCHANGED <<appVars, flag, lines, cb, left>>

ThrLen ==
    /\ Thr("len", IF lines = 0 THEN "sleep" ELSE "read")
    /\ UNCHANGED <<appVars, flag, lines, cb, left>>

\* Lock and wait: nothing is checked again under the mutex.
ThrSleep ==
    /\ Thr("sleep", "waiting")
    /\ UNCHANGED <<appVars, flag, lines, cb, left>>

ThrSpurious ==
    /\ Thr("waiting", "read")
    /\ UNCHANGED <<appVars, flag, lines, cb, left>>

ThrRead ==
    /\ Thr("read", IF lines = 0 THEN "flag" ELSE "write")
    /\ lines' = IF lines = 0 THEN 0 ELSE lines - 1
    /\ UNCHANGED <<appVars, flag, cb, left>>

ThrWrite ==
    /\ Thr("write", "flag")
    /\ UNCHANGED <<appVars, flag, lines, cb, left>>

(***************************************************************************)
(* aui_vbi_data_callback, called by vbi_updatebuf_callback                  *)
(***************************************************************************)
\* "flag" is the head of the loop over the lines of the packet.
CbBegin ==
    /\ chan = "on" /\ cb = "idle"
    /\ cb' = "flag"
    /\ left' \in 0..MaxLines        \* 0: not teletext, or an empty packet
    /\ UNCHANGED <<appVars, flag, lines, thr>>

CbFlag ==
    /\ cb = "flag"
    /\ IF left = 0 \/ ~flag
         THEN cb' = "idle" /\ left' = 0
         ELSE cb' = "put" /\ left' = left
    /\ UNCHANGED <<appVars, flag, lines, thr>>

CbPut_NoFullCheck ==    \* mutant
    /\ cb = "put"
    /\ lines' = lines + 1 /\ left' = left - 1 /\ cb' = "len"
    /\ UNCHANGED <<appVars, flag, thr>>
CbPut ==
    /\ cb = "put"
    /\ IF lines < Cap
         THEN lines' = lines + 1 /\ left' = left - 1 /\ cb' = "len"
         ELSE lines' = lines /\ left' = 0 /\ cb' = "idle"
    /\ UNCHANGED <<appVars, flag, thr>>

CbLen ==
    /\ cb = "len"
    /\ cb' = IF lines > 0 THEN "signal" ELSE "flag"
    /\ UNCHANGED <<appVars, flag, lines, thr, left>>

CbSignal_Lost ==        \* mutant
    /\ cb = "signal"
    /\ cb' = "flag"
    /\ UNCHANGED <<appVars, flag, lines, left, thr>>
CbSignal ==
    /\ cb = "signal"
    /\ cb' = "flag"
    /\ Signal
    /\ UNCHANGED <<appVars, flag, lines, left>>

-----------------------------------------------------------------------------
StartStep == StartSetup \/ StartFails
StartRest == StartEnable \/ StartRun \/ StartSync \/ StartSpawn \/ StartSpawnFails
StopStep == StopFree \/ StopFreeFails
StopRest == StopFlag \/ StopSignal \/ StopJoin \/ StopJoinFails \/ StopDestroy
ThrStep == ThrFlag \/ ThrLen \/ ThrSleep \/ ThrRead \/ ThrWrite
CbStep == CbFlag \/ CbPut \/ CbLen \/ CbSignal

TtxNext ==
    \/ StartStep \/ StartRest \/ StopStep \/ StopRest
    \/ ThrStep \/ ThrSpurious
    \/ CbBegin \/ CbStep

(***************************************************************************)
(* The scheduler runs every thread that can run.  It owes nobody a call to  *)
(* start or stop, a packet, or a spurious wake-up.                          *)
(***************************************************************************)
TtxSpec ==
    /\ TtxInit /\ [][TtxNext]_ttxVars
    /\ WF_ttxVars(StartRest) /\ WF_ttxVars(StopRest)
    /\ WF_ttxVars(ThrStep) /\ WF_ttxVars(CbStep)

-----------------------------------------------------------------------------
\* The queue never holds more lines than it has room for, and each thread
\* stands at one of its statements.
TtxTypeOK ==
    /\ app \in {"idle", "enable", "run", "create", "spawn", "started",
                "clear", "signal", "join", "destroy"}
    /\ flag \in BOOLEAN
    /\ ring \in BOOLEAN
    /\ lines \in 0..Cap
    /\ sync \in {"raw", "ready", "destroyed"}
    /\ chan \in {"none", "open", "alloc", "on"}
    /\ thr \in {"none", "flag", "len", "sleep", "waiting", "read", "write", "exited"}
    /\ cb \in {"idle", "flag", "put", "len", "signal"}
    /\ left \in 0..MaxLines

\* Whoever is about to touch the ring buffer finds it allocated, and the
\* write thread finds its mutex and condition alive, through every start,
\* failed start, stop and failed stop (aui_vbi_ttx_stop joins before it frees),
\* and no write thread survives its session into the next aui_vbi_ttx_start.
UsersFindTheirObjects ==
    /\ thr \in {"len", "read"} => ring
    /\ cb \in {"put", "len"} => ring
    /\ thr \in {"sleep", "waiting"} => sync = "ready"
    /\ app \in {"idle", "enable", "run", "create", "spawn"} => thr = "none"

\* A signal that finds the thread waiting is served: with a line to read the
\* thread writes one to the encoder, and aui_vbi_ttx_stop returns.
SignalsAreServed ==
    /\ (cb = "signal" /\ thr = "waiting" /\ lines > 0) ~> (thr = "write")
    /\ (app = "signal" /\ thr = "waiting") ~> (app = "idle")

\* "Make sure the vbi thread exits." (comment in aui_vbi_ttx_stop): once the
\* flag is cleared, the stop comes to its end.
StopReturns == (app = "clear") ~> (app = "idle")
=============================================================================

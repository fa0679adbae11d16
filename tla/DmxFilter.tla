------------------------------- MODULE DmxFilter -------------------------------
(***************************************************************************)
(* Channels, filters and callback tokens of src/linux/aui_dmx.c.            *)
(*                                                                          *)
(* The driver does not get a filter as its private pointer but the address  *)
(* of a slot of filter_token_array; requestbuf_callback and                 *)
(* updatebuf_callback look the status of the slot up under token_mutex and  *)
(* then follow it.  Application threads open, register, start, stop and     *)
(* close filters meanwhile.  One action is the code between two points      *)
(* another thread can see: a section under token_mutex, a driver call, a    *)
(* write of the array.                                                      *)
(***************************************************************************)
EXTENDS Integers

CONSTANTS
    Threads,        \* the application's threads
    Channels,       \* structures for channels
    Sections,       \* those opened for AUI_DMX_DATA_SECT
    Filters,        \* structures for filters
    NTok,           \* FILTER_TOKEN_CNT
    Disciplined,    \* the application keeps the order of the samples
    MayFail,        \* an allocation or a driver call of an open may fail
    None

ASSUME ConstantsAssumption ==
    /\ Sections \subseteq Channels
    /\ NTok \in Nat \ {0}
    /\ Channels \cap Filters = {}
    /\ None \notin Channels \cup Filters \cup Int

VARIABLES
    tok,    \* cb_filter_token_status: "idle", "pre" or "used"
    arr,    \* filter_token_array: the filter each slot leads to
    chan,   \* the open channels
    flt,    \* the filters: [st, chan, tid, buf]
    reg,    \* the slot the driver calls for a section filter or a channel
    on,     \* what the driver delivers for
    app,    \* where each thread stands: [pc, c, f, t, all]
    cb      \* the callback in progress: [pc, e, t, f, upd]

vars == <<tok, arr, chan, flt, reg, on, app, cb>>

Tokens == 0..(NTok - 1)
Ends == Filters \cup Channels

Free == [st |-> "free", chan |-> None, tid |-> 0, buf |-> FALSE]
Resting == [pc |-> "idle", c |-> None, f |-> None, t |-> 0, all |-> FALSE]
NoCall == [pc |-> "idle", e |-> None, t |-> 0, f |-> None, upd |-> FALSE]

Init ==
    /\ tok = [t \in Tokens |-> "idle"]
    /\ arr = [t \in Tokens |-> None]
    /\ chan = {}
    /\ flt = [f \in Filters |-> Free]
    /\ reg = [e \in Ends |-> None]
    /\ on = [e \in Ends |-> FALSE]
    /\ app = [a \in Threads |-> Resting]
    /\ cb = NoCall

-----------------------------------------------------------------------------
\* A section filter has a filter of the driver, the others their channel.
End(f) == IF flt[f].chan \in Sections THEN f ELSE flt[f].chan

OnChannel(c) == {f \in Filters : flt[f].st = "open" /\ flt[f].chan = c}
Delivers(e) == on[e] /\ (e \in Filters => on[flt[e].chan])

\* What the driver calls for a channel is nothing or a filter of the channel.
Wired(e) == reg[e] # None => \E f \in OnChannel(IF e \in Channels THEN e ELSE flt[e].chan) :
                                flt[f].tid = reg[e]

\* Two threads do not work on one channel at a time.
Mine(a, c) == app[a].pc = "idle" /\ c \in chan /\ \A b \in Threads : app[b].c # c

\* The driver lets a callback in flight finish before it disables or frees.
Quiet(e) == cb.pc = "idle" \/ cb.e # e

At(a, pc) == app[a].pc = pc
Go(a, pc) == app' = [app EXCEPT ![a].pc = pc]
Return(a) == app' = [app EXCEPT ![a] = Resting]

\* require_cb_token_id: the first idle slot.
IdleTokens == {t \in Tokens : tok[t] = "idle"}
Require_NotMarked(t) ==     \* mutant
    /\ t \in IdleTokens /\ \A u \in IdleTokens : t <= u
    /\ UNCHANGED tok
Require(t) ==
    /\ t \in IdleTokens /\ \A u \in IdleTokens : t <= u
    /\ tok' = [tok EXCEPT ![t] = "pre"]

(***************************************************************************)
(* Channels                                                                *)
(***************************************************************************)
ChannelOpen(c) ==
    /\ c \notin chan
    /\ chan' = chan \cup {c}
    /\ UNCHANGED <<tok, arr, flt, reg, on, app, cb>>

ChannelStart(c) ==
    /\ \A a \in Threads : app[a].c # c
    /\ c \in chan
    /\ Disciplined => Wired(c)
    /\ on' = [on EXCEPT ![c] = TRUE]
    /\ UNCHANGED <<tok, arr, chan, flt, reg, app, cb>>

ChannelStop(c) ==
    /\ \A a \in Threads : app[a].c # c
    /\ c \in chan /\ Quiet(c)
    /\ cb.e \notin OnChannel(c)
    /\ on' = [on EXCEPT ![c] = FALSE]
    /\ UNCHANGED <<tok, arr, chan, flt, reg, app, cb>>

ChannelClose(a, c) ==
    /\ Mine(a, c)
    /\ Disciplined => ~on[c] /\ \A f \in OnChannel(c) : ~on[f]
    /\ app' = [app EXCEPT ![a] = [pc |-> "chan", c |-> c, f |-> None, t |-> 0, all |-> TRUE]]
    /\ UNCHANGED <<tok, arr, chan, flt, reg, on, cb>>

\* The loop over the filters of the channel, which closes each of them.
ChannelCloseNext(a) ==
    /\ At(a, "chan")
    /\ \E f \in OnChannel(app[a].c) : app' = [app EXCEPT ![a].pc = "close", ![a].f = f]
    /\ UNCHANGED <<tok, arr, chan, flt, reg, on, cb>>

ChannelCloseEnd(a) ==
    /\ At(a, "chan") /\ OnChannel(app[a].c) = {}
    /\ Quiet(app[a].c)
    /\ chan' = chan \ {app[a].c}
    /\ reg' = [reg EXCEPT ![app[a].c] = None]
    /\ on' = [on EXCEPT ![app[a].c] = FALSE]
    /\ Return(a)
    /\ UNCHANGED <<tok, arr, flt, cb>>

(***************************************************************************)
(* aui_dmx_filter_open                                                     *)
(***************************************************************************)
FilterOpen(a, c, f, t) ==
    /\ Mine(a, c)
    /\ flt[f].st = "free"
    /\ Disciplined /\ c \notin Sections => OnChannel(c) = {}
    /\ Require(t)
    /\ flt' = [flt EXCEPT ![f] =
                 [st |-> "opening", chan |-> c, tid |-> 0, buf |-> FALSE]]
    /\ app' = [app EXCEPT ![a] = [pc |-> "slot", c |-> c, f |-> f, t |-> t, all |-> FALSE]]
    /\ UNCHANGED <<arr, chan, reg, on, cb>>

\* The slot leads to the filter; on a channel that is not for sections the
\* callback is registered if the attributes bring the user's functions.
FilterSlot(a) ==
    LET c == app[a].c  t == app[a].t IN
    /\ At(a, "slot")
    /\ arr' = [arr EXCEPT ![t] = app[a].f]
    /\ \/ UNCHANGED reg
       \/ c \notin Sections /\ reg' = [reg EXCEPT ![c] = t]
    /\ Go(a, IF c \in Sections THEN "driver" ELSE "link")
    /\ UNCHANGED <<tok, chan, flt, on, cb>>

\* The ring buffer, alisldmx_allocate_filter, the callback if the attributes
\* bring one, the masks and alisldmx_set_filter.
FilterDriver(a) ==
    LET f == app[a].f IN
    /\ At(a, "driver")
    /\ \/ UNCHANGED reg
       \/ reg' = [reg EXCEPT ![f] = app[a].t]
    /\ on' = [on EXCEPT ![f] = FALSE]
    /\ Go(a, "link")
    /\ UNCHANGED <<tok, arr, chan, flt, cb>>

\* Any of these fails: the filter is freed, the token stays TOKEN_PRE_USED.
FilterOpenFails(a) ==
    LET f == app[a].f IN
    /\ MayFail /\ At(a, "driver")
    /\ flt' = [flt EXCEPT ![f] = Free]
    /\ reg' = [reg EXCEPT ![f] = None]
    /\ Return(a)
    /\ UNCHANGED <<tok, arr, chan, on, cb>>

FilterLink(a) ==
    LET f == app[a].f IN
    /\ At(a, "link")
    /\ flt' = [flt EXCEPT ![f].st = "open", ![f].tid = app[a].t]
    /\ tok' = [tok EXCEPT ![app[a].t] = "used"]
    /\ Return(a)
    /\ UNCHANGED <<arr, chan, reg, on, cb>>

(***************************************************************************)
(* aui_dmx_reg_sect_call_back, aui_dmx_reg_data_call_back and               *)
(* aui_dmx_reg_pes_call_back.  Slot 0 counts as no slot.                    *)
(***************************************************************************)
Register(a, f, t) ==
    /\ flt[f].st = "open" /\ Mine(a, flt[f].chan)
    /\ IF flt[f].tid > 0
         THEN t = flt[f].tid /\ UNCHANGED tok
         ELSE Require(t)
    /\ app' = [app EXCEPT ![a] =
                 [pc |-> "register", c |-> flt[f].chan, f |-> f, t |-> t, all |-> FALSE]]
    /\ UNCHANGED <<arr, chan, flt, reg, on, cb>>

RegisterSlot(a) ==
    LET f == app[a].f  t == app[a].t IN
    /\ At(a, "register")
    /\ arr' = [arr EXCEPT ![t] = f]
    /\ reg' = [reg EXCEPT ![End(f)] = t]
    /\ flt' = [flt EXCEPT ![f].tid = t]
    /\ tok' = [tok EXCEPT ![t] = "used"]
    /\ Return(a)
    /\ UNCHANGED <<chan, on, cb>>

(***************************************************************************)
(* aui_dmx_filter_start, aui_dmx_filter_stop: the driver's filter, or the   *)
(* whole channel if it is not for sections.                                 *)
(***************************************************************************)
Usable(f) == flt[f].st = "open" /\ \A a \in Threads : app[a].c # flt[f].chan

FilterStart(f) ==
    /\ Usable(f)
    /\ Disciplined => Wired(End(f))
    /\ on' = [on EXCEPT ![End(f)] = TRUE]
    /\ UNCHANGED <<tok, arr, chan, flt, reg, app, cb>>

FilterStop_NoWait(f) ==     \* mutant
    /\ Usable(f)
    /\ on' = [on EXCEPT ![End(f)] = FALSE]
    /\ UNCHANGED <<tok, arr, chan, flt, reg, app, cb>>
FilterStop(f) ==
    /\ Usable(f)
    /\ Quiet(End(f))
    /\ on' = [on EXCEPT ![End(f)] = FALSE]
    /\ UNCHANGED <<tok, arr, chan, flt, reg, app, cb>>

(***************************************************************************)
(* aui_dmx_filter_close                                                    *)
(***************************************************************************)
FilterClose(a, f) ==
    /\ flt[f].st = "open" /\ Mine(a, flt[f].chan)
    /\ Disciplined => ~on[End(f)]
    /\ app' = [app EXCEPT ![a] =
                 [pc |-> "close", c |-> flt[f].chan, f |-> f, t |-> 0, all |-> FALSE]]
    /\ UNCHANGED <<tok, arr, chan, flt, reg, on, cb>>

\* alisldmx_free_filter: only a section filter has one.
CloseDriver_IllegalId(a) == \* mutant
    LET f == app[a].f IN
    /\ At(a, "close")
    /\ IF End(f) = f
         THEN /\ Quiet(f)
              /\ reg' = [reg EXCEPT ![f] = None]
              /\ on' = [on EXCEPT ![f] = FALSE]
              /\ Go(a, "unlink")
         ELSE UNCHANGED <<reg, on>> /\ Go(a, IF app[a].all THEN "chan" ELSE "idle")
    /\ UNCHANGED <<tok, arr, chan, flt, cb>>
CloseDriver(a) ==
    LET f == app[a].f IN
    /\ At(a, "close")
    /\ IF End(f) = f
         THEN /\ Quiet(f)
              /\ reg' = [reg EXCEPT ![f] = None]
              /\ on' = [on EXCEPT ![f] = FALSE]
         ELSE UNCHANGED <<reg, on>>
    /\ Go(a, "unlink")
    /\ UNCHANGED <<tok, arr, chan, flt, cb>>

\* The masks and the buffer are freed, the filter leaves the list.
CloseUnlink(a) ==
    /\ At(a, "unlink")
    /\ flt' = [flt EXCEPT ![app[a].f].buf = FALSE, ![app[a].f].st = "closing"]
    /\ Go(a, "token")
    /\ UNCHANGED <<tok, arr, chan, reg, on, cb>>

CloseToken_Max(a) ==        \* mutant
    /\ At(a, "token")
    /\ tok' = [tok EXCEPT ![flt[app[a].f].tid] = "max"]
    /\ Go(a, "free")
    /\ UNCHANGED <<arr, chan, flt, reg, on, cb>>
CloseToken_Kept(a) ==       \* mutant
    /\ At(a, "token")
    /\ Go(a, "free")
    /\ UNCHANGED <<tok, arr, chan, flt, reg, on, cb>>
CloseToken(a) ==
    /\ At(a, "token")
    /\ tok' = [tok EXCEPT ![flt[app[a].f].tid] = "idle"]
    /\ Go(a, "free")
    /\ UNCHANGED <<arr, chan, flt, reg, on, cb>>

CloseFree(a) ==
    /\ At(a, "free")
    /\ flt' = [flt EXCEPT ![app[a].f] = Free]
    /\ IF app[a].all THEN app' = [app EXCEPT ![a].pc = "chan", ![a].f = None] ELSE Return(a)
    /\ UNCHANGED <<tok, arr, chan, reg, on, cb>>

(***************************************************************************)
(* The driver's thread: requestbuf_callback, then updatebuf_callback.       *)
(***************************************************************************)
CbBegin(e) ==
    /\ cb.pc = "idle"
    /\ Delivers(e) /\ reg[e] # None
    /\ cb' = [NoCall EXCEPT !.pc = "check", !.e = e, !.t = reg[e]]
    /\ UNCHANGED <<tok, arr, chan, flt, reg, on, app>>

CbCheck ==
    /\ cb.pc = "check"
    /\ cb' = IF tok[cb.t] = "idle" THEN NoCall ELSE [cb EXCEPT !.pc = "fetch"]
    /\ UNCHANGED <<tok, arr, chan, flt, reg, on, app>>

\* filter = filter_token->filter: token_mutex is free again.
CbFetch ==
    /\ cb.pc = "fetch"
    /\ cb' = [cb EXCEPT !.pc = "use", !.f = arr[cb.t]]
    /\ UNCHANGED <<tok, arr, chan, flt, reg, on, app>>

\* The request leaves a buffer in the filter, which the update hands on.
CbRequest ==
    /\ cb.pc = "use" /\ ~cb.upd
    /\ flt' = [flt EXCEPT ![cb.f].buf = TRUE]
    /\ cb' = [cb EXCEPT !.pc = "check", !.upd = TRUE]
    /\ UNCHANGED <<tok, arr, chan, reg, on, app>>

\* No memory for the buffer: the driver has nowhere to put the data.
CbRequestFails ==
    /\ cb.pc = "use" /\ ~cb.upd /\ ~flt[cb.f].buf
    /\ cb' = NoCall
    /\ UNCHANGED <<tok, arr, chan, flt, reg, on, app>>

CbUpdate ==
    /\ cb.pc = "use" /\ cb.upd
    /\ cb' = NoCall
    /\ UNCHANGED <<tok, arr, chan, flt, reg, on, app>>

-----------------------------------------------------------------------------
OpenStep(a) == FilterSlot(a) \/ FilterDriver(a) \/ FilterOpenFails(a) \/ FilterLink(a)
CloseStep(a) == CloseDriver(a) \/ CloseUnlink(a) \/ CloseToken(a) \/ CloseFree(a)
ChannelCloseStep(a) == ChannelCloseNext(a) \/ ChannelCloseEnd(a)
CbStep == CbCheck \/ CbFetch \/ CbRequest \/ CbRequestFails \/ CbUpdate

Call(a) ==
    \/ \E c \in Channels : ChannelClose(a, c)
    \/ \E c \in Channels, f \in Filters, t \in IdleTokens : FilterOpen(a, c, f, t)
    \/ \E f \in Filters, t \in Tokens : Register(a, f, t)
    \/ \E f \in Filters : FilterClose(a, f)

ThreadStep(a) == OpenStep(a) \/ RegisterSlot(a) \/ CloseStep(a) \/ ChannelCloseStep(a)

Next ==
    \/ \E c \in Channels : ChannelOpen(c) \/ ChannelStart(c) \/ ChannelStop(c)
    \/ \E f \in Filters : FilterStart(f) \/ FilterStop(f)
    \/ \E a \in Threads : Call(a) \/ ThreadStep(a)
    \/ \E e \in Ends : CbBegin(e)
    \/ CbStep

\* A call that was made and a callback that was begun go on; the application
\* owes no call and the stream no packet.
Spec ==
    /\ Init /\ [][Next]_vars
    /\ \A a \in Threads : WF_vars(ThreadStep(a))
    /\ WF_vars(CbStep)

-----------------------------------------------------------------------------
\* Slots, filters, the driver and the threads stay in their states.
TypeOK ==
    /\ tok \in [Tokens -> {"idle", "pre", "used"}]
    /\ arr \in [Tokens -> Filters \cup {None}]
    /\ chan \subseteq Channels
    /\ flt \in [Filters -> [st : {"free", "opening", "open", "closing"},
                            chan : Channels \cup {None}, tid : Tokens, buf : BOOLEAN]]
    /\ reg \in [Ends -> Tokens \cup {None}]
    /\ on \in [Ends -> BOOLEAN]
    /\ app \in [Threads ->
         [pc : {"idle", "chan", "slot", "driver", "link", "register", "close",
                "unlink", "token", "free"},
          c : Channels \cup {None}, f : Filters \cup {None}, t : Tokens, all : BOOLEAN]]
    /\ cb \in [pc : {"idle", "check", "fetch", "use"}, e : Ends \cup {None},
               t : Tokens, f : Filters \cup {None}, upd : BOOLEAN]

\* From the end of aui_dmx_filter_open to aui_dmx_filter_close a filter has a
\* slot of its own that leads to it, whatever other threads open and close, and
\* it gives the slot back before it is freed.  A used slot without a filter can
\* only be slot 0, which a filter that holds it and registers a callback loses
\* for good (cb_filter_token_id > 0).
FilterOwnsToken ==
    /\ \A f \in Filters : flt[f].st = "open" =>
        /\ tok[flt[f].tid] = "used"
        /\ arr[flt[f].tid] = f
        /\ \A g \in Filters \ {f} : flt[g].st = "open" => flt[g].tid # flt[f].tid
    /\ \A t \in Tokens \ {0} : tok[t] = "used" => flt[arr[t]].st # "free"

\* "filter token id %d has been closed": the callbacks turn away data for a
\* filter that aui_dmx_filter_close has taken down, so that the filter they
\* use has not been freed (warning in both callbacks), and updatebuf_callback
\* finds the buffer that requestbuf_callback left in it.
CallbackFilterIsThere ==
    cb.pc = "use" =>
        /\ cb.f # None /\ flt[cb.f].st # "free"
        /\ cb.upd => flt[cb.f].buf

\* A callback serves a filter of the channel the driver called it for.
DataStaysOnItsChannel ==
    cb.pc = "use" => cb.e \in {cb.f, flt[cb.f].chan}

\* aui_dmx_filter_close and aui_dmx_channel_close return.
CloseReturns ==
    \A a \in Threads : (app[a].pc \in {"close", "chan"}) ~> (app[a].pc = "idle")
=============================================================================

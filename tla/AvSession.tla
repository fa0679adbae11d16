-------------------------------- MODULE AvSession --------------------------------
(***************************************************************************)
(* The playback sessions of src/linux/aui_av.c over the demux of DmxStream  *)
(* and the other devices they need.  aui_av_init_attr opens the devices     *)
(* that are not open and marks them in one word for all sessions, and       *)
(* aui_av_close closes what is marked.  The decoders of elementary streams  *)
(* are kept once for all sessions too (inject_param).                       *)
(*                                                                         *)
(* An application plays one program at a time, or elementary streams in one *)
(* session or in one for each of audio and video; it uses the demux's       *)
(* stream itself only while no session plays a program.  After a start      *)
(* that was refused it disables the stream before it goes on (refused).     *)
(* aui_av_pause and _resume, which pass a call to the decoders, are left    *)
(* out, so is encryption.                                                   *)
(***************************************************************************)
EXTENDS DmxStream

CONSTANTS
    Sessions,   \* handles of aui_av_open
    Types,      \* "ram", "nim" (also a software demux) and "es"
    Programs,   \* streams of the programs played, as the last aui_av_set leaves them
    Direct,     \* streams the application itself enables
    AppDevices  \* bound: devices the application itself opens

Devices == {"tsg", "tsi", "dmx", "deca", "decv"}
Needs(t) ==
    CASE t = "ram" -> Devices
      [] t = "nim" -> {"dmx", "deca", "decv"}
      [] t = "es"  -> {}
\* init_attr and close take the devices in one order
Earlier ==
    [tsg |-> {}, tsi |-> {"tsg"}, dmx |-> {"tsg", "tsi"},
     deca |-> {"tsg", "tsi", "dmx"}, decv |-> {"tsg", "tsi", "dmx", "deca"}]

ASSUME TypesAssumption == Types \subseteq {"ram", "nim", "es"}
ASSUME BoundsAssumption ==
    /\ AppDevices \subseteq Devices
    /\ \A p \in Programs : p \subseteq {"video", "audio", "pcr"}
    /\ \A p \in Direct : p \subseteq Kinds /\ p \cap {"audio", "video"} # {}

VARIABLES
    dmx,        \* the demux; Fresh while it is closed
    devs,       \* who has opened each device: "closed", "app" or "av"
    marks,      \* aui_av_open_device
    es,         \* the decoders of inject_param that are open
    ses,        \* [st, type, prog, started]; the last two of elementary streams only
    hurt        \* history: an init_attr or a close has failed

vars == <<dmx, devs, marks, es, ses, hurt>>

NoSession == [st |-> "free", type |-> "es", prog |-> {}, started |-> FALSE]

Init ==
    /\ dmx = Fresh
    /\ devs = [k \in Devices |-> "closed"]
    /\ marks = {} /\ es = {}
    /\ ses = [s \in Sessions |-> NoSession]
    /\ hurt = FALSE

Live == {s \in Sessions : ses[s].st # "free"}
Plays(s) == ses[s].st = "open" /\ ses[s].type # "es"
NoProgram == \A s \in Live : ses[s].type = "es"

\* sessions the application may have at one time
Compatible(t, p) ==
    \A s \in Live : t = "es" /\ ses[s].type = "es" /\ ses[s].prog \cap p = {}

-----------------------------------------------------------------------------
(* aui_av_init_attr and aui_av_open *)

\* mutant: a device found open is marked too
OpenDevices_MarksFound(S) ==
    LET new == {k \in S : devs[k] = "closed"}
    IN  /\ devs' = [k \in Devices |-> IF k \in new THEN "av" ELSE devs[k]]
        /\ marks' = marks \cup S
OpenDevices(S) ==
    LET new == {k \in S : devs[k] = "closed"}
    IN  /\ devs' = [k \in Devices |-> IF k \in new THEN "av" ELSE devs[k]]
        /\ marks' = marks \cup new

InitAttr(s, t, p) ==
    /\ ses[s].st = "free" /\ Compatible(t, p)
    /\ p # {} <=> t = "es"
    /\ OpenDevices(Needs(t))
    /\ ses' = [ses EXCEPT ![s] = [st |-> "inited", type |-> t, prog |-> p, started |-> FALSE]]
    /\ UNCHANGED <<dmx, es, hurt>>

\* a device does not open, or (before "dmx") the route is refused
InitAttrFails(t) ==
    /\ t # "es" /\ Compatible(t, {})
    /\ \E k \in Needs(t) :
        /\ devs[k] = "closed" \/ (t = "ram" /\ k = "dmx")
        /\ OpenDevices(Needs(t) \cap Earlier[k])
    /\ hurt' = TRUE
    /\ UNCHANGED <<dmx, es, ses>>

Open(s) ==
    /\ ses[s].st = "inited"
    /\ ses' = [ses EXCEPT ![s].st = "open"]
    /\ UNCHANGED <<dmx, devs, marks, es, hurt>>

-----------------------------------------------------------------------------
(* aui_av_start: cc_av_act *)

Valid(p) ==
    (p \cap {"video"}) \cup (IF "audio" \in p THEN {"audio", "desc"} ELSE {})
\* a start that neither takes a channel twice nor builds on a failed one
Ready(d, valid) ==
    ~d.refused /\ \A k \in Wanted(d, valid) : d.chid[k] = None

\* b_modify: what plays is stopped first
Modified(modify) ==
    IF modify THEN {StreamStop(x) : x \in DeviceStop(dmx)} ELSE {dmx}

(* Of a program with neither audio nor video only the demux is started.  A  *)
(* refused start leaves what was done before it.                            *)
Start(s, p, modify) ==
    /\ Plays(s)
    /\ \E x \in Modified(modify) :
        IF p \cap {"audio", "video"} = {} THEN dmx' = x
        ELSE LET d == Create(x, p)
                 r == StreamStart(d, Valid(p), devs["decv"] # "closed")
             IN  Ready(d, Valid(p)) /\ dmx' \in r.ok \cup r.failed
    /\ UNCHANGED <<devs, marks, es, ses, hurt>>

\* a decoder that another session has open is taken as it is
EsStart(s) ==
    /\ ses[s].st = "open" /\ ses[s].type = "es"
    /\ es' = es \cup ses[s].prog
    /\ ses' = [ses EXCEPT ![s].started = TRUE]
    /\ UNCHANGED <<dmx, devs, marks, hurt>>

\* the audio decoder is refused after the video decoder was opened
EsStartFails(s) ==
    /\ ses[s].st = "open" /\ ses[s].type = "es"
    /\ "audio" \in ses[s].prog \ es
    /\ es' = es \cup (ses[s].prog \cap {"video"})
    /\ UNCHANGED <<dmx, devs, marks, ses, hurt>>

(* aui_av_stop, and aui_av_flush, which stops the stream as well.  One that *)
(* is refused changes nothing.                                              *)
Stop(s) ==
    /\ Plays(s)
    /\ dmx' = StreamStop(dmx)
    /\ UNCHANGED <<devs, marks, es, ses, hurt>>

-----------------------------------------------------------------------------
(* aui_av_close frees the handle whether it succeeds or not *)

CloseDevices(C) ==
    /\ devs' = [k \in Devices |-> IF k \in C THEN "closed" ELSE devs[k]]
    /\ dmx' = IF "dmx" \in C THEN Fresh ELSE dmx

\* mutant: the generator and the input are closed in no case
Close_KeepsRoute(s) ==
    /\ Plays(s)
    /\ CloseDevices(marks \cap Needs("nim"))
    /\ marks' = {}
    /\ ses' = [ses EXCEPT ![s] = NoSession]
    /\ UNCHANGED <<es, hurt>>
Close(s) ==
    /\ Plays(s)
    /\ CloseDevices(marks \cap Needs(ses[s].type))
    /\ marks' = {}
    /\ ses' = [ses EXCEPT ![s] = NoSession]
    /\ UNCHANGED <<es, hurt>>

\* the close of a decoder fails: it and what follows stay open and marked
CloseFails(s) ==
    /\ Plays(s)
    /\ \E k \in marks \cap {"deca", "decv"} :
        LET done == marks \cap Needs(ses[s].type) \cap Earlier[k]
        IN  CloseDevices(done) /\ marks' = marks \ done
    /\ ses' = [ses EXCEPT ![s] = NoSession]
    /\ hurt' = TRUE
    /\ UNCHANGED es

\* mutant: what the session plays is not asked
EsClose_Both(s) ==
    /\ ses[s].st = "open" /\ ses[s].type = "es"
    /\ es' = {} /\ marks' = {}
    /\ ses' = [ses EXCEPT ![s] = NoSession]
    /\ UNCHANGED <<dmx, devs, hurt>>
EsClose(s) ==
    /\ ses[s].st = "open" /\ ses[s].type = "es"
    /\ es' = es \ ses[s].prog
    /\ marks' = {}
    /\ ses' = [ses EXCEPT ![s] = NoSession]
    /\ UNCHANGED <<dmx, devs, hurt>>

EsCloseFails(s) ==
    /\ ses[s].st = "open" /\ ses[s].type = "es"
    /\ \E k \in es \cap ses[s].prog :
        es' = es \ (IF k = "audio" THEN ses[s].prog \cap {"video"} ELSE {})
    /\ ses' = [ses EXCEPT ![s] = NoSession]
    /\ hurt' = TRUE
    /\ UNCHANGED <<dmx, devs, marks>>

-----------------------------------------------------------------------------
(* What the application does with the devices itself *)

AppOpen(k) ==
    /\ devs[k] = "closed"
    /\ devs' = [devs EXCEPT ![k] = "app"]
    /\ UNCHANGED <<dmx, marks, es, ses, hurt>>

AppClose(k) ==
    /\ devs[k] = "app" /\ NoProgram
    /\ CloseDevices({k})
    /\ UNCHANGED <<marks, es, ses, hurt>>

AppSection(c) ==
    /\ devs["dmx"] # "closed"
    /\ IF dmx.channel[c] = None
       THEN ~dmx.refused /\ dmx' \in ChannelOpen(dmx, c)
       ELSE dmx' = ChannelsClosed(dmx, {c})
    /\ UNCHANGED <<devs, marks, es, ses, hurt>>

AppStream ==
    /\ devs["dmx"] = "app" /\ NoProgram
    /\ \/ \E p \in Direct :
            LET d == Create(dmx, p)
                r == StreamStart(d, Valid(p), devs["decv"] # "closed")
            IN  Ready(d, Valid(p)) /\ dmx' \in r.ok \cup r.failed
       \/ dmx' \in {StreamStop(dmx), DisableAudio(dmx), DisableVideo(dmx)}
       \/ dmx' \in DeviceStop(dmx)
    /\ UNCHANGED <<devs, marks, es, ses, hurt>>

Next ==
    \/ \E s \in Sessions, t \in Types, p \in SUBSET {"video", "audio"} : InitAttr(s, t, p)
    \/ \E t \in Types : InitAttrFails(t)
    \/ \E s \in Sessions :
        \/ Open(s) \/ Stop(s)
        \/ \E p \in Programs, modify \in BOOLEAN : Start(s, p, modify)
        \/ EsStart(s) \/ EsStartFails(s)
        \/ Close(s) \/ CloseFails(s) \/ EsClose(s) \/ EsCloseFails(s)
    \/ \E k \in AppDevices : AppOpen(k) \/ AppClose(k)
    \/ \E c \in Channels : AppSection(c)
    \/ AppStream

Spec == Init /\ [][Next]_vars

\* the driver's channels are alike, so are the sessions
Symmetry == Permutations(ChIds) \cup Permutations(Sessions)

-----------------------------------------------------------------------------
(* Properties *)

TypeOK ==
    /\ dmx \in DemuxType
    /\ devs \in [Devices -> {"closed", "app", "av"}]
    /\ marks \subseteq Devices /\ es \subseteq {"video", "audio"}
    /\ ses \in [Sessions -> [st : {"free", "inited", "open"}, type : {"ram", "nim", "es"},
                             prog : SUBSET {"video", "audio"}, started : BOOLEAN]]
    /\ hurt \in BOOLEAN

(* A mark stands for a device that aui_av_init_attr has opened, so a close  *)
(* never takes a device that the application has opened, also after inits   *)
(* and closes that failed half-way (aui_av.c:464-495).                      *)
MarkedIsOurs == \A k \in marks : devs[k] = "av"

(* As long as no init_attr and no close has failed, the close of the last   *)
(* session leaves nothing open that an init_attr has opened                 *)
(* (aui_av.c:727, 416).                                                     *)
NothingLeftOpen ==
    ~hurt /\ Live = {} => \A k \in Devices : devs[k] # "av"

(* The close of one elementary stream session leaves the decoder of the     *)
(* other open (aui_av.c:433, 446).                                          *)
EsDecoderStays ==
    \A s \in Live : ses[s].started => ses[s].prog \subseteq es

(* An open section channel keeps a channel of the driver of its own,        *)
(* whatever streams are started, refused and stopped beside it              *)
(* (aui_dmx.c:1354, 1841).                                                  *)
SectionKeepsItsChannel ==
    \A c, e \in Channels :
        dmx.channel[c] # None =>
            /\ dmx.used[dmx.channel[c]] = "section"
            /\ dmx.channel[e] = dmx.channel[c] => e = c

(* A channel of the driver that is allocated to a stream has its number in  *)
(* that stream, so that it is freed before the demux is closed, and only    *)
(* while the stream is started: a start that is refused part of the way,    *)
(* and a stop, leave none (aui_dmx.c:1422, 1662-1688).                      *)
StreamsOwnTheirChannels ==
    \A i \in ChIds : \A k \in Kinds :
        dmx.used[i] = k => dmx.started /\ dmx.chid[k] = i

=============================================================================

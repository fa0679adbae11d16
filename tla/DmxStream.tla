-------------------------------- MODULE DmxStream --------------------------------
(***************************************************************************)
(* The audio/video stream of one demux of src/linux/aui_dmx.c: the four     *)
(* stream channels, the section channels that share the driver's channels   *)
(* with them, and the player of the second CPU (SEE).  The module has no    *)
(* variables: each operation is an operator on the record of a demux, and   *)
(* one that may fail is the set of its outcomes.  The driver, which hands   *)
(* out any free channel, is external.                                       *)
(*                                                                         *)
(* Left out: what an operation tells the driver about codecs, clocks and    *)
(* fast channel change; aui_dmx_start, _pause, _resume and                  *)
(* AUI_DMX_SET_CHANGE_AUD_STREM (one call of the driver each); subtitle and *)
(* teletext streams, which are never started; data paths other than         *)
(* AUI_DMX_DATA_PATH_CLEAR_PLAY.                                            *)
(***************************************************************************)
EXTENDS Naturals, FiniteSets, SequencesExt

CONSTANTS
    ChIds,      \* channels the driver has
    Channels,   \* section channels the application may open
    None        \* DMX_ILLEGAL_CHANNELID, and no owner

Kinds == {"video", "audio", "desc", "pcr"}
\* the streams whose channel a start allocates before
Before ==
    [video |-> {}, audio |-> {"video"}, desc |-> {"video", "audio"},
     pcr |-> {"video", "audio", "desc"}]

ASSUME NoneAssumption == None \notin ChIds \cup Kinds \cup {"section"}

(* started is av_started, see says that the SEE plays (alisldmx_avstart),   *)
(* pid holds the streams with a valid PID, chid and channel the driver's    *)
(* channel of each stream and section channel; used is the driver's.        *)
(* refused is history: a start has failed and no stop has followed.         *)
DemuxType ==
    [started : BOOLEAN, see : BOOLEAN, refused : BOOLEAN, pid : SUBSET Kinds,
     chid : [Kinds -> ChIds \cup {None}],
     channel : [Channels -> ChIds \cup {None}],
     used : [ChIds -> Kinds \cup {"section", None}]]

\* mutant: the numbers of the streams are left as memset leaves them
Fresh_Zeroed ==
    [started |-> FALSE, see |-> FALSE, refused |-> FALSE, pid |-> {},
     chid |-> [k \in Kinds |-> 0],
     channel |-> [c \in Channels |-> None],
     used |-> [i \in ChIds |-> None]]
\* aui_dmx_open
Fresh ==
    [started |-> FALSE, see |-> FALSE, refused |-> FALSE, pid |-> {},
     chid |-> [k \in Kinds |-> None],
     channel |-> [c \in Channels |-> None],
     used |-> [i \in ChIds |-> None]]

FreeIds(d) == {i \in ChIds : d.used[i] = None}
\* alisldmx_free_channel frees a channel whoever has allocated it
Freed(used, ids) == [i \in ChIds |-> IF i \in ids THEN None ELSE used[i]]
Allocated(used, f) ==
    [i \in ChIds |-> IF i \in Range(f) THEN AntiFunction(f)[i] ELSE used[i]]

-----------------------------------------------------------------------------
(* The streams *)

Release(d, ks) ==
    [d EXCEPT !.used = Freed(@, {d.chid[k] : k \in ks}),
              !.chid = [k \in Kinds |-> IF k \in ks THEN None ELSE @[k]]]

\* mutant: the numbers of the freed channels are kept
StreamStop_KeepsNumbers(d) ==
    [Release(d, Kinds) EXCEPT !.started = FALSE, !.see = FALSE, !.refused = FALSE,
                              !.chid = d.chid]
\* aui_dmx_av_stream_stop, AUI_DMX_STREAM_DISABLE
StreamStop(d) ==
    [Release(d, Kinds) EXCEPT !.started = FALSE, !.see = FALSE, !.refused = FALSE]

\* AUI_DMX_STREAM_DISABLE_AUDIO and _VIDEO leave the player alone
DisableAudio(d) == Release(d, {"audio", "desc"})
DisableVideo(d) == Release(d, {"video", "pcr"})

(* AUI_DMX_STREAM_CREATE_AV, _AUDIO and _VIDEO set the PIDs they are about  *)
(* from those of the list that are valid.                                   *)
About(p) ==
    IF {"audio", "video"} \subseteq p THEN Kinds
    ELSE IF "audio" \in p THEN {"audio", "desc"} ELSE {"video", "pcr"}
Create(d, p) == [d EXCEPT !.pid = (@ \ About(p)) \cup (p \cap About(p))]

Wanted(d, valid) ==
    {k \in d.pid : IF k = "pcr" THEN "video" \in valid \cap d.pid ELSE k \in valid}

(* aui_dmx_av_stream_start.  A second start stops the player first.  A      *)
(* start that meets no free channel gives back the channels it has          *)
(* allocated, but the record of them stays in chid.                         *)
Halted(d) == [d EXCEPT !.see = @ /\ ~d.started]
StartSucceeds(d, wanted) ==
    {[Halted(d) EXCEPT !.chid = [k \in Kinds |-> IF k \in wanted THEN f[k] ELSE @[k]],
                       !.used = Allocated(@, f),
                       !.started = TRUE, !.see = TRUE] :
        f \in Injection(wanted, FreeIds(d))}
First(wanted, n) == {k \in wanted : Cardinality(Before[k] \cap wanted) < n}
\* mutant: what was allocated before the failure is not freed
StartFails_NoRollBack(d, wanted) ==
    LET first == First(wanted, Cardinality(FreeIds(d)))
    IN  {[Halted(d) EXCEPT !.chid = [k \in Kinds |-> IF k \in first THEN f[k] ELSE @[k]],
                           !.used = Allocated(@, f),
                           !.refused = TRUE] :
            f \in IF first = wanted THEN {} ELSE Injection(first, FreeIds(d))}
StartFails(d, wanted) ==
    LET first == First(wanted, Cardinality(FreeIds(d)))
    IN  {[Halted(d) EXCEPT !.chid = [k \in Kinds |-> IF k \in first THEN f[k] ELSE @[k]],
                           !.refused = TRUE] :
            f \in IF first = wanted THEN {} ELSE Injection(first, FreeIds(d))}

\* AUI_DMX_STREAM_ENABLE and its _AUDIO and _VIDEO; a video needs an open decoder
StreamStart(d, valid, decoder) ==
    LET wanted == Wanted(d, valid)
    IN  IF "video" \in wanted /\ ~decoder
        THEN [ok |-> {}, failed |-> {[Halted(d) EXCEPT !.refused = TRUE]}]
        ELSE [ok |-> StartSucceeds(d, wanted), failed |-> StartFails(d, wanted)]

-----------------------------------------------------------------------------
(* Section channels, and the demux as a whole *)

ChannelOpen(d, c) ==
    {[d EXCEPT !.channel[c] = i, !.used[i] = "section"] : i \in FreeIds(d)}

ChannelsClosed(d, cs) ==
    [d EXCEPT !.used = Freed(@, {d.channel[c] : c \in cs}),
              !.channel = [c \in Channels |-> IF c \in cs THEN None ELSE @[c]]]

(* aui_dmx_stop closes every channel of the application, unless the driver  *)
(* refuses.                                                                 *)
DeviceStop(d) ==
    LET x == ChannelsClosed(d, Channels)
    IN  {d, IF d.started THEN StreamStop(x) ELSE x}
=============================================================================

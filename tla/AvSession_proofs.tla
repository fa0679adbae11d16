----------------------------- MODULE AvSession_proofs -----------------------------
(***************************************************************************)
(* Playback sessions, for any sessions, programs and channels.  First the   *)
(* devices and decoders: what the demux does in between does not matter to  *)
(* them, the steps that only change it stutter here.  Then the channels of  *)
(* the demux: one lemma per operation of DmxStream, and the steps that call *)
(* them.                                                                    *)
(***************************************************************************)
EXTENDS AvSession, TLAPS

SessionsTyped ==
    /\ devs \in [Devices -> {"closed", "app", "av"}]
    /\ marks \subseteq Devices
    /\ ses \in [Sessions -> [st : {"free", "inited", "open"}, type : {"ram", "nim", "es"},
                             prog : SUBSET {"video", "audio"}, started : BOOLEAN]]
    /\ hurt \in BOOLEAN

\* A program session is alone, and no two sessions have one decoder
OneProgram ==
    \A s, r \in Live : s # r =>
        /\ ses[s].type = "es"
        /\ ses[s].prog \cap ses[r].prog = {}

\* While nothing has failed, all that is open for a session is marked, and it
\* is what the one program session needs
MarksOfTheProgram ==
    ~hurt =>
        /\ \A k \in Devices : devs[k] = "av" => k \in marks
        /\ marks # {} => \E s \in Live : ses[s].type # "es" /\ marks \subseteq Needs(ses[s].type)

IInv == SessionsTyped /\ OneProgram /\ MarksOfTheProgram /\ MarkedIsOurs /\ EsDecoderStays

LEMMA InitInv == Init => IInv
<1> SUFFICES ASSUME Init PROVE IInv
  OBVIOUS
<1>1. SessionsTyped
  BY DEF Init, SessionsTyped, NoSession
<1>2. Live = {}
  BY DEF Init, Live, NoSession
<1>3. OneProgram /\ MarksOfTheProgram /\ MarkedIsOurs /\ EsDecoderStays
  BY <1>2 DEF Init, OneProgram, MarksOfTheProgram, MarkedIsOurs, EsDecoderStays
<1> QED
  BY <1>1, <1>3 DEF IInv

LEMMA NeedsTyped == \A t \in {"ram", "nim", "es"} : Needs(t) \subseteq Devices /\ (t = "es" => Needs(t) = {})
BY DEF Needs, Devices

\* Nothing but the demux changes
LEMMA DemuxOnly == IInv /\ UNCHANGED <<devs, marks, es, ses, hurt>> => IInv'
BY DEF IInv, SessionsTyped, OneProgram, MarksOfTheProgram, MarkedIsOurs, EsDecoderStays, Live

LEMMA InitAttrKeeps ==
    ASSUME IInv, NEW s \in Sessions, NEW t \in Types, NEW p \in SUBSET {"video", "audio"},
           InitAttr(s, t, p)
    PROVE  IInv'
<1> USE DEF IInv, Live
<1> DEFINE new == {k \in Needs(t) : devs[k] = "closed"}
<1>1. /\ devs' = [k \in Devices |-> IF k \in new THEN "av" ELSE devs[k]]
      /\ marks' = marks \cup new
      /\ UNCHANGED <<es, hurt>>
  BY DEF InitAttr, OpenDevices
<1>2. /\ ses[s].st = "free" /\ (t # "es" => p = {})
      /\ \A r \in Live : t = "es" /\ ses[r].type = "es" /\ ses[r].prog \cap p = {}
  BY DEF InitAttr, Compatible
<1>3. ses' = [ses EXCEPT ![s] = [st |-> "inited", type |-> t, prog |-> p, started |-> FALSE]]
  BY DEF InitAttr
<1>4. t \in {"ram", "nim", "es"} /\ Needs(t) \subseteq Devices /\ new \subseteq Needs(t)
      /\ (t = "es" => new = {})
  BY TypesAssumption, NeedsTyped
<1> HIDE DEF new
<1>5. SessionsTyped' /\ MarkedIsOurs'
  BY <1>1, <1>3, <1>4 DEF SessionsTyped, MarkedIsOurs
<1>6. Live' = Live \cup {s} /\ s \notin Live
  BY <1>2, <1>3 DEF SessionsTyped
<1>7. OneProgram' /\ EsDecoderStays'
  BY <1>1, <1>2, <1>3, <1>6 DEF SessionsTyped, OneProgram, EsDecoderStays
<1>8. MarksOfTheProgram'
  <2>1. CASE t = "es"
    BY <1>1, <1>2, <1>4, <2>1 DEF SessionsTyped, MarksOfTheProgram
  <2>2. CASE t # "es"
    BY <1>1, <1>2, <1>3, <1>4, <1>6, <2>2 DEF SessionsTyped, MarksOfTheProgram
  <2> QED
    BY <2>1, <2>2
<1> QED
  BY <1>5, <1>7, <1>8

LEMMA InitAttrFailsKeeps == ASSUME IInv, NEW t \in Types, InitAttrFails(t) PROVE IInv'
<1> USE DEF IInv, Live
<1> PICK k \in Needs(t) : OpenDevices(Needs(t) \cap Earlier[k])
  BY DEF InitAttrFails
<1>1. UNCHANGED <<es, ses>> /\ hurt' = TRUE
  BY DEF InitAttrFails
<1>2. Needs(t) \cap Earlier[k] \subseteq Devices
  BY TypesAssumption, NeedsTyped
<1>3. SessionsTyped' /\ MarkedIsOurs'
  BY <1>1, <1>2 DEF SessionsTyped, MarkedIsOurs, OpenDevices
<1>4. OneProgram' /\ EsDecoderStays' /\ MarksOfTheProgram'
  BY <1>1 DEF OneProgram, EsDecoderStays, MarksOfTheProgram
<1> QED
  BY <1>3, <1>4

LEMMA OpenKeeps == ASSUME IInv, NEW s \in Sessions, Open(s) PROVE IInv'
<1> USE DEF IInv, Live
<1>1. /\ UNCHANGED <<devs, marks, es, hurt>> /\ ses[s].st = "inited"
      /\ ses' = [ses EXCEPT ![s].st = "open"]
  BY DEF Open
<1>2. SessionsTyped' /\ MarkedIsOurs'
  BY <1>1 DEF SessionsTyped, MarkedIsOurs
<1>3. /\ Live' = Live
      /\ \A r \in Sessions : /\ ses'[r].type = ses[r].type /\ ses'[r].prog = ses[r].prog
                            /\ ses'[r].started <=> ses[r].started
  BY <1>1 DEF SessionsTyped
<1>4. OneProgram' /\ EsDecoderStays' /\ MarksOfTheProgram'
  BY <1>1, <1>3 DEF OneProgram, EsDecoderStays, MarksOfTheProgram
<1> QED
  BY <1>2, <1>4

\* What an elementary stream session has started opens is its own
LEMMA EsStartKeeps ==
    ASSUME IInv, NEW s \in Sessions, EsStart(s) \/ EsStartFails(s)
    PROVE  IInv'
<1> USE DEF IInv, Live
<1>1. UNCHANGED <<devs, marks, hurt>> /\ ses[s].type = "es" /\ ses[s].st = "open"
  BY DEF EsStart, EsStartFails
<1>2. CASE EsStart(s)
  <2>1. es' = es \cup ses[s].prog /\ ses' = [ses EXCEPT ![s].started = TRUE]
    BY <1>2 DEF EsStart
  <2>2. SessionsTyped' /\ MarkedIsOurs'
    BY <1>1, <2>1 DEF SessionsTyped, MarkedIsOurs
  <2>3. /\ Live' = Live /\ s \in Live
        /\ \A r \in Sessions : ses'[r].type = ses[r].type /\ ses'[r].prog = ses[r].prog
        /\ \A r \in Sessions \ {s} : ses'[r].started <=> ses[r].started
    BY <1>1, <2>1 DEF SessionsTyped
  <2>4. OneProgram' /\ MarksOfTheProgram'
    BY <1>1, <2>3 DEF OneProgram, MarksOfTheProgram
  <2>5. EsDecoderStays'
    BY <2>1, <2>3 DEF EsDecoderStays
  <2> QED
    BY <2>2, <2>4, <2>5
<1>3. CASE EsStartFails(s)
  <2>1. es \subseteq es' /\ UNCHANGED ses
    BY <1>3 DEF EsStartFails
  <2> QED
    BY <1>1, <2>1 DEF SessionsTyped, OneProgram, MarksOfTheProgram, MarkedIsOurs, EsDecoderStays
<1> QED
  BY <1>2, <1>3

\* A session that goes leaves the others as they are
LEMMA GoneSession ==
    ASSUME IInv, NEW s \in Live, ses' = [ses EXCEPT ![s] = NoSession]
    PROVE  /\ Live' = Live \ {s}
           /\ \A r \in Live' : ses'[r] = ses[r]
           /\ OneProgram'
<1> USE DEF IInv, Live, NoSession
<1>1. s \in Sessions /\ \A r \in Sessions \ {s} : ses'[r] = ses[r]
  BY DEF SessionsTyped
<1>2. ses'[s].st = "free"
  BY <1>1 DEF SessionsTyped
<1>3. Live' = Live \ {s}
  BY <1>1, <1>2
<1> QED
  BY <1>1, <1>3 DEF OneProgram

\* The only program session takes all that is marked with it
LEMMA CloseKeeps ==
    ASSUME IInv, NEW s \in Sessions, Close(s) \/ CloseFails(s)
    PROVE  IInv'
<1> USE DEF IInv
<1>1. /\ s \in Live /\ ses[s].type # "es"
      /\ ses' = [ses EXCEPT ![s] = NoSession] /\ es' = es
  BY DEF Close, CloseFails, Plays, Live
<1>2. EsDecoderStays' /\ OneProgram'
  BY <1>1, GoneSession DEF EsDecoderStays
<1>3. ses' \in [Sessions -> [st : {"free", "inited", "open"}, type : {"ram", "nim", "es"},
                            prog : SUBSET {"video", "audio"}, started : BOOLEAN]]
  BY <1>1 DEF SessionsTyped, NoSession
<1>4. CASE Close(s)
  <2>1. /\ devs' = [k \in Devices |-> IF k \in marks \cap Needs(ses[s].type)
                                      THEN "closed" ELSE devs[k]]
        /\ marks' = {} /\ hurt' = hurt
    BY <1>4 DEF Close, CloseDevices
  <2>2. SessionsTyped' /\ MarkedIsOurs'
    BY <1>3, <2>1 DEF SessionsTyped, MarkedIsOurs
  <2>3. ASSUME ~hurt PROVE marks \subseteq Needs(ses[s].type)
    BY <1>1, <2>3 DEF MarksOfTheProgram, OneProgram
  <2>4. MarksOfTheProgram'
    BY <2>1, <2>3 DEF SessionsTyped, MarksOfTheProgram
  <2> QED
    BY <1>2, <2>2, <2>4
<1>5. CASE CloseFails(s)
  <2> PICK k \in marks \cap {"deca", "decv"} :
        LET done == marks \cap Needs(ses[s].type) \cap Earlier[k]
        IN  CloseDevices(done) /\ marks' = marks \ done
    BY <1>5 DEF CloseFails
  <2> DEFINE done == marks \cap Needs(ses[s].type) \cap Earlier[k]
  <2>1. /\ devs' = [j \in Devices |-> IF j \in done THEN "closed" ELSE devs[j]]
        /\ marks' = marks \ done
    BY DEF CloseDevices
  <2>2. hurt' = TRUE
    BY <1>5 DEF CloseFails
  <2> HIDE DEF done
  <2>3. SessionsTyped' /\ MarkedIsOurs' /\ MarksOfTheProgram'
    BY <1>3, <2>1, <2>2 DEF SessionsTyped, MarkedIsOurs, MarksOfTheProgram
  <2> QED
    BY <1>2, <2>3
<1> QED
  BY <1>4, <1>5

\* Beside an elementary stream session nothing is marked while nothing failed
LEMMA EsCloseKeeps ==
    ASSUME IInv, NEW s \in Sessions, EsClose(s) \/ EsCloseFails(s)
    PROVE  IInv'
<1> USE DEF IInv
<1>1. /\ s \in Live /\ ses[s].type = "es"
      /\ ses' = [ses EXCEPT ![s] = NoSession] /\ devs' = devs
      /\ es \ ses[s].prog \subseteq es'
  BY DEF EsClose, EsCloseFails, Live
<1>2. EsDecoderStays' /\ OneProgram'
  BY <1>1, GoneSession DEF EsDecoderStays, OneProgram
<1>3. ses' \in [Sessions -> [st : {"free", "inited", "open"}, type : {"ram", "nim", "es"},
                            prog : SUBSET {"video", "audio"}, started : BOOLEAN]]
  BY <1>1 DEF SessionsTyped, NoSession
<1>4. \/ marks' = {} /\ hurt' = hurt
      \/ marks' = marks /\ hurt' = TRUE
  BY DEF EsClose, EsCloseFails
<1>5. SessionsTyped' /\ MarkedIsOurs'
  BY <1>1, <1>3, <1>4 DEF SessionsTyped, MarkedIsOurs
<1>6. ASSUME ~hurt PROVE marks = {}
  BY <1>1, <1>6 DEF MarksOfTheProgram, OneProgram
<1>7. MarksOfTheProgram'
  BY <1>1, <1>4, <1>6 DEF MarksOfTheProgram
<1> QED
  BY <1>2, <1>5, <1>7

\* The application takes closed devices, and gives back its own
LEMMA AppKeeps ==
    ASSUME IInv, NEW k \in Devices, AppOpen(k) \/ AppClose(k)
    PROVE  IInv'
<1> USE DEF IInv
<1>1. UNCHANGED <<marks, es, ses, hurt>>
  BY DEF AppOpen, AppClose
<1>2. /\ k \notin marks
      /\ \E w \in {"app", "closed"} :
            devs' = [j \in Devices |-> IF j = k THEN w ELSE devs[j]]
  BY DEF AppOpen, AppClose, CloseDevices, MarkedIsOurs, SessionsTyped
<1> QED
  BY <1>1, <1>2 DEF SessionsTyped, OneProgram, MarksOfTheProgram, MarkedIsOurs,
                    EsDecoderStays, Live

LEMMA NextKeeps == IInv /\ [Next]_vars => IInv'
<1> SUFFICES ASSUME IInv, [Next]_vars PROVE IInv'
  OBVIOUS
<1>1. CASE UNCHANGED vars
  BY <1>1, DemuxOnly DEF vars
<1>2. CASE \E s \in Sessions, t \in Types, p \in SUBSET {"video", "audio"} : InitAttr(s, t, p)
  BY <1>2, InitAttrKeeps
<1>3. CASE \E t \in Types : InitAttrFails(t)
  BY <1>3, InitAttrFailsKeeps
<1>4. ASSUME NEW s \in Sessions, Open(s) \/ EsStart(s) \/ EsStartFails(s)
      PROVE  IInv'
  BY <1>4, OpenKeeps, EsStartKeeps
<1>5. ASSUME NEW s \in Sessions, Close(s) \/ CloseFails(s) \/ EsClose(s) \/ EsCloseFails(s)
      PROVE  IInv'
  BY <1>5, CloseKeeps, EsCloseKeeps
<1>6. ASSUME NEW k \in AppDevices, AppOpen(k) \/ AppClose(k) PROVE IInv'
  BY <1>6, AppKeeps, BoundsAssumption
<1>7. ASSUME NEW s \in Sessions, Stop(s) \/ \E p \in Programs, modify \in BOOLEAN : Start(s, p, modify)
      PROVE  IInv'
  BY <1>7, DemuxOnly DEF Stop, Start
<1>8. ASSUME AppStream \/ \E c \in Channels : AppSection(c) PROVE IInv'
  BY <1>8, DemuxOnly DEF AppStream, AppSection
<1> QED
  BY <1>1, <1>2, <1>3, <1>4, <1>5, <1>6, <1>7, <1>8 DEF Next

LEMMA SpecInv == Spec => []IInv
BY InitInv, NextKeeps, PTL DEF Spec

\* No session's close takes a device of the application, whatever fails
THEOREM MarksHold == Spec => []MarkedIsOurs
<1>1. IInv => MarkedIsOurs
  BY DEF IInv
<1> QED
  BY <1>1, SpecInv, PTL

\* While nothing fails, the last close leaves no device of a session open
THEOREM ClosesLeaveNothing == Spec => []NothingLeftOpen
<1>1. IInv => NothingLeftOpen
  BY DEF IInv, MarksOfTheProgram, NothingLeftOpen
<1> QED
  BY <1>1, SpecInv, PTL

\* A started session keeps its decoders until its own close
THEOREM DecodersStay == Spec => []EsDecoderStays
<1>1. IInv => EsDecoderStays
  BY DEF IInv
<1> QED
  BY <1>1, SpecInv, PTL

-----------------------------------------------------------------------------
(* The demux's channels                                                     *)

\* An open section channel keeps a channel of its own
SectionsHold(d) ==
    \A c, e \in Channels :
        d.channel[c] # None =>
            /\ d.used[d.channel[c]] = "section"
            /\ d.channel[e] = d.channel[c] => e = c

\* A channel allocated to a stream is on record in the stream, and it is started
StreamsHold(d) ==
    \A i \in ChIds : \A k \in Kinds :
        d.used[i] = k => d.started /\ d.chid[k] = i

\* The number on record in a stream is that of a channel of its own; after a
\* refused start it may be one that was given back and is still free
NumbersHold(d) ==
    \A k \in Kinds :
        d.chid[k] # None =>
            \/ d.used[d.chid[k]] = k
            \/ d.refused /\ d.used[d.chid[k]] = None

DemuxInv(d) == d \in DemuxType /\ SectionsHold(d) /\ StreamsHold(d) /\ NumbersHold(d)

LEMMA OwnersDiffer == None \notin Kinds /\ "section" \notin Kinds /\ None # "section" /\ None \notin ChIds
BY NoneAssumption DEF Kinds

LEMMA FreshKeeps == DemuxInv(Fresh)
BY OwnersDiffer DEF DemuxInv, DemuxType, SectionsHold, StreamsHold, NumbersHold, Fresh

LEMMA ReleaseFields ==
    ASSUME NEW d \in DemuxType, NEW ks \in SUBSET Kinds
    PROVE  LET r == Release(d, ks)
           IN  /\ r \in DemuxType
               /\ r.used = Freed(d.used, {d.chid[k] : k \in ks})
               /\ r.chid = [k \in Kinds |-> IF k \in ks THEN None ELSE d.chid[k]]
               /\ r.channel = d.channel /\ r.pid = d.pid
               /\ r.started = d.started /\ r.refused = d.refused
BY DEF Release, DemuxType, Freed

\* Giving back streams' channels takes none from a section or another stream
LEMMA ReleaseKeeps ==
    ASSUME NEW d, DemuxInv(d), NEW ks \in SUBSET Kinds
    PROVE  /\ DemuxInv(Release(d, ks))
           /\ \A i \in ChIds : Release(d, ks).used[i] \notin ks
<1> DEFINE r == Release(d, ks)
           ids == {d.chid[k] : k \in ks}
<1>1. /\ r \in DemuxType /\ d \in DemuxType
      /\ r.used = Freed(d.used, ids)
      /\ r.chid = [k \in Kinds |-> IF k \in ks THEN None ELSE d.chid[k]]
      /\ r.channel = d.channel
      /\ r.started = d.started /\ r.refused = d.refused
  BY ReleaseFields DEF DemuxInv
<1>2. \A i \in ChIds : r.used[i] = IF i \in ids THEN None ELSE d.used[i]
  BY <1>1 DEF Freed
<1> HIDE DEF r
<1>3. \A i \in ids \cap ChIds : d.used[i] # "section"
  BY OwnersDiffer DEF DemuxInv, NumbersHold
<1>4. SectionsHold(r)
  BY <1>1, <1>2, <1>3 DEF DemuxInv, SectionsHold, DemuxType
<1>5. \A i \in ChIds : r.used[i] \notin ks
  BY <1>2, OwnersDiffer DEF DemuxInv, StreamsHold
<1>6. StreamsHold(r)
  BY <1>1, <1>2, <1>5, OwnersDiffer DEF DemuxInv, StreamsHold
<1>7. NumbersHold(r)
  <2> SUFFICES ASSUME NEW k \in Kinds, r.chid[k] # None
               PROVE  \/ r.used[r.chid[k]] = k
                      \/ r.refused /\ r.used[r.chid[k]] = None
    BY DEF NumbersHold
  <2>1. k \notin ks /\ r.chid[k] = d.chid[k] /\ d.chid[k] \in ChIds
    BY <1>1 DEF DemuxType
  <2>2. CASE d.used[d.chid[k]] = k
    <3>1. d.chid[k] \notin ids
      BY <2>1, <2>2, OwnersDiffer DEF DemuxInv, NumbersHold
    <3> QED
      BY <2>1, <2>2, <3>1, <1>2
  <2>3. CASE d.refused /\ d.used[d.chid[k]] = None
    BY <2>1, <2>3, <1>1, <1>2
  <2> QED
    BY <2>1, <2>2, <2>3 DEF DemuxInv, NumbersHold
<1> QED
  BY <1>1, <1>4, <1>5, <1>6, <1>7 DEF DemuxInv, r

LEMMA StreamStopKeeps == ASSUME NEW d, DemuxInv(d) PROVE DemuxInv(StreamStop(d))
<1> DEFINE r == Release(d, Kinds)
           x == StreamStop(d)
<1>1. DemuxInv(r) /\ \A i \in ChIds : r.used[i] \notin Kinds
  BY ReleaseKeeps
<1>2. r.chid = [k \in Kinds |-> None]
  <2>1. d \in DemuxType /\ Kinds \in SUBSET Kinds
    BY DEF DemuxInv
  <2>2. r.chid = [k \in Kinds |-> IF k \in Kinds THEN None ELSE d.chid[k]]
    BY <2>1, ReleaseFields
  <2> HIDE DEF r
  <2> QED
    BY <2>2
<1>3. x = [r EXCEPT !.started = FALSE, !.see = FALSE, !.refused = FALSE]
  BY DEF StreamStop
<1> HIDE DEF r, x
<1>4. x \in DemuxType /\ x.used = r.used /\ x.chid = r.chid /\ x.channel = r.channel
  BY <1>1, <1>3 DEF DemuxInv, DemuxType
<1>5. SectionsHold(x)
  BY <1>1, <1>4 DEF DemuxInv, SectionsHold
<1>6. StreamsHold(x) /\ NumbersHold(x)
  BY <1>1, <1>2, <1>4 DEF StreamsHold, NumbersHold
<1> QED
  BY <1>4, <1>5, <1>6 DEF DemuxInv, x

LEMMA CreateKeeps ==
    ASSUME NEW d, DemuxInv(d), NEW p \in SUBSET Kinds
    PROVE  /\ DemuxInv(Create(d, p))
           /\ Create(d, p).chid = d.chid /\ Create(d, p).refused = d.refused
<1> DEFINE x == Create(d, p)
<1>1. About(p) \subseteq Kinds
  BY DEF About, Kinds
<1>2. /\ x \in DemuxType
      /\ x.used = d.used /\ x.chid = d.chid /\ x.channel = d.channel
      /\ x.started = d.started /\ x.refused = d.refused
  BY <1>1 DEF DemuxInv, DemuxType, Create
<1> HIDE DEF x
<1>3. SectionsHold(x) /\ StreamsHold(x) /\ NumbersHold(x)
  BY <1>2 DEF DemuxInv, SectionsHold, StreamsHold, NumbersHold
<1> QED
  BY <1>2, <1>3 DEF DemuxInv, x

LEMMA HaltedFields ==
    ASSUME NEW d \in DemuxType
    PROVE  /\ Halted(d) \in DemuxType
           /\ Halted(d).used = d.used /\ Halted(d).chid = d.chid
           /\ Halted(d).channel = d.channel /\ Halted(d).pid = d.pid
           /\ Halted(d).started = d.started /\ Halted(d).refused = d.refused
BY DEF Halted, DemuxType

\* The channels f takes for the streams W are theirs in u, the others are as in used
Takes(u, used, W, F, f) ==
    /\ f \in [W -> F] /\ \A k, l \in W : f[k] = f[l] => k = l
    /\ \A k \in W : u[f[k]] = k
    /\ \A i \in ChIds : (\A k \in W : f[k] # i) => u[i] = used[i]
    /\ \A i \in ChIds : u[i] \in W \/ u[i] = used[i]

LEMMA AllocatedFields ==
    ASSUME NEW used, NEW W \in SUBSET Kinds, NEW F \in SUBSET ChIds, NEW f \in Injection(W, F)
    PROVE  Takes(Allocated(used, f), used, W, F, f)
<1>1. f \in [W -> F] /\ \A k, l \in W : f[k] = f[l] => k = l
  BY DEF Injection, IsInjective
<1>2. \A i \in ChIds : i \in Range(f) <=> \E k \in W : f[k] = i
  BY <1>1 DEF Range
<1>3. \A k \in W : AntiFunction(f)[f[k]] = k
  <2> SUFFICES ASSUME NEW k \in W PROVE AntiFunction(f)[f[k]] = k
    OBVIOUS
  <2>1. f[k] \in Range(f) /\ DOMAIN f = W
    BY <1>1 DEF Range
  <2>2. AntiFunction(f)[f[k]] = CHOOSE l \in W : f[k] \in Range(f) => f[l] = f[k]
    BY <2>1 DEF AntiFunction, Inverse
  <2>3. \A l \in W : (f[k] \in Range(f) => f[l] = f[k]) <=> l = k
    BY <1>1, <2>1
  <2> QED
    BY <2>2, <2>3
<1>4. \A i \in ChIds : Allocated(used, f)[i] = IF i \in Range(f) THEN AntiFunction(f)[i] ELSE used[i]
  BY DEF Allocated
<1>5. \A k \in W : f[k] \in ChIds /\ f[k] \in Range(f)
  BY <1>1, <1>2
<1> QED
  BY <1>1, <1>2, <1>3, <1>4, <1>5 DEF Takes

\* A start that succeeds
LEMMA StartSucceedsKeeps ==
    ASSUME NEW d, DemuxInv(d), ~d.refused,
           NEW W \in SUBSET Kinds, \A k \in W : d.chid[k] = None,
           NEW x \in StartSucceeds(d, W)
    PROVE  DemuxInv(x)
<1> DEFINE h == Halted(d)
<1>1. /\ h \in DemuxType
      /\ h.used = d.used /\ h.chid = d.chid /\ h.channel = d.channel
      /\ h.refused = d.refused
  BY HaltedFields DEF DemuxInv
<1>2. PICK f \in Injection(W, FreeIds(d)) :
        x = [h EXCEPT !.chid = [k \in Kinds |-> IF k \in W THEN f[k] ELSE @[k]],
                      !.used = Allocated(@, f), !.started = TRUE, !.see = TRUE]
  BY DEF StartSucceeds
<1> HIDE DEF h
<1>3. FreeIds(d) \in SUBSET ChIds /\ \A i \in FreeIds(d) : d.used[i] = None
  BY DEF FreeIds
<1> DEFINE u == Allocated(d.used, f)
<1>4. /\ f \in [W -> FreeIds(d)] /\ \A k, l \in W : f[k] = f[l] => k = l
      /\ \A k \in W : u[f[k]] = k
      /\ \A i \in ChIds : (\A k \in W : f[k] # i) => u[i] = d.used[i]
      /\ \A i \in ChIds : u[i] \in W \/ u[i] = d.used[i]
  <2>1. f \in Injection(W, FreeIds(d))
    BY <1>2
  <2>2. Takes(u, d.used, W, FreeIds(d), f)
    BY <1>3, <2>1, AllocatedFields
  <2> QED
    BY <2>2 DEF Takes
<1>5. u \in [ChIds -> Kinds \cup {"section", None}]
  <2>1. \A i \in ChIds : u[i] \in Kinds \cup {"section", None}
    BY <1>4 DEF DemuxInv, DemuxType
  <2>2. u = [i \in ChIds |-> u[i]]
    BY DEF Allocated
  <2> HIDE DEF u
  <2> QED
    BY <2>1, <2>2
<1> HIDE DEF u
<1>6. /\ x \in DemuxType
      /\ x.used = u /\ x.chid = [k \in Kinds |-> IF k \in W THEN f[k] ELSE d.chid[k]]
      /\ x.channel = d.channel /\ x.started = TRUE /\ x.refused = d.refused
  <2>1. x.used = u /\ x.chid = [k \in Kinds |-> IF k \in W THEN f[k] ELSE d.chid[k]]
    BY <1>1, <1>2 DEF u, DemuxType
  <2>3. x.channel = d.channel /\ x.started = TRUE /\ x.refused = d.refused
    BY <1>1, <1>2 DEF DemuxType
  <2>2. x.chid \in [Kinds -> ChIds \cup {None}]
    BY <2>1, <1>3, <1>4 DEF DemuxInv, DemuxType
  <2>4. x \in DemuxType
    BY <1>1, <1>2, <1>5, <2>1, <2>2 DEF DemuxType
  <2> QED
    BY <2>1, <2>3, <2>4
<1>7. \A i \in ChIds : d.used[i] # None => \A k \in W : f[k] # i
  BY <1>3, <1>4
<1>8. SectionsHold(x)
  BY <1>4, <1>6, <1>7, OwnersDiffer DEF DemuxInv, DemuxType, SectionsHold
<1>9. StreamsHold(x)
  <2> SUFFICES ASSUME NEW i \in ChIds, NEW k \in Kinds, x.used[i] = k
               PROVE  x.chid[k] = i
    BY <1>6 DEF StreamsHold
  <2>1. CASE \E l \in W : f[l] = i
    BY <2>1, <1>4, <1>6
  <2>2. CASE \A l \in W : f[l] # i
    <3>1. d.used[i] = k /\ d.chid[k] = i
      BY <2>2, <1>4, <1>6 DEF DemuxInv, StreamsHold
    <3>2. k \notin W
      BY <3>1, OwnersDiffer
    <3> QED
      BY <3>1, <3>2, <1>6
  <2> QED
    BY <2>1, <2>2
<1>10. NumbersHold(x)
  <2> SUFFICES ASSUME NEW k \in Kinds, x.chid[k] # None
               PROVE  \/ x.used[x.chid[k]] = k
                      \/ x.refused /\ x.used[x.chid[k]] = None
    BY DEF NumbersHold
  <2>1. CASE k \in W
    BY <2>1, <1>4, <1>6
  <2>2. CASE k \notin W
    <3>1. x.chid[k] = d.chid[k] /\ d.chid[k] \in ChIds
      BY <2>2, <1>6 DEF DemuxInv, DemuxType
    <3> QED
      BY <3>1, <1>4, <1>6, <1>7, OwnersDiffer DEF DemuxInv, NumbersHold
  <2> QED
    BY <2>1, <2>2
<1> QED
  BY <1>6, <1>8, <1>9, <1>10 DEF DemuxInv

\* A start that is refused: what it has taken it has given back
LEMMA StartFailsKeeps ==
    ASSUME NEW d, DemuxInv(d),
           NEW W \in SUBSET Kinds, \A k \in W : d.chid[k] = None,
           NEW x \in StartFails(d, W)
    PROVE  DemuxInv(x)
<1> DEFINE h == Halted(d)
           first == First(W, Cardinality(FreeIds(d)))
<1>1. /\ h \in DemuxType
      /\ h.used = d.used /\ h.chid = d.chid /\ h.channel = d.channel
      /\ h.started = d.started
  BY HaltedFields DEF DemuxInv
<1>2. first \subseteq W
  BY DEF First
<1>3. PICK f \in Injection(first, FreeIds(d)) :
        x = [h EXCEPT !.chid = [k \in Kinds |-> IF k \in first THEN f[k] ELSE @[k]],
                      !.refused = TRUE]
  BY DEF StartFails
<1> HIDE DEF h, first
<1>4. f \in [first -> FreeIds(d)]
  BY <1>3 DEF Injection
<1>5. \A k \in first : f[k] \in ChIds /\ d.used[f[k]] = None
  BY <1>4 DEF FreeIds
<1>6. /\ x.used = d.used /\ x.channel = d.channel
      /\ x.chid = [k \in Kinds |-> IF k \in first THEN f[k] ELSE d.chid[k]]
      /\ x.started = d.started /\ x.refused = TRUE
  BY <1>1, <1>3 DEF DemuxType
<1>7. x.chid \in [Kinds -> ChIds \cup {None}]
  BY <1>5, <1>6 DEF DemuxInv, DemuxType
<1>8. x \in DemuxType
  BY <1>1, <1>3, <1>6, <1>7 DEF DemuxType
<1>9. SectionsHold(x)
  BY <1>6 DEF DemuxInv, SectionsHold
<1>10. StreamsHold(x)
  <2> SUFFICES ASSUME NEW i \in ChIds, NEW k \in Kinds, d.used[i] = k
               PROVE  d.started /\ x.chid[k] = i
    BY <1>6 DEF StreamsHold
  <2>1. d.started /\ d.chid[k] = i
    BY DEF DemuxInv, StreamsHold
  <2>2. k \notin first
    BY <2>1, <1>2, OwnersDiffer
  <2> QED
    BY <2>1, <2>2, <1>6
<1>11. NumbersHold(x)
  BY <1>5, <1>6 DEF DemuxInv, NumbersHold
<1> QED
  BY <1>8, <1>9, <1>10, <1>11 DEF DemuxInv

LEMMA StreamStartKeeps ==
    ASSUME NEW d, DemuxInv(d), NEW valid, NEW decoder, Ready(d, valid),
           NEW x \in StreamStart(d, valid, decoder).ok \cup StreamStart(d, valid, decoder).failed
    PROVE  DemuxInv(x)
<1> DEFINE W == Wanted(d, valid)
           h == Halted(d)
<1>1. W \in SUBSET Kinds /\ ~d.refused /\ \A k \in W : d.chid[k] = None
  BY DEF Wanted, Ready, DemuxInv, DemuxType
<1>2. CASE "video" \in W /\ ~decoder
  <2>1. x = [h EXCEPT !.refused = TRUE]
    BY <1>2 DEF StreamStart
  <2>2. /\ h \in DemuxType
        /\ h.used = d.used /\ h.chid = d.chid /\ h.channel = d.channel
        /\ h.started = d.started
    BY HaltedFields DEF DemuxInv
  <2> HIDE DEF h
  <2>3. /\ x \in DemuxType
        /\ x.used = d.used /\ x.chid = d.chid /\ x.channel = d.channel
        /\ x.started = d.started
    BY <2>1, <2>2 DEF DemuxType
  <2> QED
    BY <2>3, <1>1 DEF DemuxInv, SectionsHold, StreamsHold, NumbersHold
<1>3. CASE ~("video" \in W /\ ~decoder)
  <2>1. x \in StartSucceeds(d, W) \cup StartFails(d, W)
    BY <1>3 DEF StreamStart
  <2> HIDE DEF W
  <2> QED
    BY <2>1, <1>1, StartSucceedsKeeps, StartFailsKeeps
<1> QED
  BY <1>2, <1>3

\* A section channel is opened only while no start has been refused: a number
\* on record in a stream is not given to it
LEMMA ChannelOpenKeeps ==
    ASSUME NEW d, DemuxInv(d), ~d.refused, NEW c \in Channels, d.channel[c] = None,
           NEW x \in ChannelOpen(d, c)
    PROVE  DemuxInv(x)
<1>1. PICK i \in FreeIds(d) : x = [d EXCEPT !.channel[c] = i, !.used[i] = "section"]
  BY DEF ChannelOpen
<1>2. i \in ChIds /\ d.used[i] = None /\ i # None
  BY OwnersDiffer DEF FreeIds
<1>3. /\ x.channel = [d.channel EXCEPT ![c] = i] /\ x.used = [d.used EXCEPT ![i] = "section"]
      /\ x.chid = d.chid /\ x.started = d.started /\ x.refused = d.refused
  BY <1>1 DEF DemuxInv, DemuxType
<1>4. x.channel \in [Channels -> ChIds \cup {None}]
      /\ x.used \in [ChIds -> Kinds \cup {"section", None}]
  BY <1>2, <1>3 DEF DemuxInv, DemuxType
<1>5. x \in DemuxType
  BY <1>1, <1>3, <1>4 DEF DemuxInv, DemuxType
<1>6. SectionsHold(x)
  BY <1>2, <1>3, OwnersDiffer DEF DemuxInv, DemuxType, SectionsHold
<1>7. StreamsHold(x)
  BY <1>2, <1>3, OwnersDiffer DEF DemuxInv, DemuxType, StreamsHold
<1>8. NumbersHold(x)
  BY <1>2, <1>3, OwnersDiffer DEF DemuxInv, DemuxType, NumbersHold
<1> QED
  BY <1>5, <1>6, <1>7, <1>8 DEF DemuxInv

LEMMA ChannelsClosedKeeps ==
    ASSUME NEW d, DemuxInv(d), NEW C \in SUBSET Channels
    PROVE  DemuxInv(ChannelsClosed(d, C))
<1> DEFINE x == ChannelsClosed(d, C)
           ids == {d.channel[c] : c \in C}
<1>1. /\ x \in DemuxType
      /\ x.used = Freed(d.used, ids)
      /\ x.channel = [c \in Channels |-> IF c \in C THEN None ELSE d.channel[c]]
      /\ x.chid = d.chid /\ x.started = d.started /\ x.refused = d.refused
  BY DEF DemuxInv, DemuxType, ChannelsClosed, Freed
<1>2. \A i \in ChIds : x.used[i] = IF i \in ids THEN None ELSE d.used[i]
  BY <1>1 DEF Freed
<1> HIDE DEF x
<1>3. \A i \in ids \cap ChIds : d.used[i] = "section"
  BY OwnersDiffer DEF DemuxInv, SectionsHold
<1>4. SectionsHold(x)
  <2> SUFFICES ASSUME NEW c \in Channels, NEW e \in Channels, x.channel[c] # None
               PROVE  /\ x.used[x.channel[c]] = "section"
                      /\ x.channel[e] = x.channel[c] => e = c
    BY DEF SectionsHold
  <2>1. c \notin C /\ x.channel[c] = d.channel[c] /\ d.channel[c] \in ChIds
    BY <1>1 DEF DemuxInv, DemuxType
  <2>2. d.channel[c] \notin ids
    BY <2>1, OwnersDiffer DEF DemuxInv, SectionsHold
  <2> QED
    BY <2>1, <2>2, <1>1, <1>2, OwnersDiffer DEF DemuxInv, SectionsHold
<1>5. StreamsHold(x)
  BY <1>1, <1>2, OwnersDiffer DEF DemuxInv, StreamsHold
<1>6. NumbersHold(x)
  <2> SUFFICES ASSUME NEW k \in Kinds, d.chid[k] # None
               PROVE  \/ x.used[d.chid[k]] = k
                      \/ d.refused /\ x.used[d.chid[k]] = None
    BY <1>1 DEF NumbersHold
  <2>1. d.chid[k] \in ChIds
    BY DEF DemuxInv, DemuxType
  <2> QED
    BY <2>1, <1>2, <1>3, OwnersDiffer DEF DemuxInv, NumbersHold
<1> QED
  BY <1>1, <1>4, <1>5, <1>6 DEF DemuxInv, x

LEMMA DeviceStopKeeps ==
    ASSUME NEW d, DemuxInv(d), NEW x \in DeviceStop(d) PROVE DemuxInv(x)
<1>1. DemuxInv(ChannelsClosed(d, Channels))
  BY ChannelsClosedKeeps
<1>2. DemuxInv(StreamStop(ChannelsClosed(d, Channels)))
  BY <1>1, StreamStopKeeps
<1> QED
  BY <1>1, <1>2 DEF DeviceStop

-----------------------------------------------------------------------------
\* Every step of the sessions and the application keeps the demux's channels
LEMMA DemuxStep == DemuxInv(dmx) /\ [Next]_vars => DemuxInv(dmx')
<1> SUFFICES ASSUME DemuxInv(dmx), [Next]_vars PROVE DemuxInv(dmx')
  OBVIOUS
<1>1. CASE UNCHANGED dmx
  BY <1>1
<1>2. ASSUME NEW C, CloseDevices(C) PROVE DemuxInv(dmx')
  BY <1>2, FreshKeeps DEF CloseDevices
<1>3. ASSUME NEW s \in Sessions, NEW p \in Programs, NEW modify \in BOOLEAN, Start(s, p, modify)
      PROVE  DemuxInv(dmx')
  <2>1. \A x \in Modified(modify) : DemuxInv(x)
    BY DeviceStopKeeps, StreamStopKeeps DEF Modified
  <2>2. PICK x \in Modified(modify) :
            IF p \cap {"audio", "video"} = {} THEN dmx' = x
            ELSE LET d == Create(x, p)
                     r == StreamStart(d, Valid(p), devs["decv"] # "closed")
                 IN  Ready(d, Valid(p)) /\ dmx' \in r.ok \cup r.failed
    BY <1>3 DEF Start
  <2>3. DemuxInv(x) /\ p \in SUBSET Kinds
    BY <2>1, <2>2, BoundsAssumption DEF Kinds
  <2>4. DemuxInv(Create(x, p))
    BY <2>3, CreateKeeps
  <2>5. CASE p \cap {"audio", "video"} = {}
    BY <2>2, <2>3, <2>5
  <2>6. CASE p \cap {"audio", "video"} # {}
    <3> DEFINE d == Create(x, p)
    <3>1. Ready(d, Valid(p))
          /\ dmx' \in StreamStart(d, Valid(p), devs["decv"] # "closed").ok
                      \cup StreamStart(d, Valid(p), devs["decv"] # "closed").failed
      BY <2>2, <2>6
    <3> HIDE DEF d
    <3> QED
      BY <3>1, <2>4, StreamStartKeeps DEF d
  <2> QED
    BY <2>5, <2>6
<1>4. ASSUME NEW s \in Sessions, Stop(s) PROVE DemuxInv(dmx')
  BY <1>4, StreamStopKeeps DEF Stop
<1>5. ASSUME NEW s \in Sessions, Close(s) \/ CloseFails(s) PROVE DemuxInv(dmx')
  BY <1>5, <1>2 DEF Close, CloseFails
<1>6. ASSUME NEW c \in Channels, AppSection(c) PROVE DemuxInv(dmx')
  BY <1>6, ChannelOpenKeeps, ChannelsClosedKeeps DEF AppSection
<1>7. CASE AppStream
  <2>1. ASSUME NEW p \in Direct,
               LET d == Create(dmx, p)
                   r == StreamStart(d, Valid(p), devs["decv"] # "closed")
               IN  Ready(d, Valid(p)) /\ dmx' \in r.ok \cup r.failed
        PROVE  DemuxInv(dmx')
    <3> DEFINE d == Create(dmx, p)
    <3>1. DemuxInv(d)
      BY CreateKeeps, BoundsAssumption
    <3>2. Ready(d, Valid(p))
          /\ dmx' \in StreamStart(d, Valid(p), devs["decv"] # "closed").ok
                      \cup StreamStart(d, Valid(p), devs["decv"] # "closed").failed
      BY <2>1
    <3> HIDE DEF d
    <3> QED
      BY <3>1, <3>2, StreamStartKeeps
  <2>2. CASE dmx' \in {StreamStop(dmx), DisableAudio(dmx), DisableVideo(dmx)}
    <3>1. {"audio", "desc"} \in SUBSET Kinds /\ {"video", "pcr"} \in SUBSET Kinds
      BY DEF Kinds
    <3> QED
      BY <2>2, <3>1, StreamStopKeeps, ReleaseKeeps DEF DisableAudio, DisableVideo
  <2>3. CASE dmx' \in DeviceStop(dmx)
    BY <2>3, DeviceStopKeeps
  <2> QED
    BY <1>7, <2>1, <2>2, <2>3 DEF AppStream
<1>8. ASSUME NEW k \in AppDevices, AppOpen(k) \/ AppClose(k) PROVE DemuxInv(dmx')
  BY <1>8, <1>1, <1>2 DEF AppOpen, AppClose
<1>9. ASSUME NEW s \in Sessions,
             \/ \E t \in Types, p \in SUBSET {"video", "audio"} : InitAttr(s, t, p)
             \/ Open(s) \/ EsStart(s) \/ EsStartFails(s) \/ EsClose(s) \/ EsCloseFails(s)
      PROVE  DemuxInv(dmx')
  BY <1>9, <1>1 DEF InitAttr, Open, EsStart, EsStartFails, EsClose, EsCloseFails
<1>10. ASSUME NEW t \in Types, InitAttrFails(t) PROVE DemuxInv(dmx')
  BY <1>10, <1>1 DEF InitAttrFails
<1>11. CASE UNCHANGED vars
  BY <1>11, <1>1 DEF vars
<1> QED
  BY <1>3, <1>4, <1>5, <1>6, <1>7, <1>8, <1>9, <1>10, <1>11 DEF Next

\* The decoders that are open are those of the sessions' streams
LEMMA DecodersTyped ==
    SessionsTyped /\ es \subseteq {"video", "audio"} /\ [Next]_vars => (es \subseteq {"video", "audio"})'
<1> SUFFICES ASSUME SessionsTyped, es \subseteq {"video", "audio"}, [Next]_vars
             PROVE  es' \subseteq {"video", "audio"}
  OBVIOUS
<1>1. \A s \in Sessions : ses[s].prog \subseteq {"video", "audio"}
  BY DEF SessionsTyped
<1>2. ASSUME NEW s \in Sessions, EsStart(s) \/ EsStartFails(s) \/ EsClose(s) \/ EsCloseFails(s)
      PROVE  es' \subseteq {"video", "audio"}
  BY <1>1, <1>2 DEF EsStart, EsStartFails, EsClose, EsCloseFails
<1> QED
  BY <1>2 DEF Next, vars, InitAttr, InitAttrFails, Open, Stop, Start, Close, CloseFails,
              AppOpen, AppClose, AppSection, AppStream

LEMMA SpecDemux == Spec => [](DemuxInv(dmx) /\ SessionsTyped /\ es \subseteq {"video", "audio"})
<1>1. Init => DemuxInv(dmx) /\ es \subseteq {"video", "audio"}
  BY FreshKeeps DEF Init
<1>2. IInv => SessionsTyped
  BY DEF IInv
<1>3. DemuxInv(dmx) /\ [Next]_vars => (DemuxInv(dmx))'
  BY DemuxStep
<1> QED
  BY <1>1, <1>2, <1>3, DecodersTyped, SpecInv, PTL DEF Spec

\* Every device, mark, decoder, session and channel keeps its type
THEOREM TypesHold == Spec => []TypeOK
<1>1. DemuxInv(dmx) /\ SessionsTyped /\ es \subseteq {"video", "audio"} => TypeOK
  BY DEF DemuxInv, SessionsTyped, TypeOK
<1> QED
  BY <1>1, SpecDemux, PTL

\* No start, refused start, stop or close of a stream takes the channel of an
\* open section channel, and no two of these have one channel, for any number of
\* channels (aui_dmx_av_stream_start, aui_dmx_channel_open)
THEOREM SectionsKeepTheirChannels == Spec => []SectionKeepsItsChannel
<1>1. DemuxInv(dmx) => SectionKeepsItsChannel
  BY DEF DemuxInv, SectionsHold, SectionKeepsItsChannel
<1> QED
  BY <1>1, SpecDemux, PTL

\* No channel stays allocated to a stream that has lost its number or is stopped:
\* the roll-back of a refused start and every stop give all of them back
\* (aui_dmx_av_stream_start, aui_dmx_av_stream_stop)
THEOREM StreamsKeepTheirChannels == Spec => []StreamsOwnTheirChannels
<1>1. DemuxInv(dmx) => StreamsOwnTheirChannels
  BY DEF DemuxInv, StreamsHold, StreamsOwnTheirChannels
<1> QED
  BY <1>1, SpecDemux, PTL

=============================================================================

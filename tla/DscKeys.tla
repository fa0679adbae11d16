--------------------------------- MODULE DscKeys ---------------------------------
(***************************************************************************)
(* The keys of the descramblers, src/linux/aui_dsc.c.  A device keeps a     *)
(* list of keys (struct mkey), newest first, each for the PIDs it was       *)
(* attached for and with a number the driver gave (key_handle).             *)
(* aui_dsc_attach_key_info2dsc creates a key, updates the one it finds, or   *)
(* exchanges a clear key and one of a key ladder: it takes the old key off  *)
(* the list, gives back dsc_mutex, calls itself, and deletes the old key.   *)
(* One mutex serves all devices.                                            *)
(*                                                                         *)
(* Each device is used by one thread, named like the device.  The PIDs of   *)
(* one attach stand for one value: an application attaches a PID always     *)
(* with the same others.  Any call of the driver may fail.  Left out: the   *)
(* parameters of keys (IV, chaining, parity), PVR block mode, allocation    *)
(* failures, and a number 0 from the driver, which close would not delete.  *)
(***************************************************************************)
EXTENDS Naturals, SequencesExt

CONSTANTS
    Devices,                \* devices, and the threads that use them
    Raw,                    \* the devices of AUI_DSC_DATA_PURE
    Pids, R2R,              \* PIDs of the others, R2R_PID of Raw
    KlKeys, Words, OtpKeys, \* keys of key ladders, clear keys, keys of the OTP
    Numbers,                \* bound: key handles of one device
    None

Keys == KlKeys \cup Words \cup OtpKeys

ASSUME DevicesAssumption == Raw \subseteq Devices /\ None \notin Devices
ASSUME KeysAssumption ==
    /\ KlKeys \cap Words = {} /\ OtpKeys \cap (KlKeys \cup Words) = {}
    /\ None \notin Keys \cup Numbers
    /\ None \notin [pid : Pids \cup {R2R}, key : Keys, num : Numbers, routed : BOOLEAN]

Type(k) == IF k \in KlKeys THEN "kl" ELSE IF k \in Words THEN "clear" ELSE "otp"
PidsOf(d) == IF d \in Raw THEN {R2R} ELSE Pids
\* AUI_DSC_CONTENT_KEY_OTP is refused for TS
KeysOf(d) == IF d \in Raw THEN Keys ELSE KlKeys \cup Words

VARIABLES
    mutex,      \* dsc_mutex: the thread that has locked it
    opened,     \* open devices
    key_list,   \* of each device: [pid, key, num, routed], newest first
    key_type,   \* of each device: the type of the key created last
    drv,        \* the key behind each number of the driver
    pc,         \* where each thread is in its attach
    call,       \* [pid, key, old] of each thread: the attach, the key it exchanges
    spoiled,    \* history: devices on which a step has failed half-way
    want,       \* history: the key of the last attach that succeeded
    slipped     \* history: a thread has gone on without the mutex

dsc == <<opened, key_list, key_type, drv>>
history == <<spoiled, want>>
vars == <<mutex, dsc, pc, call, history, slipped>>

NoCall == [pid |-> None, key |-> None, old |-> None]
NoKeys(d) == [n \in Numbers |-> None]
NoWant(d) == [p \in PidsOf(d) |-> None]

Init ==
    /\ mutex = None
    /\ opened = {}
    /\ key_list = [d \in Devices |-> <<>>]
    /\ key_type = [d \in Devices |-> None]
    /\ drv = [d \in Devices |-> NoKeys(d)]
    /\ pc = [d \in Devices |-> "idle"]
    /\ call = [d \in Devices |-> NoCall]
    /\ want = [d \in Devices |-> NoWant(d)]
    /\ spoiled = {}
    /\ slipped = FALSE

At(d, point) == pc[d] = point
\* bound: a device on which a step has failed half-way is closed before it is
\* used again
Sound(d) == d \in opened \ spoiled
\* find_mkey_with_pid: the first key of the list that has the PID
Find(list, p) ==
    LET found == {i \in DOMAIN list : list[i].pid = p}
    IN  IF found = {} THEN None ELSE list[Min(found)]
Found(d) == Find(key_list[d], call[d].pid)
Without(list, m) == RemoveAt(list, CHOOSE i \in DOMAIN list : list[i] = m)
Changed(list, m, n) == [i \in DOMAIN list |-> IF list[i] = m THEN n ELSE list[i]]
FreeNumbers(d) == {n \in Numbers : drv[d][n] = None}

-----------------------------------------------------------------------------
(* aui_dsc_open, aui_dsc_close *)

Open(d) ==
    /\ d \notin opened
    /\ opened' = opened \cup {d}
    /\ UNCHANGED <<mutex, key_list, key_type, drv, pc, call, history, slipped>>

\* mutant: the keys of a closed device stay in its list
Close_KeepsList(d) ==
    /\ d \in opened /\ At(d, "idle")
    /\ opened' = opened \ {d}
    /\ drv' = [drv EXCEPT ![d] = NoKeys(d)]
    /\ want' = [want EXCEPT ![d] = NoWant(d)]
    /\ spoiled' = spoiled \ {d}
    /\ UNCHANGED <<mutex, key_list, key_type, pc, call, slipped>>
\* close deletes each key of the list, and the driver what is left
Close(d) ==
    /\ d \in opened /\ At(d, "idle")
    /\ opened' = opened \ {d}
    /\ key_list' = [key_list EXCEPT ![d] = <<>>]
    /\ key_type' = [key_type EXCEPT ![d] = None]
    /\ drv' = [drv EXCEPT ![d] = NoKeys(d)]
    /\ want' = [want EXCEPT ![d] = NoWant(d)]
    /\ spoiled' = spoiled \ {d}
    /\ UNCHANGED <<mutex, pc, call, slipped>>

-----------------------------------------------------------------------------
(* aui_dsc_attach_key_info2dsc *)

Attach(d, p, k) ==
    /\ Sound(d) /\ At(d, "idle")
    /\ pc' = [pc EXCEPT ![d] = "wait"]
    /\ call' = [call EXCEPT ![d] = [pid |-> p, key |-> k, old |-> None]]
    /\ UNCHANGED <<mutex, dsc, history, slipped>>

\* The search comes before the lock, but nobody else uses the device
Lock(d) ==
    /\ At(d, "wait") /\ mutex = None
    /\ mutex' = d
    /\ pc' = [pc EXCEPT ![d] = "in"]
    /\ UNCHANGED <<dsc, call, history, slipped>>

(* Every way out unlocks the mutex, whoever has locked it.  The outer call  *)
(* goes on after an inner one that succeeded: from a clear key with the     *)
(* mutex, from a key of a ladder without.                                   *)
Finish(d) ==
    /\ mutex' = None
    /\ pc' = [pc EXCEPT ![d] = "idle"]
    /\ call' = [call EXCEPT ![d] = NoCall]
    /\ slipped' = slipped
GoOn(d) ==
    LET locks == Type(call[d].old.key) = "clear"
    IN  /\ mutex' = None
        /\ pc' = [pc EXCEPT ![d] = IF locks THEN "relock" ELSE "bare"]
        /\ call' = call
        /\ slipped' = (slipped \/ ~locks)
Return(d, ok) == IF ok /\ call[d].old # None THEN GoOn(d) ELSE Finish(d)

\* mutant: a refused key returns with the mutex locked
Refused_KeepsMutex(d) ==
    /\ pc' = [pc EXCEPT ![d] = "idle"]
    /\ call' = [call EXCEPT ![d] = NoCall]
    /\ UNCHANGED <<mutex, slipped>>
Refused(d) == Return(d, FALSE)

\* What the call leaves is known, or no more: nothing is wanted of that PID
\* (Unknown), or of the device (Spoils).
Leaves(d, key) ==
    /\ want' = IF d \in spoiled THEN want ELSE [want EXCEPT ![d][call[d].pid] = key]
    /\ spoiled' = spoiled
Succeeds(d) == Leaves(d, call[d].key)
Unknown(d) == Leaves(d, None)
Spoils(d) ==
    /\ want' = [want EXCEPT ![d] = NoWant(d)]
    /\ spoiled' = spoiled \cup {d}

\* mutant: the key is not put in the list
NewKey_Unlisted(d, n, routed) ==
    /\ key_list' = key_list
    /\ key_type' = [key_type EXCEPT ![d] = Type(call[d].key)]
    /\ drv' = [drv EXCEPT ![d][n] = call[d].key]
    /\ opened' = opened
NewKey(d, n, routed) ==
    LET m == [pid |-> call[d].pid, key |-> call[d].key, num |-> n, routed |-> routed]
    IN  /\ key_list' = [key_list EXCEPT ![d] = <<m>> \o @]
        /\ key_type' = [key_type EXCEPT ![d] = Type(call[d].key)]
        /\ drv' = [drv EXCEPT ![d][n] = call[d].key]
        /\ opened' = opened

\* no key is found, or one of the OTP where another type is attached
Creates(d) ==
    Found(d) # None => Type(Found(d).key) = "otp" /\ Type(call[d].key) # "otp"

(* The PIDs of a TS device are added to the driver after the key is in the  *)
(* list; if that fails the key stays in the list.                           *)
Create(d) ==
    /\ At(d, "in") /\ Creates(d)
    /\ \E n \in FreeNumbers(d), added \in BOOLEAN :
        IF d \in Raw \/ added
        THEN NewKey(d, n, d \notin Raw) /\ Return(d, TRUE) /\ Succeeds(d)
        ELSE NewKey(d, n, FALSE) /\ Return(d, FALSE) /\ Spoils(d)

\* inside an exchange the old key is lost with it
CreateFails(d) ==
    /\ At(d, "in") /\ Creates(d)
    /\ Refused(d)
    /\ IF call[d].old = None THEN UNCHANGED history ELSE Spoils(d)
    /\ UNCHANGED dsc

\* The same ladder: only the parameters are written, or that fails
UpdateKl(d) ==
    /\ At(d, "in") /\ Found(d) # None
    /\ call[d].key \in KlKeys /\ Found(d).key = call[d].key
    /\ \E ok \in BOOLEAN : Return(d, ok)
    /\ UNCHANGED <<dsc, history>>

(* Another ladder: a new number takes the key, the PIDs are added, the old  *)
(* number is deleted.  If the PIDs are not added the call still succeeds.   *)
ChangeKl(d) ==
    /\ At(d, "in") /\ Found(d) # None
    /\ {call[d].key, Found(d).key} \subseteq KlKeys /\ Found(d).key # call[d].key
    /\ \E n \in FreeNumbers(d), added, deleted \in BOOLEAN :
        LET m == [Found(d) EXCEPT !.key = call[d].key, !.num = n,
                                  !.routed = added /\ d \notin Raw]
            kept == [drv EXCEPT ![d][n] = call[d].key]
        IN  /\ key_list' = [key_list EXCEPT ![d] = Changed(@, Found(d), m)]
            /\ drv' = IF added /\ deleted THEN [kept EXCEPT ![d][Found(d).num] = None] ELSE kept
            /\ Return(d, added => deleted)
            /\ IF added /\ deleted THEN Succeeds(d) ELSE Spoils(d)
    /\ UNCHANGED <<opened, key_type>>
ChangeKlFails(d) ==
    /\ At(d, "in") /\ Found(d) # None
    /\ {call[d].key, Found(d).key} \subseteq KlKeys /\ Found(d).key # call[d].key
    /\ Return(d, FALSE)
    /\ UNCHANGED <<dsc, history>>

(* A clear key is overwritten in the list, and written to the driver if the *)
(* key created last, for whatever PID, was a clear one too; the call does   *)
(* not tell.  The parameters follow.                                        *)
UpdateClear(d) ==
    /\ At(d, "in") /\ Found(d) # None
    /\ {call[d].key, Found(d).key} \subseteq Words
    /\ key_list' = [key_list EXCEPT ![d] =
            Changed(@, Found(d), [Found(d) EXCEPT !.key = call[d].key])]
    /\ \E written, ok \in BOOLEAN :
        LET writes == written /\ key_type[d] = "clear"
        IN  /\ ok => written
            /\ drv' = IF writes THEN [drv EXCEPT ![d][Found(d).num] = call[d].key] ELSE drv
            /\ Return(d, ok)
            /\ IF ok /\ writes THEN Succeeds(d) ELSE Unknown(d)
    /\ UNCHANGED <<opened, key_type>>

\* the key of the OTP is deleted and attached again, under any number
UpdateOtp(d) ==
    /\ At(d, "in") /\ Found(d) # None
    /\ {call[d].key, Found(d).key} \subseteq OtpKeys
    /\ \E n \in FreeNumbers(d) \cup {Found(d).num}, attached \in BOOLEAN :
        LET key == IF attached THEN call[d].key ELSE None
        IN  /\ drv' = [drv EXCEPT ![d][Found(d).num] = None, ![d][n] = key]
            /\ key_list' = [key_list EXCEPT ![d] = Changed(@, Found(d),
                    [Found(d) EXCEPT !.key = call[d].key,
                                     !.num = IF attached THEN n ELSE Found(d).num])]
            /\ Return(d, attached)
            /\ IF attached THEN Succeeds(d) ELSE Spoils(d)
    /\ UNCHANGED <<opened, key_type>>
\* the old number is not deleted, or a key of the OTP meets another type
OtpFails(d) ==
    /\ At(d, "in") /\ Found(d) # None
    /\ call[d].key \in OtpKeys
    /\ Return(d, FALSE)
    /\ UNCHANGED <<dsc, history>>

-----------------------------------------------------------------------------
(* The exchange of a clear key and one of a ladder *)

Exchange(d) ==
    /\ At(d, "in") /\ Found(d) # None
    /\ {Type(call[d].key), Type(Found(d).key)} = {"kl", "clear"}
    /\ key_list' = [key_list EXCEPT ![d] = Without(@, Found(d))]
    /\ mutex' = None
    /\ pc' = [pc EXCEPT ![d] = "wait"]
    /\ call' = [call EXCEPT ![d].old = Found(d)]
    /\ UNCHANGED <<opened, key_type, drv, history, slipped>>

Relock(d) ==
    /\ At(d, "relock") /\ mutex = None
    /\ mutex' = d
    /\ pc' = [pc EXCEPT ![d] = "back"]
    /\ UNCHANGED <<dsc, call, history, slipped>>

\* the driver may refuse to delete the old key
DeleteOld(d) ==
    /\ At(d, "back") \/ At(d, "bare")
    /\ \E ok \in BOOLEAN :
        /\ drv' = IF ok THEN [drv EXCEPT ![d][call[d].old.num] = None] ELSE drv
        /\ Finish(d)
        /\ IF ok THEN UNCHANGED history ELSE Spoils(d)
    /\ UNCHANGED <<opened, key_list, key_type>>

-----------------------------------------------------------------------------
(* aui_dsc_deattach_key_by_pid, which fails without effect, and the crypt   *)
(* calls take no mutex.                                                     *)

\* mutant: the driver keeps the key
Detach_KeepsNumber(d, p) ==
    /\ d \in opened /\ At(d, "idle") /\ Find(key_list[d], p) # None
    /\ key_list' = [key_list EXCEPT ![d] = Without(@, Find(@, p))]
    /\ want' = [want EXCEPT ![d][p] = None]
    /\ UNCHANGED <<mutex, opened, key_type, drv, pc, call, spoiled, slipped>>
Detach(d, p) ==
    /\ Sound(d) /\ At(d, "idle") /\ Find(key_list[d], p) # None
    /\ LET m == Find(key_list[d], p)
       IN  /\ drv' = [drv EXCEPT ![d][m.num] = None]
           /\ key_list' = [key_list EXCEPT ![d] = Without(@, m)]
    /\ want' = [want EXCEPT ![d][p] = None]
    /\ UNCHANGED <<mutex, opened, key_type, pc, call, spoiled, slipped>>

\* aui_dsc_encrypt, _decrypt: with one key, a clear one is written again
Crypt(d) ==
    /\ d \in Raw /\ Sound(d) /\ At(d, "idle") /\ Len(key_list[d]) = 1
    /\ key_type[d] = "clear" /\ key_list[d][1].key \in Words
    /\ drv' = [drv EXCEPT ![d][key_list[d][1].num] = key_list[d][1].key]
    /\ UNCHANGED <<mutex, opened, key_list, key_type, pc, call, history, slipped>>

Step(d) ==
    \/ Lock(d) \/ Relock(d)
    \/ Create(d) \/ CreateFails(d) \/ UpdateKl(d) \/ ChangeKl(d) \/ ChangeKlFails(d)
    \/ UpdateClear(d) \/ UpdateOtp(d) \/ OtpFails(d)
    \/ Exchange(d) \/ DeleteOld(d)

Next ==
    \E d \in Devices :
        \/ Open(d) \/ Close(d) \/ Crypt(d) \/ Step(d)
        \/ \E p \in PidsOf(d) : Detach(d, p) \/ \E k \in KeysOf(d) : Attach(d, p, k)

Spec == Init /\ [][Next]_vars

-----------------------------------------------------------------------------
(* Properties *)

TypeOK ==
    /\ mutex \in Devices \cup {None} /\ opened \subseteq Devices /\ spoiled \subseteq opened
    /\ slipped \in BOOLEAN
    /\ pc \in [Devices -> {"idle", "wait", "in", "relock", "back", "bare"}]
    /\ \A d \in Devices :
        /\ d \notin opened => key_list[d] = <<>>
        /\ \A i, j \in DOMAIN key_list[d] :
            i < j /\ key_list[d][i].pid = key_list[d][j].pid
            => key_list[d][i].key \notin OtpKeys /\ key_list[d][j].key \in OtpKeys
        /\ \A i \in DOMAIN key_list[d] :
            key_list[d][i] \in [pid : PidsOf(d), key : KeysOf(d), num : Numbers, routed : BOOLEAN]
        /\ key_type[d] \in {"kl", "clear", "otp", None}
        /\ drv[d] \in [Numbers -> KeysOf(d) \cup {None}]
        /\ want[d] \in [PidsOf(d) -> KeysOf(d) \cup {None}]

(* A key whose attach has succeeded is in force between the calls: it is    *)
(* found by its PID, the driver has it under its number, and a TS device    *)
(* has its PIDs; also after later attaches were refused, and beside keys of *)
(* other PIDs (aui_dsc.h:1164: "updated by calling this same function with  *)
(* the updated parameters").  Nothing is said of a PID whose clear key was  *)
(* updated without being written, see UpdateClear.                          *)
LastAttachIsInForce ==
    \A d \in Devices : At(d, "idle") =>
        \A p \in PidsOf(d) : want[d][p] # None =>
            LET m == Find(key_list[d], p)
            IN  /\ m # None
                /\ drv[d][m.num] = want[d][p]
                /\ m.routed <=> d \notin Raw

(* The driver holds one key for each key of the list and no others, also    *)
(* after exchanges (aui_dsc.c:573, 609, 718), so that detaching them all    *)
(* gives everything back, unless a step has failed half-way.                *)
KeysMatchDriver ==
    \A d \in Devices : At(d, "idle") /\ d \notin spoiled =>
        /\ {n \in Numbers : drv[d][n] # None} =
            {key_list[d][i].num : i \in DOMAIN key_list[d]}
        /\ \A i, j \in DOMAIN key_list[d] :
            key_list[d][i].num = key_list[d][j].num => i = j

(* "mutex lock, serial access to dsc handle" (aui_dsc.c:12): no two threads *)
(* are in the critical section, until one exchanges a ladder's key for a    *)
(* clear one and unlocks what it has not locked (aui_dsc.c:706-740); and    *)
(* nobody else holds the mutex: each way out of the function gives it back  *)
(* to the threads that wait (aui_dsc.c:544-918).                            *)
Inside(d) == pc[d] \in {"in", "back", "bare"}
SerialAccess ==
    /\ ~slipped => \A d, e \in Devices : Inside(d) /\ Inside(e) => d = e
    /\ mutex # None => Inside(mutex)

Symmetry ==
    Permutations(Pids) \cup Permutations(KlKeys) \cup Permutations(Words)
        \cup Permutations(Numbers)
=============================================================================

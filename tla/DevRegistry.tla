----------------------------- MODULE DevRegistry -----------------------------
(***************************************************************************)
(* The registry of open devices of src/linux/aui_common.c (all_hdl,         *)
(* aui_find_dev_by_idx, aui_dev_reg, aui_dev_unreg), used by several        *)
(* threads that open and close devices of one module.  The lists are        *)
(* searched and changed under m_aui_common_mutex; the flag that says they   *)
(* have been initialised is read and set without it.                        *)
(***************************************************************************)
EXTENDS Integers, FiniteSets

CONSTANTS
    User,       \* application threads
    Hdl,        \* addresses malloc hands out for a device structure
    Idx,        \* device indices
    Free,       \* an address that is not allocated
    None,       \* a thread without a device
    FindsFirst, \* the module's open looks for an open device first (aui_vbi_open);
                \* otherwise it registers and ignores the answer (aui_dmx_open)
    Booted      \* a device was registered before the threads started

ASSUME FreeAssumption == Free \notin Idx /\ None \notin Hdl
ASSUME ModeAssumption == FindsFirst \in BOOLEAN /\ Booted \in BOOLEAN

VARIABLES
    inited,     \* all_hdl_initialized
    list,       \* the handles linked into the module's list
    mem,        \* mem[h]: dev_idx of the structure at h, or Free
    at,         \* where each thread stands
    held        \* held[t]: the device t opened or is opening

regVars == <<inited, list, mem, at, held>>

RegInit ==
    /\ inited = Booted
    /\ list = {}
    /\ mem = [h \in Hdl |-> Free]
    /\ at = [t \in User |-> "closed"]
    /\ held = [t \in User |-> None]

Go(t, from, to) == at[t] = from /\ at' = [at EXCEPT ![t] = to]

SameIdx(h) == {d \in list : d = h \/ mem[d] = mem[h]}

(***************************************************************************)
(* open: aui_find_dev_by_idx, malloc, aui_dev_reg                           *)
(***************************************************************************)
\* aui_find_dev_by_idx finds the device: its handle is handed out again.
OpenFound(t) ==
    /\ FindsFirst /\ inited
    /\ Go(t, "closed", "open")
    /\ \E h \in list : held' = [held EXCEPT ![t] = h]
    /\ UNCHANGED <<inited, list, mem>>

OpenNew(t) ==
    /\ Go(t, "closed", "reg")
    /\ \E i \in Idx, h \in Hdl :
        /\ FindsFirst /\ inited => \A d \in list : mem[d] # i
        /\ mem[h] = Free
        /\ mem' = [mem EXCEPT ![h] = i]
        /\ held' = [held EXCEPT ![t] = h]
    /\ UNCHANGED <<inited, list>>

\* aui_dev_reg looks at all_hdl_initialized ...
RegCheck(t) ==
    /\ Go(t, "reg", IF inited THEN "add" ELSE "wipe")
    /\ UNCHANGED <<inited, list, mem, held>>

\* ... empties the lists, marks them initialised ...
RegWipe(t) ==
    /\ Go(t, "wipe", "mark")
    /\ list' = {}
    /\ UNCHANGED <<inited, mem, held>>

RegMark(t) ==
    /\ Go(t, "mark", "add")
    /\ inited' = TRUE
    /\ UNCHANGED <<list, mem, held>>

\* ... and links the device, unless its index is taken.
RegAdd_NoCheck(t) ==    \* mutant
    /\ at[t] = "add"
    /\ list' = list \cup {held[t]}
    /\ at' = [at EXCEPT ![t] = "open"]
    /\ UNCHANGED <<inited, mem, held>>
RegAdd(t) ==
    /\ at[t] = "add"
    /\ SameIdx(held[t]) = {}
    /\ list' = list \cup {held[t]}
    /\ at' = [at EXCEPT ![t] = "open"]
    /\ UNCHANGED <<inited, mem, held>>

\* AUI_RTN_EINVAL: aui_vbi_open frees the device, the others keep it.
RegTaken(t) ==
    /\ at[t] = "add"
    /\ SameIdx(held[t]) # {}
    /\ IF FindsFirst
         THEN /\ mem' = [mem EXCEPT ![held[t]] = Free]
              /\ held' = [held EXCEPT ![t] = None]
              /\ at' = [at EXCEPT ![t] = "closed"]
         ELSE at' = [at EXCEPT ![t] = "unlisted"] /\ UNCHANGED <<mem, held>>
    /\ UNCHANGED <<inited, list>>

(***************************************************************************)
(* close: aui_dev_unreg, free                                              *)
(***************************************************************************)
\* aui_dev_unreg searches for the handle, not for its index.
Unreg_Forgotten(h) == list' = list /\ h \in Hdl             \* mutant
Unreg(h) == list' = list \ {h}

Unregister(t) ==
    /\ at[t] \in {"open", "unlisted"}
    /\ FindsFirst => held[t] \in list
    /\ at' = [at EXCEPT ![t] = "free"]
    /\ Unreg(held[t])
    /\ UNCHANGED <<inited, mem, held>>

\* aui_vbi_close gives up, and leaves the device, when it is not listed.
UnregisterFails(t) ==
    /\ FindsFirst /\ Go(t, "open", "closed")
    /\ held[t] \notin list
    /\ held' = [held EXCEPT ![t] = None]
    /\ UNCHANGED <<inited, list, mem>>

Release(t) ==
    /\ Go(t, "free", "closed")
    /\ mem' = [mem EXCEPT ![held[t]] = Free]
    /\ held' = [held EXCEPT ![t] = None]
    /\ UNCHANGED <<inited, list>>

RegNext ==
    \E t \in User :
        \/ OpenFound(t) \/ OpenNew(t)
        \/ RegCheck(t) \/ RegWipe(t) \/ RegMark(t) \/ RegAdd(t) \/ RegTaken(t)
        \/ Unregister(t) \/ UnregisterFails(t) \/ Release(t)

RegSpec == RegInit /\ [][RegNext]_regVars

-----------------------------------------------------------------------------
\* A thread has a device exactly while it is not closed: a handle kept after
\* aui_*_close would reach freed memory.
RegTypeOK ==
    /\ inited \in BOOLEAN
    /\ list \in SUBSET Hdl
    /\ mem \in [Hdl -> Idx \cup {Free}]
    /\ at \in [User -> {"closed", "reg", "wipe", "mark", "add", "open", "unlisted", "free"}]
    /\ held \in [User -> Hdl \cup {None}]
    /\ \A t \in User : held[t] = None <=> at[t] = "closed"

\* Two listed devices never share an index: the search and the insertion of
\* aui_dev_reg are one critical section, however the opens interleave.
UniqueIndex == \A d, e \in list : mem[d] = mem[e] => d = e

\* The lists only link allocated structures: no close leaves a freed node
\* for the next search to follow.
ListedIsAllocated == \A d \in list : mem[d] # Free
=============================================================================

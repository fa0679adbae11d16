----------------------------- MODULE DmxFilter_proofs -----------------------------
(***************************************************************************)
(* The callback tokens of filters, for any threads, channels, filters and   *)
(* number of slots.  The first half holds whether or not the application    *)
(* keeps the order of the samples.  A slot that is written leads to its     *)
(* filter, so no two filters can have one slot; the rest says where a slot  *)
(* is between the steps in which a thread takes, writes and gives it back.  *)
(*                                                                          *)
(* The second half adds the driver and its callbacks, for an application    *)
(* that keeps the order of the samples: what is started is not closed       *)
(* meanwhile, so a slot the driver calls goes on leading to its filter.     *)
(***************************************************************************)
EXTENDS DmxFilter, TLAPS

Phases == {"idle", "chan", "slot", "driver", "link", "register", "close", "unlink",
           "token", "free"}
Opening == {"slot", "driver", "link"}

FilterTable ==
    [Filters -> [st : {"free", "opening", "open", "closing"},
                 chan : Channels \cup {None}, tid : Tokens, buf : BOOLEAN]]

Typed ==
    /\ tok \in [Tokens -> {"idle", "pre", "used"}]
    /\ arr \in [Tokens -> Filters \cup {None}]
    /\ chan \subseteq Channels
    /\ flt \in FilterTable
    /\ app \in [Threads -> [pc : Phases, c : Channels \cup {None}, f : Filters \cup {None},
                            t : Tokens, all : BOOLEAN]]

\* Mine: no two threads work on one channel
Apart ==
    \A a, b \in Threads : a # b /\ app[a].c # None => app[a].c # app[b].c

\* The filter, its slot and the slot's status at each step of a call
InStep(a) ==
    LET x == app[a]  f == x.f IN
    /\ IF x.pc = "idle" THEN x.c = None ELSE x.c \in Channels
    /\ x.pc \notin {"idle", "chan"} => f \in Filters /\ flt[f].chan = x.c
    /\ x.pc \in Opening => flt[f].st = "opening" /\ tok[x.t] = "pre"
    /\ x.pc \in {"driver", "link"} => arr[x.t] = f
    /\ x.pc = "register" =>
          /\ flt[f].st = "open"
          /\ (tok[x.t] = "pre" /\ flt[f].tid = 0) \/ x.t = flt[f].tid
    /\ x.pc \in {"close", "unlink"} => flt[f].st = "open"
    /\ x.pc \in {"token", "free"} => flt[f].st = "closing"
    /\ x.pc = "token" => tok[flt[f].tid] = "used" /\ arr[flt[f].tid] = f
    /\ x.pc = "free" => ~(tok[flt[f].tid] = "used" /\ arr[flt[f].tid] = f)

Working == \A a \in Threads : InStep(a)

\* A slot that is reserved belongs to one call at most
Private ==
    \A a, b \in Threads :
        /\ a # b
        /\ app[a].pc \in Opening \cup {"register"} /\ app[b].pc \in Opening \cup {"register"}
        /\ tok[app[a].t] = "pre"
        => app[a].t # app[b].t

Owned ==
    \A f \in Filters : flt[f].st = "open" => tok[flt[f].tid] = "used" /\ arr[flt[f].tid] = f

UsedLeads ==
    \A t \in Tokens \ {0} : tok[t] = "used" =>
        arr[t] \in Filters /\ flt[arr[t]].tid = t /\ flt[arr[t]].st \in {"open", "closing"}

IInv == Typed /\ Apart /\ Working /\ Private /\ Owned /\ UsedLeads

\* All of it is about these, and of a filter not its buffer
view == <<tok, arr, chan, app>>

LEMMA TokensAreNats == Tokens \subseteq Nat /\ 0 \in Tokens /\ None \notin Tokens
BY ConstantsAssumption DEF Tokens

LEMMA NoneApart == None \notin Channels /\ None \notin Filters
BY ConstantsAssumption

LEMMA InitInv == Init => IInv
<1> SUFFICES ASSUME Init PROVE IInv
  OBVIOUS
<1>1. Typed
  BY TokensAreNats DEF Init, Typed, FilterTable, Free, Resting, Phases
<1>2. Apart /\ Working /\ Private
  BY DEF Init, Apart, Working, Private, InStep, Resting, Opening
<1>3. Owned /\ UsedLeads
  BY DEF Init, Owned, UsedLeads, Free
<1> QED
  BY <1>1, <1>2, <1>3 DEF IInv

\* Two calls never have one filter
LEMMA OwnFilter ==
    ASSUME IInv, NEW a \in Threads, NEW b \in Threads, a # b,
           app[a].pc \notin {"idle", "chan"}, app[b].pc \notin {"idle", "chan"}
    PROVE  app[a].f # app[b].f
BY NoneApart DEF IInv, Working, InStep, Apart

\* A call's slot is never idle, and is another's only if that one's filter has it
LEMMA SlotTaken ==
    ASSUME IInv, NEW a \in Threads, app[a].pc \in Opening \cup {"register"}
    PROVE  /\ app[a].t \in Tokens /\ app[a].f \in Filters
           /\ tok[app[a].t] \in {"pre", "used"}
           /\ tok[app[a].t] = "used" => arr[app[a].t] = app[a].f
<1> USE DEF IInv
<1>1. CASE app[a].pc \in Opening
  BY <1>1 DEF Typed, FilterTable, Working, InStep, Opening
<1>2. CASE app[a].pc = "register"
  BY <1>2 DEF Typed, FilterTable, Working, InStep, Opening, Owned
<1> QED
  BY <1>1, <1>2

LEMMA ViewKeeps ==
    ASSUME IInv, UNCHANGED view,
           flt' \in FilterTable,
           \A f \in Filters : /\ flt'[f].st = flt[f].st /\ flt'[f].chan = flt[f].chan
                              /\ flt'[f].tid = flt[f].tid
    PROVE  IInv'
<1> USE DEF IInv, view
<1>1. Typed' /\ Apart' /\ Private'
  BY DEF Typed, FilterTable, Apart, Private
<1>2. ASSUME NEW a \in Threads PROVE InStep(a)'
  <2>1. CASE app[a].pc \in {"idle", "chan"}
    BY <2>1 DEF Working, InStep, Opening
  <2>2. CASE app[a].pc \notin {"idle", "chan"}
    BY <2>2 DEF Working, InStep
  <2> QED
    BY <2>1, <2>2
<1>3. Owned' /\ UsedLeads'
  BY DEF Owned, UsedLeads
<1> QED
  BY <1>1, <1>2, <1>3 DEF Working

(* What one call does leaves the others where they are: it changes neither  *)
(* their filter nor what their slot says.                                   *)
LEMMA OthersStay ==
    ASSUME IInv, NEW b \in Threads, app'[b] = app[b],
           app[b].pc \notin {"idle", "chan"} =>
              /\ flt'[app[b].f].st = flt[app[b].f].st
              /\ flt'[app[b].f].chan = flt[app[b].f].chan
              /\ flt'[app[b].f].tid = flt[app[b].f].tid,
           app[b].pc \in Opening \cup {"register"} /\ tok[app[b].t] = "pre" =>
              tok'[app[b].t] = "pre" /\ arr'[app[b].t] = arr[app[b].t],
           app[b].pc \in {"token", "free"} =>
              LET t == flt[app[b].f].tid
              IN  \/ tok'[t] = tok[t] /\ arr'[t] = arr[t]
                  \/ app[b].pc = "free" /\ (tok'[t] # "used" \/ arr'[t] # app[b].f)
    PROVE  InStep(b)'
<1> USE DEF IInv
<1>1. CASE app[b].pc \in {"idle", "chan"}
  BY <1>1 DEF Working, InStep, Opening
<1>2. CASE app[b].pc \notin {"idle", "chan"}
  BY <1>2 DEF Working, InStep, Opening
<1> QED
  BY <1>1, <1>2

LEMMA FilterOpenKeeps ==
    ASSUME IInv, NEW a \in Threads, NEW c \in Channels, NEW f \in Filters, NEW t \in Tokens,
           FilterOpen(a, c, f, t)
    PROVE  IInv'
<1> USE DEF IInv
<1>1. /\ app[a].pc = "idle" /\ \A b \in Threads : app[b].c # c
      /\ flt[f].st = "free" /\ tok[t] = "idle"
      /\ tok' = [tok EXCEPT ![t] = "pre"]
      /\ flt' = [flt EXCEPT ![f] = [st |-> "opening", chan |-> c, tid |-> 0, buf |-> FALSE]]
      /\ app' = [app EXCEPT ![a] = [pc |-> "slot", c |-> c, f |-> f, t |-> t, all |-> FALSE]]
      /\ UNCHANGED <<arr, chan>>
  BY DEF FilterOpen, Mine, Require, IdleTokens
<1>2. Typed'
  BY <1>1, TokensAreNats DEF Typed, FilterTable, Phases
<1>3. Apart' /\ Private'
  <2>1. Apart'
    BY <1>1, NoneApart DEF Typed, FilterTable, Apart
  <2>2. \A b \in Threads : app[b].pc \in Opening \cup {"register"} => app[b].t # t
    BY <1>1, SlotTaken
  <2>3. Private'
    BY <1>1, <2>2 DEF Typed, FilterTable, Private, Opening
  <2> QED
    BY <2>1, <2>3
<1>4. ASSUME NEW b \in Threads PROVE InStep(b)'
  <2>1. CASE b = a
    BY <1>1, <2>1 DEF Typed, FilterTable, InStep, Opening
  <2>2. CASE b # a
    <3>1. app'[b] = app[b]
      BY <1>1, <2>2 DEF Typed, FilterTable
    <3>2. app[b].pc \notin {"idle", "chan"} => app[b].f # f /\ app[b].f \in Filters
      BY <1>1, <2>2 DEF Typed, FilterTable, Working, InStep, Opening, Phases
    <3>3. app[b].pc \in {"token", "free"} => flt[app[b].f].tid \in Tokens
      BY <3>2 DEF Typed, FilterTable
    <3>4. app[b].t \in Tokens
      BY DEF Typed, FilterTable
    <3>5. app[b].pc \notin {"idle", "chan"} => flt'[app[b].f] = flt[app[b].f]
      BY <1>1, <3>2 DEF Typed, FilterTable
    <3>6. arr' = arr /\ \A u \in Tokens : u # t => tok'[u] = tok[u]
      BY <1>1 DEF Typed, FilterTable
    <3>7. tok[app[b].t] = "pre" => tok'[app[b].t] = "pre"
      BY <1>1, <3>4, <3>6
    <3>8. app[b].pc = "token" => tok[flt[app[b].f].tid] = "used"
      BY DEF Working, InStep
    <3>9. tok'[t] # "used" /\ tok[t] # "used"
      BY <1>1 DEF Typed, FilterTable
    <3>10. app[b].pc \in {"token", "free"} =>
             LET u == flt[app[b].f].tid
             IN  \/ tok'[u] = tok[u] /\ arr'[u] = arr[u]
                 \/ app[b].pc = "free" /\ (tok'[u] # "used" \/ arr'[u] # app[b].f)
      BY <3>3, <3>6, <3>8, <3>9
    <3> HIDE DEF IInv
    <3> QED
      BY <3>1, <3>5, <3>6, <3>7, <3>10, OthersStay
  <2> QED
    BY <2>1, <2>2
<1>5. Owned' /\ UsedLeads'
  BY <1>1 DEF Typed, FilterTable, Owned, UsedLeads
<1> QED
  BY <1>2, <1>3, <1>4, <1>5 DEF Working

LEMMA SlotKeeps == ASSUME IInv, NEW a \in Threads, FilterSlot(a) PROVE IInv'
<1> USE DEF IInv
<1> PICK f \in Filters, t \in Tokens, to \in {"driver", "link"} :
        /\ app[a].pc = "slot" /\ f = app[a].f /\ t = app[a].t
        /\ app' = [app EXCEPT ![a].pc = to]
  BY SlotTaken DEF FilterSlot, At, Go, Opening
<1>1. /\ app[a].pc = "slot" /\ f = app[a].f /\ t = app[a].t
      /\ app' = [app EXCEPT ![a].pc = to]
      /\ arr' = [arr EXCEPT ![t] = f]
      /\ UNCHANGED <<tok, chan, flt>>
  BY DEF FilterSlot
<1>2. tok[t] = "pre"
  BY <1>1 DEF Working, InStep, Opening
<1>3. /\ \A b \in Threads : /\ app'[b].c = app[b].c /\ app'[b].f = app[b].f
                           /\ app'[b].t = app[b].t
      /\ \A b \in Threads \ {a} : app'[b] = app[b]
      /\ app'[a].pc = to
  BY <1>1 DEF Typed, FilterTable
<1>4. Typed'
  BY <1>1 DEF Typed, FilterTable, Phases
<1>5. Apart' /\ Private'
  BY <1>1, <1>3 DEF Apart, Private, Opening
<1>6. ASSUME NEW b \in Threads PROVE InStep(b)'
  <2>1. CASE b = a
    BY <1>1, <1>3, <2>1 DEF Typed, FilterTable, Working, InStep, Opening
  <2>2. CASE b # a
    <3>1. app[b].pc \in Opening \cup {"register"} => app[b].t \in Tokens /\ (tok[app[b].t] = "pre" => app[b].t # t)
      BY <1>1, <2>2, SlotTaken DEF Private, Opening
    <3>2. app[b].pc \in {"token", "free"} => /\ flt[app[b].f].tid \in Tokens
                                            /\ app[b].f # f
      BY <1>1, <2>2, OwnFilter DEF Typed, FilterTable, Working, InStep
    <3> QED
      BY <1>1, <1>2, <1>3, <2>2, <3>1, <3>2, OthersStay DEF Typed, FilterTable, Working, InStep
  <2> QED
    BY <2>1, <2>2
<1>7. Owned' /\ UsedLeads'
  BY <1>1, <1>2 DEF Typed, FilterTable, Owned, UsedLeads
<1> QED
  BY <1>4, <1>5, <1>6, <1>7 DEF Working

\* A step after which the thread is one phase on and nothing else has changed
LEMMA GoKeeps ==
    ASSUME IInv, NEW a \in Threads, NEW to \in {"link", "unlink"},
           app' = [app EXCEPT ![a].pc = to],
           \/ app[a].pc = "driver" /\ to = "link"
           \/ app[a].pc = "close" /\ to = "unlink",
           UNCHANGED <<tok, arr, chan, flt>>
    PROVE  IInv'
<1> USE DEF IInv
<1>1. /\ \A b \in Threads : /\ app'[b].c = app[b].c /\ app'[b].f = app[b].f
                           /\ app'[b].t = app[b].t
      /\ \A b \in Threads \ {a} : app'[b] = app[b]
      /\ app'[a].pc = to
  BY DEF Typed, FilterTable
<1>2. Typed'
  BY DEF Typed, FilterTable, Phases
<1>3. Apart' /\ Private'
  BY <1>1 DEF Apart, Private, Opening
<1>4. ASSUME NEW b \in Threads PROVE InStep(b)'
  BY <1>1 DEF Working, InStep, Opening
<1>5. Owned' /\ UsedLeads'
  BY DEF Owned, UsedLeads
<1> QED
  BY <1>2, <1>3, <1>4, <1>5 DEF Working

\* The slot of an open that fails stays reserved and is nobody's
LEMMA OpenFailsKeeps == ASSUME IInv, NEW a \in Threads, FilterOpenFails(a) PROVE IInv'
<1> USE DEF IInv
<1> PICK f \in Filters : f = app[a].f
  BY SlotTaken DEF FilterOpenFails, At, Opening
<1>1. /\ f = app[a].f /\ app[a].pc = "driver" /\ app' = [app EXCEPT ![a] = Resting]
      /\ flt' = [flt EXCEPT ![f] = Free] /\ UNCHANGED <<tok, arr, chan>>
  BY DEF FilterOpenFails, At, Return
<1>2. flt[f].st = "opening"
  BY <1>1 DEF Working, InStep, Opening
<1>3. Typed'
  BY <1>1, TokensAreNats DEF Typed, FilterTable, Phases, Free, Resting
<1>4. Apart' /\ Private'
  BY <1>1 DEF Typed, FilterTable, Apart, Private, Opening, Resting
<1>5. ASSUME NEW b \in Threads PROVE InStep(b)'
  <2>1. CASE b = a
    BY <1>1, <2>1 DEF Typed, FilterTable, InStep, Opening, Resting
  <2>2. CASE b # a
    <3>1. app'[b] = app[b]
      BY <1>1, <2>2 DEF Typed, FilterTable
    <3>2. app[b].pc \notin {"idle", "chan"} => app[b].f # f /\ app[b].f \in Filters
      BY <1>1, <2>2, OwnFilter DEF Working, InStep
    <3> QED
      BY <1>1, <3>1, <3>2, OthersStay DEF Typed, FilterTable
  <2> QED
    BY <2>1, <2>2
<1>6. Owned' /\ UsedLeads'
  BY <1>1, <1>2 DEF Typed, FilterTable, Owned, UsedLeads, Free
<1> QED
  BY <1>3, <1>4, <1>5, <1>6 DEF Working

(* The end of an open or of a registration: the slot becomes the filter's.  *)
LEMMA TakesSlot ==
    ASSUME IInv, NEW a \in Threads, NEW f \in Filters, NEW t \in Tokens,
           f = app[a].f, t = app[a].t, app[a].pc \in {"link", "register"},
           arr' = [arr EXCEPT ![t] = f],
           tok' = [tok EXCEPT ![t] = "used"],
           flt' \in FilterTable,
           flt'[f].st = "open", flt'[f].tid = t, flt'[f].chan = flt[f].chan,
           \A g \in Filters \ {f} : flt'[g] = flt[g],
           app' = [app EXCEPT ![a] = Resting],
           UNCHANGED chan
    PROVE  IInv'
<1> USE DEF IInv
<1>1. \/ tok[t] = "pre"
      \/ tok[t] = "used" /\ arr[t] = f /\ flt[f].tid = t /\ app[a].pc = "register"
  BY DEF Working, InStep, Owned, Opening
<1>3. Typed'
  BY TokensAreNats DEF Typed, FilterTable, Phases, Resting
<1>4. Apart' /\ Private'
  BY DEF Typed, FilterTable, Apart, Private, Opening, Resting
<1>5. ASSUME NEW b \in Threads PROVE InStep(b)'
  <2>1. CASE b = a
    BY <2>1 DEF Typed, FilterTable, InStep, Opening, Resting
  <2>2. CASE b # a
    <3>1. app'[b] = app[b]
      BY <2>2 DEF Typed, FilterTable
    <3>2. app[b].pc \notin {"idle", "chan"} => app[b].f # f /\ app[b].f \in Filters
      BY <2>2, OwnFilter DEF Working, InStep
    <3>3. app[b].pc \in Opening \cup {"register"} /\ tok[app[b].t] = "pre" =>
              app[b].t \in Tokens /\ app[b].t # t
      BY <2>2, SlotTaken DEF Private, Opening
    <3>4. app[b].pc \in {"token", "free"} => flt[app[b].f].tid \in Tokens
      BY <3>2 DEF Typed, FilterTable
    <3>5. app[b].pc = "token" => flt[app[b].f].tid # t
      BY <1>1, <3>2 DEF Working, InStep
    <3>6. app[b].pc \in {"token", "free"} =>
            LET u == flt[app[b].f].tid
            IN  \/ tok'[u] = tok[u] /\ arr'[u] = arr[u]
                \/ app[b].pc = "free" /\ (tok'[u] # "used" \/ arr'[u] # app[b].f)
      BY <3>2, <3>4, <3>5 DEF Typed, FilterTable
    <3>7. app[b].pc \in Opening \cup {"register"} /\ tok[app[b].t] = "pre" =>
              tok'[app[b].t] = "pre" /\ arr'[app[b].t] = arr[app[b].t]
      BY <3>3 DEF Typed, FilterTable
    <3> QED
      BY <3>1, <3>2, <3>6, <3>7, OthersStay
  <2> QED
    BY <2>1, <2>2
<1>6. Owned'
  BY <1>1 DEF Typed, FilterTable, Owned
<1>7. UsedLeads'
  <2> SUFFICES ASSUME NEW u \in Tokens \ {0}, tok'[u] = "used"
               PROVE  /\ arr'[u] \in Filters /\ flt'[arr'[u]].tid = u
                      /\ flt'[arr'[u]].st \in {"open", "closing"}
    BY DEF UsedLeads
  <2>1. CASE u = t
    BY <2>1 DEF Typed, FilterTable
  <2>2. CASE u # t
    <3>1. arr'[u] = arr[u] /\ tok[u] = "used"
      BY <2>2 DEF Typed, FilterTable
    <3>2. arr[u] \in Filters /\ flt[arr[u]].tid = u /\ flt[arr[u]].st \in {"open", "closing"}
      BY <3>1 DEF UsedLeads
    <3>3. arr[u] # f
      BY <1>1, <2>2, <3>1, <3>2 DEF Working, InStep, Opening
    <3> QED
      BY <3>1, <3>2, <3>3
  <2> QED
    BY <2>1, <2>2
<1> QED
  BY <1>3, <1>4, <1>5, <1>6, <1>7 DEF Working

LEMMA LinkKeeps ==
    ASSUME IInv, NEW a \in Threads, FilterLink(a) \/ RegisterSlot(a) PROVE IInv'
<1> USE DEF IInv
<1> PICK f \in Filters, t \in Tokens :
        f = app[a].f /\ t = app[a].t /\ app[a].pc \in {"link", "register"}
  BY SlotTaken DEF FilterLink, RegisterSlot, At, Opening
<1>1. CASE FilterLink(a)
  <2>1. /\ app[a].pc = "link" /\ UNCHANGED <<arr, chan>>
        /\ flt' = [flt EXCEPT ![f].st = "open", ![f].tid = t]
        /\ tok' = [tok EXCEPT ![t] = "used"]
        /\ app' = [app EXCEPT ![a] = Resting]
    BY <1>1 DEF FilterLink, At, Return
  <2>2. arr[t] = f
    BY <2>1 DEF Working, InStep
  <2>3. arr' = [arr EXCEPT ![t] = f]
    BY <2>1, <2>2 DEF Typed, FilterTable
  <2>4. /\ flt' \in FilterTable
        /\ flt'[f].st = "open" /\ flt'[f].tid = t /\ flt'[f].chan = flt[f].chan
        /\ \A g \in Filters \ {f} : flt'[g] = flt[g]
    <3>1. \A g \in Filters \ {f} : flt'[g] = flt[g]
      BY <2>1 DEF Typed, FilterTable
    <3>2. flt'[f] = [flt[f] EXCEPT !.st = "open", !.tid = t]
      BY <2>1 DEF Typed, FilterTable
    <3>3. /\ flt'[f].st = "open" /\ flt'[f].tid = t /\ flt'[f].chan = flt[f].chan
          /\ flt'[f].buf = flt[f].buf
      BY <3>2 DEF Typed, FilterTable
    <3>4. flt' \in FilterTable
      BY <2>1 DEF Typed, FilterTable
    <3> QED
      BY <3>1, <3>3, <3>4
  <2> QED
    BY <2>1, <2>3, <2>4, TakesSlot
<1>2. CASE RegisterSlot(a)
  <2>1. /\ app[a].pc = "register" /\ UNCHANGED chan
        /\ arr' = [arr EXCEPT ![t] = f]
        /\ flt' = [flt EXCEPT ![f].tid = t]
        /\ tok' = [tok EXCEPT ![t] = "used"]
        /\ app' = [app EXCEPT ![a] = Resting]
    BY <1>2 DEF RegisterSlot, At, Return
  <2>2. flt[f].st = "open"
    BY <2>1 DEF Working, InStep
  <2>3. /\ flt' \in FilterTable
        /\ flt'[f].st = "open" /\ flt'[f].tid = t /\ flt'[f].chan = flt[f].chan
        /\ \A g \in Filters \ {f} : flt'[g] = flt[g]
    BY <2>1, <2>2 DEF Typed, FilterTable
  <2> QED
    BY <2>1, <2>3, TakesSlot
<1> QED
  BY <1>1, <1>2

\* A call of its own begins on a filter that is open
LEMMA BeginKeeps ==
    ASSUME IInv, NEW a \in Threads, NEW f \in Filters, NEW t \in Tokens,
           Register(a, f, t) \/ FilterClose(a, f)
    PROVE  IInv'
<1> USE DEF IInv
<1> USE TokensAreNats
<1> PICK c \in Channels, pc \in {"register", "close"}, u \in Tokens :
        /\ c = flt[f].chan /\ flt[f].st = "open" /\ app[a].pc = "idle"
        /\ \A b \in Threads : app[b].c # c
        /\ app' = [app EXCEPT ![a] = [pc |-> pc, c |-> c, f |-> f, t |-> u, all |-> FALSE]]
        /\ UNCHANGED <<arr, chan, flt>>
        /\ \/ u = flt[f].tid /\ UNCHANGED tok
           \/ pc = "close" /\ UNCHANGED tok
           \/ tok[u] = "idle" /\ flt[f].tid = 0 /\ tok' = [tok EXCEPT ![u] = "pre"]
  <2>1. CASE Register(a, f, t)
    <3>1. /\ flt[f].chan \in Channels /\ flt[f].st = "open" /\ app[a].pc = "idle"
          /\ \A b \in Threads : app[b].c # flt[f].chan
          /\ app' = [app EXCEPT ![a] =
                 [pc |-> "register", c |-> flt[f].chan, f |-> f, t |-> t, all |-> FALSE]]
          /\ UNCHANGED <<arr, chan, flt>>
      BY <2>1 DEF Register, Mine, Typed, FilterTable
    <3>2. \/ t = flt[f].tid /\ UNCHANGED tok
          \/ tok[t] = "idle" /\ flt[f].tid = 0 /\ tok' = [tok EXCEPT ![t] = "pre"]
      BY <2>1 DEF Register, Require, IdleTokens, Typed, FilterTable, Tokens
    <3> flt[f].chan \in Channels
      BY <3>1
    <3> WITNESS flt[f].chan \in Channels, "register" \in {"register", "close"}, t \in Tokens
    <3> QED
      BY <3>1, <3>2
  <2>2. CASE FilterClose(a, f)
    <3>1. /\ flt[f].chan \in Channels /\ flt[f].st = "open" /\ app[a].pc = "idle"
          /\ \A b \in Threads : app[b].c # flt[f].chan
          /\ app' = [app EXCEPT ![a] =
                 [pc |-> "close", c |-> flt[f].chan, f |-> f, t |-> 0, all |-> FALSE]]
          /\ UNCHANGED <<arr, chan, flt, tok>>
      BY <2>2 DEF FilterClose, Mine, Typed, FilterTable
    <3> flt[f].chan \in Channels
      BY <3>1
    <3> WITNESS flt[f].chan \in Channels, "close" \in {"register", "close"}, 0 \in Tokens
    <3> QED
      BY <3>1
  <2> QED
    BY <2>1, <2>2
<1>1. Typed'
  BY TokensAreNats DEF Typed, FilterTable, Phases
<1>2. /\ app'[a] = [pc |-> pc, c |-> c, f |-> f, t |-> u, all |-> FALSE]
      /\ \A b \in Threads \ {a} : app'[b] = app[b]
  BY DEF Typed, FilterTable
<1>3. Apart'
  BY <1>2, NoneApart DEF Apart
<1>4. \A x \in Tokens : tok'[x] = tok[x] \/ (x = u /\ tok[u] = "idle" /\ tok'[u] = "pre")
  BY DEF Typed, FilterTable
<1>5. Private'
  <2>1. tok'[u] = "pre" => tok[u] = "idle" \/ pc = "close"
    BY DEF Owned, Typed
  <2>2. \A b \in Threads : app[b].pc \in Opening \cup {"register"} =>
            app[b].t \in Tokens /\ tok[app[b].t] # "idle"
    BY SlotTaken
  <2>3. ASSUME NEW b \in Threads, NEW d \in Threads, b # d,
               app'[b].pc \in Opening \cup {"register"},
               app'[d].pc \in Opening \cup {"register"},
               tok'[app'[b].t] = "pre"
        PROVE  app'[b].t # app'[d].t
    <3>1. CASE b = a
      BY <1>2, <2>1, <2>2, <2>3, <3>1 DEF Opening
    <3>2. CASE d = a
      BY <1>2, <2>1, <2>2, <2>3, <3>2 DEF Opening
    <3>3. CASE b # a /\ d # a
      <4>1. app'[b] = app[b] /\ app'[d] = app[d]
        BY <1>2, <3>3
      <4>2. tok[app[b].t] = "pre"
        BY <1>4, <2>2, <2>3, <4>1
      <4> QED
        BY <2>3, <4>1, <4>2 DEF Private
    <3> QED
      BY <3>1, <3>2, <3>3
  <2> QED
    BY <2>3 DEF Private
<1>6. ASSUME NEW b \in Threads PROVE InStep(b)'
  <2>1. CASE b = a
    BY <1>2, <2>1 DEF Typed, FilterTable, InStep, Opening
  <2>2. CASE b # a
    <3>1. app[b].pc \in {"token", "free"} => flt[app[b].f].tid \in Tokens
      BY DEF Typed, FilterTable, Working, InStep
    <3>2. app[b].pc = "token" => tok[flt[app[b].f].tid] = "used"
      BY DEF Working, InStep
    <3>3. app[b].pc \in Opening \cup {"register"} => app[b].t \in Tokens
      BY SlotTaken
    <3>4. app[b].pc \in {"token", "free"} =>
            LET x == flt[app[b].f].tid
            IN  \/ tok'[x] = tok[x] /\ arr'[x] = arr[x]
                \/ app[b].pc = "free" /\ (tok'[x] # "used" \/ arr'[x] # app[b].f)
      BY <1>4, <3>1, <3>2
    <3>5. app[b].pc \in Opening \cup {"register"} /\ tok[app[b].t] = "pre" =>
              tok'[app[b].t] = "pre" /\ arr'[app[b].t] = arr[app[b].t]
      BY <1>4, <3>3
    <3> QED
      BY <1>2, <2>2, <3>4, <3>5, OthersStay
  <2> QED
    BY <2>1, <2>2
<1>7. Owned' /\ UsedLeads'
  BY <1>4 DEF Typed, FilterTable, Owned, UsedLeads
<1> QED
  BY <1>1, <1>3, <1>5, <1>6, <1>7 DEF Working

\* CloseUnlink, CloseToken: the filter goes to closing, then its slot is idle
LEMMA UnlinkKeeps == ASSUME IInv, NEW a \in Threads, CloseUnlink(a) PROVE IInv'
<1> USE DEF IInv
<1> PICK f \in Filters : f = app[a].f
  BY DEF CloseUnlink, At, Working, InStep
<1>1. /\ app[a].pc = "unlink" /\ app' = [app EXCEPT ![a].pc = "token"]
      /\ UNCHANGED <<tok, arr, chan>>
      /\ flt[f].st = "open" /\ tok[flt[f].tid] = "used" /\ arr[flt[f].tid] = f
  BY DEF CloseUnlink, At, Go, Working, InStep, Owned
<1>2. flt' = [flt EXCEPT ![f].buf = FALSE, ![f].st = "closing"]
  BY DEF CloseUnlink
<1>3. /\ \A b \in Threads : /\ app'[b].c = app[b].c /\ app'[b].f = app[b].f
                           /\ app'[b].t = app[b].t
      /\ \A b \in Threads \ {a} : app'[b] = app[b]
      /\ app'[a].pc = "token"
  BY <1>1 DEF Typed
<1>4. /\ \A g \in Filters \ {f} : flt'[g] = flt[g]
      /\ flt'[f].st = "closing" /\ flt'[f].tid = flt[f].tid /\ flt'[f].chan = flt[f].chan
  BY <1>2 DEF Typed, FilterTable
<1>5. Typed'
  <2>1. flt' \in FilterTable
    <3> DEFINE g == [flt EXCEPT ![f].buf = FALSE]
    <3>1. g \in FilterTable
      BY DEF Typed, FilterTable
    <3>2. flt' = [g EXCEPT ![f].st = "closing"]
      BY <1>2
    <3> HIDE DEF g
    <3> QED
      BY <3>1, <3>2 DEF FilterTable
  <2> QED
    BY <1>1, <2>1 DEF Typed, Phases
<1>6. Apart' /\ Private'
  BY <1>1, <1>3 DEF Apart, Private, Opening
<1>7. ASSUME NEW b \in Threads PROVE InStep(b)'
  <2>1. CASE b = a
    BY <1>1, <1>3, <1>4, <2>1 DEF Working, InStep, Opening
  <2>2. CASE b # a
    <3>1. app[b].pc \notin {"idle", "chan"} => app[b].f # f /\ app[b].f \in Filters
      BY <1>1, <2>2, OwnFilter DEF Working, InStep
    <3> QED
      BY <1>1, <1>3, <1>4, <2>2, <3>1, OthersStay
  <2> QED
    BY <2>1, <2>2
<1>8. Owned'
  BY <1>1, <1>4 DEF Owned
<1>9. UsedLeads'
  BY <1>1, <1>4 DEF UsedLeads
<1> QED
  BY <1>5, <1>6, <1>7, <1>8, <1>9 DEF Working

LEMMA TokenKeeps == ASSUME IInv, NEW a \in Threads, CloseToken(a) PROVE IInv'
<1> USE DEF IInv
<1> PICK f \in Filters : f = app[a].f
  BY DEF CloseToken, At, Working, InStep
<1> PICK t \in Tokens : t = flt[f].tid
  BY DEF Typed, FilterTable
<1>1. /\ app[a].pc = "token" /\ app' = [app EXCEPT ![a].pc = "free"]
      /\ tok' = [tok EXCEPT ![t] = "idle"] /\ UNCHANGED <<arr, chan, flt>>
      /\ flt[f].st = "closing" /\ tok[t] = "used" /\ arr[t] = f
  BY DEF CloseToken, At, Go, Working, InStep
<1>2. /\ \A b \in Threads : /\ app'[b].c = app[b].c /\ app'[b].f = app[b].f
                           /\ app'[b].t = app[b].t
      /\ \A b \in Threads \ {a} : app'[b] = app[b]
      /\ app'[a].pc = "free"
  BY <1>1 DEF Typed
<1>3. /\ \A u \in Tokens \ {t} : tok'[u] = tok[u]
      /\ tok'[t] = "idle"
  BY <1>1 DEF Typed
<1>4. Typed'
  BY <1>1 DEF Typed, Phases
<1>5. Apart'
  BY <1>2 DEF Apart
<1>6. Private'
  BY <1>2, <1>3 DEF Private, Typed, Opening
<1>7. ASSUME NEW b \in Threads PROVE InStep(b)'
  <2>1. CASE b = a
    BY <1>1, <1>2, <1>3, <2>1 DEF Working, InStep, Opening
  <2>2. CASE b # a
    <3>1. app[b].pc \notin {"idle", "chan"} => app[b].f # f /\ app[b].f \in Filters
      BY <1>1, <2>2, OwnFilter DEF Working, InStep
    <3>2. app[b].pc \in Opening \cup {"register"} /\ tok[app[b].t] = "pre" =>
              app[b].t \in Tokens \ {t}
      BY <1>1, SlotTaken
    <3>3. app[b].pc \in {"token", "free"} => flt[app[b].f].tid \in Tokens
      BY <3>1 DEF Typed, FilterTable
    <3>4. app[b].pc = "token" => flt[app[b].f].tid # t
      BY <1>1, <3>1 DEF Working, InStep
    <3>5. app[b].pc \in {"token", "free"} =>
            LET u == flt[app[b].f].tid
            IN  \/ tok'[u] = tok[u] /\ arr'[u] = arr[u]
                \/ app[b].pc = "free" /\ (tok'[u] # "used" \/ arr'[u] # app[b].f)
      BY <1>1, <1>3, <3>3, <3>4
    <3> QED
      BY <1>1, <1>2, <1>3, <2>2, <3>2, <3>5, OthersStay
  <2> QED
    BY <2>1, <2>2
<1>8. Owned'
  <2> SUFFICES ASSUME NEW g \in Filters, flt[g].st = "open"
               PROVE  tok'[flt[g].tid] = "used" /\ arr[flt[g].tid] = g
    BY <1>1 DEF Owned
  <2>1. tok[flt[g].tid] = "used" /\ arr[flt[g].tid] = g /\ flt[g].tid \in Tokens /\ g # f
    BY <1>1 DEF Owned, Typed, FilterTable
  <2> QED
    BY <1>1, <1>3, <2>1
<1>9. UsedLeads'
  BY <1>1, <1>3 DEF UsedLeads
<1> QED
  BY <1>4, <1>5, <1>6, <1>7, <1>8, <1>9 DEF Working

LEMMA FreeKeeps == ASSUME IInv, NEW a \in Threads, CloseFree(a) PROVE IInv'
<1> USE DEF IInv
<1> PICK f \in Filters : f = app[a].f
  BY DEF CloseFree, At, Working, InStep
<1>1. /\ app[a].pc = "free" /\ flt[f].st = "closing" /\ f = app[a].f
      /\ flt' = [flt EXCEPT ![f] = Free] /\ UNCHANGED <<tok, arr, chan>>
      /\ ~(tok[flt[f].tid] = "used" /\ arr[flt[f].tid] = f)
  BY DEF CloseFree, At, Working, InStep
<1>2. /\ app' \in [Threads -> [pc : Phases, c : Channels \cup {None},
                              f : Filters \cup {None}, t : Tokens, all : BOOLEAN]]
      /\ \A b \in Threads \ {a} : app'[b] = app[b]
      /\ \/ app'[a].pc = "chan" /\ app'[a].c = app[a].c
         \/ app'[a].pc = "idle" /\ app'[a].c = None
  <2>1. CASE app[a].all
    BY <2>1 DEF CloseFree, Typed, Phases
  <2>2. CASE ~app[a].all
    <3>1. app' = [app EXCEPT ![a] = Resting]
      BY <2>2 DEF CloseFree, Return
    <3> QED
      BY <3>1, TokensAreNats DEF Resting, Typed, Phases
  <2> QED
    BY <2>1, <2>2
<1>3. Typed'
  BY <1>1, <1>2, TokensAreNats DEF Typed, FilterTable, Free
<1>4. Apart' /\ Private'
  BY <1>1, <1>2 DEF Apart, Private, Opening
<1>5. ASSUME NEW b \in Threads PROVE InStep(b)'
  <2>1. CASE b = a
    BY <1>1, <1>2, <2>1 DEF Working, InStep, Opening
  <2>2. CASE b # a
    <3>1. app[b].pc \notin {"idle", "chan"} => app[b].f # f /\ app[b].f \in Filters
      BY <1>1, <2>2, OwnFilter DEF Working, InStep
    <3>2. app'[b] = app[b]
      BY <1>2, <2>2
    <3> QED
      BY <1>1, <3>1, <3>2, OthersStay DEF Typed, FilterTable
  <2> QED
    BY <2>1, <2>2
<1>6. Owned'
  BY <1>1 DEF Typed, FilterTable, Owned, Free
<1>7. UsedLeads'
  BY <1>1 DEF Typed, FilterTable, UsedLeads
<1> QED
  BY <1>3, <1>4, <1>5, <1>6, <1>7 DEF Working

\* The steps of a channel's close, and of callbacks, leave the slots alone
LEMMA ChannelCloseKeeps ==
    ASSUME IInv, NEW a \in Threads, NEW c \in Channels, ChannelClose(a, c)
    PROVE  IInv'
<1> USE DEF IInv
<1>1. /\ app[a].pc = "idle" /\ \A b \in Threads : app[b].c # c
      /\ app' = [app EXCEPT ![a] = [pc |-> "chan", c |-> c, f |-> None, t |-> 0, all |-> TRUE]]
      /\ UNCHANGED <<tok, arr, chan, flt>>
  BY DEF ChannelClose, Mine
<1>2. Typed'
  BY <1>1, TokensAreNats DEF Typed, Phases
<1>3. /\ app'[a] = [pc |-> "chan", c |-> c, f |-> None, t |-> 0, all |-> TRUE]
      /\ \A b \in Threads \ {a} : app'[b] = app[b]
  BY <1>1 DEF Typed
<1>4. Apart' /\ Private'
  BY <1>1, <1>3 DEF Apart, Private, Opening
<1>5. ASSUME NEW b \in Threads PROVE InStep(b)'
  BY <1>1, <1>3 DEF Working, InStep, Opening
<1>6. Owned' /\ UsedLeads'
  BY <1>1 DEF Owned, UsedLeads
<1> QED
  BY <1>2, <1>4, <1>5, <1>6 DEF Working

LEMMA ChannelCloseNextKeeps == ASSUME IInv, NEW a \in Threads, ChannelCloseNext(a) PROVE IInv'
<1> USE DEF IInv
<1>0. PICK f \in OnChannel(app[a].c) : app' = [app EXCEPT ![a].pc = "close", ![a].f = f]
  BY DEF ChannelCloseNext
<1>1. /\ app[a].pc = "chan" /\ UNCHANGED <<tok, arr, chan, flt>>
      /\ f \in Filters /\ flt[f].st = "open" /\ flt[f].chan = app[a].c
  BY DEF ChannelCloseNext, At, OnChannel
<1>2. Typed'
  BY <1>0, <1>1 DEF Typed, Phases
<1>3. /\ app'[a].pc = "close" /\ app'[a].f = f /\ app'[a].c = app[a].c
      /\ \A b \in Threads \ {a} : app'[b] = app[b]
  BY <1>0, <1>1 DEF Typed
<1>4. Apart' /\ Private'
  BY <1>1, <1>3 DEF Apart, Private, Opening
<1>5. ASSUME NEW b \in Threads PROVE InStep(b)'
  BY <1>1, <1>3 DEF Working, InStep, Opening
<1>6. Owned' /\ UsedLeads'
  BY <1>1 DEF Owned, UsedLeads
<1> QED
  BY <1>2, <1>4, <1>5, <1>6 DEF Working

LEMMA ChannelCloseEndKeeps == ASSUME IInv, NEW a \in Threads, ChannelCloseEnd(a) PROVE IInv'
<1> USE DEF IInv
<1>1. /\ app[a].pc = "chan" /\ UNCHANGED <<tok, arr, flt>> /\ chan' \subseteq chan
      /\ app' = [app EXCEPT ![a] = Resting]
  BY DEF ChannelCloseEnd, At, Return
<1>2. Typed'
  BY <1>1, TokensAreNats DEF Typed, Phases, Resting
<1>3. /\ app'[a].pc = "idle" /\ app'[a].c = None
      /\ \A b \in Threads \ {a} : app'[b] = app[b]
  BY <1>1 DEF Typed, Resting
<1>4. Apart' /\ Private'
  BY <1>1, <1>3 DEF Apart, Private, Opening
<1>5. ASSUME NEW b \in Threads PROVE InStep(b)'
  BY <1>1, <1>3 DEF Working, InStep, Opening
<1>6. Owned' /\ UsedLeads'
  BY <1>1 DEF Owned, UsedLeads
<1> QED
  BY <1>2, <1>4, <1>5, <1>6 DEF Working

LEMMA CallKeeps == ASSUME IInv, NEW a \in Threads, Call(a) PROVE IInv'
<1>1. CASE \E c \in Channels, f \in Filters, t \in IdleTokens : FilterOpen(a, c, f, t)
  BY <1>1, FilterOpenKeeps DEF IdleTokens
<1>2. ASSUME NEW f \in Filters, NEW t \in Tokens, Register(a, f, t) PROVE IInv'
  BY <1>2, BeginKeeps
<1>3. ASSUME NEW f \in Filters, FilterClose(a, f) PROVE IInv'
  BY <1>3, BeginKeeps, TokensAreNats
<1> QED
  BY <1>1, <1>2, <1>3, ChannelCloseKeeps DEF Call

LEMMA ThreadStepKeeps == ASSUME IInv, NEW a \in Threads, ThreadStep(a) PROVE IInv'
<1>1. CASE FilterDriver(a) \/ CloseDriver(a)
  BY <1>1, GoKeeps DEF FilterDriver, CloseDriver, At, Go
<1> QED
  BY <1>1, SlotKeeps, OpenFailsKeeps, LinkKeeps, UnlinkKeeps, TokenKeeps, FreeKeeps,
     ChannelCloseNextKeeps, ChannelCloseEndKeeps
     DEF ThreadStep, OpenStep, CloseStep, ChannelCloseStep

LEMMA NextKeeps == IInv /\ [Next]_vars => IInv'
<1> SUFFICES ASSUME IInv, [Next]_vars PROVE IInv'
  OBVIOUS
<1>1. ASSUME UNCHANGED <<tok, arr, app, flt>>, chan' \subseteq Channels PROVE IInv'
  <2>1. Typed' /\ Apart' /\ Private'
    BY <1>1 DEF IInv, Typed, FilterTable, Apart, Private
  <2>2. Working' /\ Owned' /\ UsedLeads'
    BY <1>1 DEF IInv, Working, InStep, Owned, UsedLeads
  <2> QED
    BY <2>1, <2>2 DEF IInv
<1>2. chan \subseteq Channels
  BY DEF IInv, Typed
<1>3. CASE UNCHANGED vars
  BY <1>1, <1>2, <1>3 DEF vars
<1>4. ASSUME NEW c \in Channels, ChannelOpen(c) \/ ChannelStart(c) \/ ChannelStop(c)
      PROVE  IInv'
  BY <1>1, <1>2, <1>4 DEF ChannelOpen, ChannelStart, ChannelStop
<1>5. ASSUME NEW f \in Filters, FilterStart(f) \/ FilterStop(f) PROVE IInv'
  BY <1>1, <1>2, <1>5 DEF FilterStart, FilterStop
<1>6. ASSUME NEW e \in Ends, CbBegin(e) PROVE IInv'
  BY <1>1, <1>2, <1>6 DEF CbBegin
<1>7. CASE CbCheck \/ CbFetch \/ CbRequestFails \/ CbUpdate
  BY <1>1, <1>2, <1>7 DEF CbCheck, CbFetch, CbRequestFails, CbUpdate
<1>8. CASE CbRequest
  <2>1. UNCHANGED view /\ flt' = [flt EXCEPT ![cb.f].buf = TRUE]
    BY <1>8 DEF CbRequest, view
  <2>2. flt' \in FilterTable
    BY <2>1 DEF IInv, Typed, FilterTable
  <2>3. \A f \in Filters : /\ flt'[f].st = flt[f].st /\ flt'[f].chan = flt[f].chan
                           /\ flt'[f].tid = flt[f].tid
    BY <2>1 DEF IInv, Typed, FilterTable
  <2> QED
    BY <2>1, <2>2, <2>3, ViewKeeps
<1> QED
  BY <1>3, <1>4, <1>5, <1>6, <1>7, <1>8, CallKeeps, ThreadStepKeeps DEF Next, CbStep

LEMMA SpecInv == Spec => []IInv
BY InitInv, NextKeeps, PTL DEF Spec

(* An open filter has a slot of its own that leads to it, and no used slot  *)
(* but slot 0 leads to a filter that has been freed.                        *)
THEOREM FiltersOwnTokens == Spec => []FilterOwnsToken
<1>1. IInv => FilterOwnsToken
  <2> SUFFICES ASSUME IInv PROVE FilterOwnsToken
    OBVIOUS
  <2>1. ASSUME NEW f \in Filters, NEW g \in Filters \ {f}, flt[f].st = "open", flt[g].st = "open"
        PROVE  flt[g].tid # flt[f].tid
    BY <2>1 DEF IInv, Owned
  <2>2. \A t \in Tokens \ {0} : tok[t] = "used" => flt[arr[t]].st # "free"
    BY DEF IInv, UsedLeads
  <2> QED
    BY <2>1, <2>2 DEF FilterOwnsToken, IInv, Owned
<1> QED
  BY <1>1, SpecInv, PTL

-----------------------------------------------------------------------------
(* The driver and its callbacks                                             *)

DriverTyped ==
    /\ reg \in [Ends -> Tokens \cup {None}]
    /\ on \in [Ends -> BOOLEAN]
    /\ cb \in [pc : {"idle", "check", "fetch", "use"}, e : Ends \cup {None},
               t : Tokens, f : Filters \cup {None}, upd : BOOLEAN]

\* An open of filter f is about to end, with slot t
Linking(f, t) == \E a \in Threads : app[a].pc = "link" /\ app[a].f = f /\ app[a].t = t

\* What the driver calls with slot t is about filter f
Leads(t, f) ==
    /\ arr[t] = f
    /\ (flt[f].st = "open" /\ tok[t] = "used") \/ Linking(f, t)

\* Some thread is closing filter f, or its channel with all filters
ClosingPcs == {"close", "unlink", "token", "free"}
Untouched(f) == \A a \in Threads : app[a].pc \in ClosingPcs => app[a].f # f
Kept(f) == \A a \in Threads : app[a].all => app[a].c # flt[f].chan

Paths ==
    \A a \in Threads :
        /\ app[a].pc = "chan" => app[a].all
        /\ app[a].pc = "driver" => app[a].c \in Sections
        /\ app[a].pc = "unlink" => reg[app[a].f] = None

RegisteredFilter(f) ==
    reg[f] # None =>
        /\ flt[f].chan \in Sections
        /\ (flt[f].st = "open" /\ reg[f] = flt[f].tid) \/ Linking(f, reg[f])
RegisteredFilters == \A f \in Filters : RegisteredFilter(f)

StartedFilter(f) ==
    on[f] => flt[f].st = "open" /\ flt[f].chan \in Sections /\ Untouched(f) /\ Kept(f)
StartedFilters == \A f \in Filters : StartedFilter(f)

RegisteredChannels == \A c \in Sections : reg[c] = None

Steady(c) == \A a \in Threads : app[a].c = c => app[a].pc \in {"slot", "link", "register"}
StartedChannel(c) ==
    on[c] =>
        /\ Steady(c)
        /\ reg[c] # None => \E f \in Filters : flt[f].chan = c /\ Leads(reg[c], f)
StartedChannels == \A c \in Channels \ Sections : StartedChannel(c)

\* The callback in flight is for a started end, and about a filter of it
Serves(f) ==
    /\ cb.e \in {f, flt[f].chan} /\ Leads(cb.t, f)
    /\ cb.upd => flt[f].buf
    /\ cb.pc = "use" => cb.f = f
Serving ==
    cb.pc # "idle" =>
        /\ cb.e \in Ends /\ cb.e \notin Sections /\ on[cb.e]
        /\ \E f \in Filters : Serves(f)

DInv ==
    /\ IInv /\ DriverTyped /\ Paths
    /\ RegisteredFilters /\ StartedFilters /\ RegisteredChannels /\ StartedChannels
    /\ Serving

-----------------------------------------------------------------------------
\* A call's step moves its own thread only
LEMMA Actor ==
    ASSUME Typed, NEW a \in Threads, Call(a) \/ ThreadStep(a)
    PROVE  \A b \in Threads : b # a => app'[b] = app[b]
<1>1. CASE Call(a)
  BY <1>1 DEF Call, ChannelClose, FilterOpen, Register, FilterClose, Typed
<1>2. CASE ThreadStep(a)
  BY <1>2 DEF ThreadStep, OpenStep, CloseStep, ChannelCloseStep, FilterSlot, FilterDriver,
      FilterOpenFails, FilterLink, RegisterSlot, CloseDriver, CloseUnlink, CloseToken, CloseFree,
      ChannelCloseNext, ChannelCloseEnd, Go, Return, Typed
<1> QED
  BY <1>1, <1>2

LEMMA LeadsFacts ==
    ASSUME IInv, NEW f \in Filters, NEW t \in Tokens, Leads(t, f)
    PROVE  tok[t] \in {"used", "pre"} /\ flt[f].st \in {"open", "opening"}
BY DEF IInv, Leads, Linking, Working, InStep, Opening

\* A step that touches neither f nor t, nor a thread about to end an open
LEMMA LeadsKept ==
    ASSUME NEW f, NEW t, Leads(t, f), arr'[t] = arr[t],
           flt'[f] = flt[f], tok[t] = "used" => tok'[t] = "used",
           \A b \in Threads : app[b].pc = "link" => app'[b] = app[b]
    PROVE  Leads(t, f)' /\ flt'[f].chan = flt[f].chan /\ (flt[f].buf => flt'[f].buf)
BY DEF Leads, Linking

LEMMA LeadsStays ==
    ASSUME IInv, [Next]_vars, NEW f \in Filters, NEW t \in Tokens, Leads(t, f), Untouched(f)
    PROVE  Leads(t, f)' /\ flt'[f].chan = flt[f].chan /\ (flt[f].buf => flt'[f].buf)
<1> DEFINE Goal == Leads(t, f)' /\ flt'[f].chan = flt[f].chan /\ (flt[f].buf => flt'[f].buf)
<1> USE DEF IInv
<1>0. tok[t] \in {"used", "pre"} /\ flt[f].st \in {"open", "opening"}
  BY LeadsFacts
<1> HIDE DEF Goal
<1>1. CASE UNCHANGED <<tok, arr, flt, app>>
  BY <1>1, LeadsKept DEF Goal
<1>2. CASE CbRequest
  <2>1. UNCHANGED view /\ flt' = [flt EXCEPT ![cb.f].buf = TRUE]
    BY <1>2 DEF CbRequest, view
  <2>2. flt'[f].st = flt[f].st /\ flt'[f].chan = flt[f].chan /\ (flt[f].buf => flt'[f].buf)
    BY <2>1 DEF Typed, FilterTable
  <2> QED
    BY <2>1, <2>2 DEF Goal, Leads, Linking, view
<1>3. ASSUME NEW a \in Threads, Call(a) PROVE Goal
  <2>1. app[a].pc = "idle"
    BY <1>3 DEF Call, ChannelClose, FilterOpen, Register, FilterClose, Mine
  <2>2. \A b \in Threads : app[b].pc = "link" => app'[b] = app[b]
    BY <1>3, <2>1, Actor
  <2>3. arr' = arr /\ tok'[t] = tok[t]
    BY <1>3, <1>0 DEF Call, ChannelClose, FilterOpen, Register, FilterClose, Require, IdleTokens, Typed
  <2>4. flt'[f] = flt[f]
    BY <1>3, <1>0 DEF Call, ChannelClose, FilterOpen, Register, FilterClose, Typed, FilterTable
  <2> QED
    BY <2>2, <2>3, <2>4, LeadsKept DEF Goal
<1>4. ASSUME NEW a \in Threads, FilterSlot(a) PROVE Goal
  <2>1. /\ app[a].pc = "slot" /\ app[a].t \in Tokens /\ tok[app[a].t] = "pre"
        /\ arr' = [arr EXCEPT ![app[a].t] = app[a].f] /\ UNCHANGED <<tok, flt>>
    BY <1>4 DEF FilterSlot, At, Working, InStep, Opening, Typed
  <2>2. \A b \in Threads : app[b].pc = "link" => app'[b] = app[b]
    BY <1>4, <2>1, Actor DEF ThreadStep, OpenStep
  <2>3. t # app[a].t
    BY <2>1 DEF Leads, Linking, Private, Opening
  <2> QED
    BY <2>1, <2>2, <2>3, LeadsKept DEF Goal, Typed
<1>5. ASSUME NEW a \in Threads, FilterDriver(a) \/ CloseDriver(a) PROVE Goal
  <2>1. app[a].pc # "link" /\ UNCHANGED <<tok, arr, flt>>
    BY <1>5 DEF FilterDriver, CloseDriver, At
  <2>2. \A b \in Threads : app[b].pc = "link" => app'[b] = app[b]
    BY <1>5, <2>1, Actor DEF ThreadStep, OpenStep, CloseStep
  <2> QED
    BY <2>1, <2>2, LeadsKept DEF Goal
<1>6. ASSUME NEW a \in Threads, FilterOpenFails(a) PROVE Goal
  <2>1. /\ app[a].pc = "driver" /\ flt' = [flt EXCEPT ![app[a].f] = Free]
        /\ UNCHANGED <<tok, arr>> /\ flt[app[a].f].st = "opening"
    BY <1>6 DEF FilterOpenFails, At, Working, InStep, Opening
  <2>2. \A b \in Threads : app[b].pc = "link" => app'[b] = app[b]
    BY <1>6, <2>1, Actor DEF ThreadStep, OpenStep
  <2>3. f # app[a].f
    BY <2>1, OwnFilter DEF Leads, Linking
  <2> QED
    BY <2>1, <2>2, <2>3, LeadsKept DEF Goal, Typed, FilterTable
<1>7. ASSUME NEW a \in Threads, FilterLink(a) PROVE Goal
  <2>0. PICK g \in Filters, u \in Tokens : g = app[a].f /\ u = app[a].t /\ app[a].pc = "link"
    BY <1>7, SlotTaken DEF FilterLink, At, Opening
  <2>1. /\ flt[g].st = "opening" /\ arr[u] = g
        /\ flt' = [flt EXCEPT ![g].st = "open", ![g].tid = u]
        /\ tok' = [tok EXCEPT ![u] = "used"] /\ arr' = arr
    BY <1>7, <2>0 DEF FilterLink, Working, InStep, Opening
  <2>2. /\ flt'[g].st = "open" /\ flt'[g].chan = flt[g].chan /\ flt'[g].buf = flt[g].buf
        /\ f # g => flt'[f] = flt[f]
        /\ tok'[u] = "used" /\ (t # u => tok'[t] = tok[t])
    BY <2>1 DEF Typed, FilterTable
  <2>3. \A b \in Threads : b # a => app'[b] = app[b]
    BY <1>7, Actor DEF ThreadStep, OpenStep
  <2>4. CASE f = g
    <3>1. t = u
      BY <2>0, <2>1, <2>4, OwnFilter DEF Leads, Linking
    <3> QED
      BY <2>1, <2>2, <2>4, <3>1 DEF Goal, Leads
  <2>5. CASE f # g
    BY <2>0, <2>1, <2>2, <2>3, <2>5 DEF Goal, Leads, Linking
  <2> QED
    BY <2>4, <2>5
<1>8. ASSUME NEW a \in Threads, RegisterSlot(a) PROVE Goal
  <2>0. PICK g \in Filters, u \in Tokens : g = app[a].f /\ u = app[a].t /\ app[a].pc = "register"
    BY <1>8, SlotTaken DEF RegisterSlot, At
  <2>1. /\ flt' = [flt EXCEPT ![g].tid = u]
        /\ tok' = [tok EXCEPT ![u] = "used"] /\ arr' = [arr EXCEPT ![u] = g]
    BY <1>8, <2>0 DEF RegisterSlot
  <2>2. /\ flt'[f].st = flt[f].st /\ flt'[f].chan = flt[f].chan /\ flt'[f].buf = flt[f].buf
        /\ tok[t] = "used" => tok'[t] = "used"
        /\ t # u => arr'[t] = arr[t]
        /\ arr'[u] = g
    BY <2>1 DEF Typed, FilterTable
  <2>3. \A b \in Threads : app[b].pc = "link" => app'[b] = app[b]
    BY <1>8, <2>0, Actor DEF ThreadStep
  <2>4. t = u => f = g
    <3> SUFFICES ASSUME t = u PROVE f = g
      OBVIOUS
    <3>1. \/ tok[u] = "pre"
          \/ tok[u] = "used" /\ arr[u] = g
      BY <2>0 DEF Working, InStep, Owned, Opening
    <3>2. tok[u] # "pre"
      BY <2>0 DEF Leads, Linking, Private, Opening
    <3> QED
      BY <3>1, <3>2 DEF Leads
  <2>5. arr'[t] = f
    BY <2>2, <2>4 DEF Leads
  <2> QED
    BY <2>2, <2>3, <2>5 DEF Goal, Leads, Linking
<1>9. ASSUME NEW a \in Threads, CloseUnlink(a) \/ CloseFree(a) PROVE Goal
  <2>1. /\ app[a].pc \in {"unlink", "free"} /\ app[a].f \in Filters /\ UNCHANGED <<tok, arr>>
    BY <1>9 DEF CloseUnlink, CloseFree, At, Working, InStep
  <2>2. f # app[a].f
    BY <2>1 DEF Untouched, ClosingPcs
  <2>3. flt'[f] = flt[f]
    BY <1>9, <2>2 DEF CloseUnlink, CloseFree, Typed, FilterTable
  <2>4. \A b \in Threads : app[b].pc = "link" => app'[b] = app[b]
    BY <1>9, <2>1, Actor DEF ThreadStep, CloseStep
  <2> QED
    BY <2>1, <2>3, <2>4, LeadsKept DEF Goal
<1>10. ASSUME NEW a \in Threads, CloseToken(a) PROVE Goal
  <2>1. /\ app[a].pc = "token" /\ app[a].f \in Filters /\ UNCHANGED <<arr, flt>>
        /\ tok' = [tok EXCEPT ![flt[app[a].f].tid] = "idle"]
        /\ arr[flt[app[a].f].tid] = app[a].f
    BY <1>10 DEF CloseToken, At, Working, InStep
  <2>2. f # app[a].f
    BY <2>1 DEF Untouched, ClosingPcs
  <2>3. t # flt[app[a].f].tid
    BY <2>1, <2>2 DEF Leads
  <2>4. \A b \in Threads : app[b].pc = "link" => app'[b] = app[b]
    BY <1>10, <2>1, Actor DEF ThreadStep, CloseStep
  <2> QED
    BY <2>1, <2>3, <2>4, LeadsKept DEF Goal, Typed
<1>11. ASSUME NEW a \in Threads, ChannelCloseNext(a) \/ ChannelCloseEnd(a) PROVE Goal
  <2>1. app[a].pc = "chan" /\ UNCHANGED <<tok, arr, flt>>
    BY <1>11 DEF ChannelCloseNext, ChannelCloseEnd, At
  <2>2. \A b \in Threads : app[b].pc = "link" => app'[b] = app[b]
    BY <1>11, <2>1, Actor DEF ThreadStep, ChannelCloseStep
  <2> QED
    BY <2>1, <2>2, LeadsKept DEF Goal
<1>12. CASE \E c \in Channels : ChannelOpen(c) \/ ChannelStart(c) \/ ChannelStop(c)
  BY <1>12, <1>1 DEF ChannelOpen, ChannelStart, ChannelStop
<1>13. CASE \E g \in Filters : FilterStart(g) \/ FilterStop(g)
  BY <1>13, <1>1 DEF FilterStart, FilterStop
<1>14. CASE (\E e \in Ends : CbBegin(e)) \/ CbCheck \/ CbFetch \/ CbRequestFails \/ CbUpdate
  BY <1>14, <1>1 DEF CbBegin, CbCheck, CbFetch, CbRequestFails, CbUpdate
<1>15. CASE UNCHANGED vars
  BY <1>15, <1>1 DEF vars
<1>16. ASSUME NEW a \in Threads, ThreadStep(a) PROVE Goal
  BY <1>4, <1>5, <1>6, <1>7, <1>8, <1>9, <1>10, <1>11, <1>16
     DEF ThreadStep, OpenStep, CloseStep, ChannelCloseStep
<1> QED
  BY <1>2, <1>3, <1>12, <1>13, <1>14, <1>15, <1>16 DEF Next, CbStep, Goal

LEMMA DriverTypedStep == ASSUME Typed, DriverTyped, [Next]_vars PROVE DriverTyped'
<1> USE DEF DriverTyped
<1>0. \A a \in Threads : app[a].t \in Tokens
  BY DEF Typed
<1>1. CASE UNCHANGED <<reg, on, cb>>
  BY <1>1
<1>2. ASSUME NEW a \in Threads, Call(a) PROVE DriverTyped'
  BY <1>1, <1>2 DEF Call, ChannelClose, FilterOpen, Register, FilterClose
<1>3. ASSUME NEW a \in Threads, FilterSlot(a) \/ FilterDriver(a) \/ FilterOpenFails(a)
                                \/ FilterLink(a) \/ RegisterSlot(a)
      PROVE  DriverTyped'
  <2>1. on' \in [Ends -> BOOLEAN] /\ cb' = cb
    BY <1>3 DEF FilterSlot, FilterDriver, FilterOpenFails, FilterLink, RegisterSlot
  <2>2. reg' \in [Ends -> Tokens \cup {None}]
    BY <1>0, <1>3 DEF FilterSlot, FilterDriver, FilterOpenFails, FilterLink, RegisterSlot
  <2> QED
    BY <2>1, <2>2
<1>4. ASSUME NEW a \in Threads, CloseStep(a) \/ ChannelCloseStep(a) PROVE DriverTyped'
  BY <1>4 DEF CloseStep, ChannelCloseStep, CloseDriver, CloseUnlink, CloseToken, CloseFree,
              ChannelCloseNext, ChannelCloseEnd
<1>5. ASSUME NEW a \in Threads, ThreadStep(a) PROVE DriverTyped'
  BY <1>3, <1>4, <1>5 DEF ThreadStep, OpenStep
<1>6. CASE \E c \in Channels : ChannelOpen(c) \/ ChannelStart(c) \/ ChannelStop(c)
  BY <1>6 DEF ChannelOpen, ChannelStart, ChannelStop
<1>7. CASE \E g \in Filters : FilterStart(g) \/ FilterStop(g)
  BY <1>7 DEF FilterStart, FilterStop
<1>8. ASSUME NEW e \in Ends, CbBegin(e) PROVE DriverTyped'
  <2>1. /\ cb' = [pc |-> "check", e |-> e, t |-> reg[e], f |-> None, upd |-> FALSE]
        /\ reg[e] \in Tokens /\ UNCHANGED <<reg, on>>
    BY <1>8 DEF CbBegin, NoCall
  <2> QED
    BY <2>1
<1>9. CASE CbStep
  <2>1. NoCall \in [pc : {"idle", "check", "fetch", "use"}, e : Ends \cup {None},
                    t : Tokens, f : Filters \cup {None}, upd : BOOLEAN]
    BY TokensAreNats DEF NoCall
  <2>2. cb.t \in Tokens => arr[cb.t] \in Filters \cup {None}
    BY DEF Typed
  <2> QED
    BY <1>9, <2>1, <2>2 DEF CbStep, CbCheck, CbFetch, CbRequest, CbRequestFails, CbUpdate
<1>10. CASE UNCHANGED vars
  BY <1>1, <1>10 DEF vars
<1> QED
  BY <1>2, <1>5, <1>6, <1>7, <1>8, <1>9, <1>10 DEF Next

\* What a step of one thread leaves of another's place in its call
LEMMA PathsStep ==
    ASSUME IInv, DriverTyped, Paths, RegisteredFilters, [Next]_vars
    PROVE  Paths'
<1> USE DEF IInv
<1>0. \A a \in Threads : app[a].pc = "unlink" => app[a].f \in Filters
  BY DEF Working, InStep
<1>1. CASE UNCHANGED <<reg, app>>
  BY <1>1 DEF Paths
<1>2. ASSUME NEW a \in Threads, Call(a) PROVE Paths'
  <2>1. app'[a].pc # "driver" /\ app'[a].pc # "unlink" /\ reg' = reg
        /\ (app'[a].pc = "chan" => app'[a].all)
    BY <1>2 DEF Call, ChannelClose, FilterOpen, Register, FilterClose, Typed
  <2> QED
    BY <1>2, <2>1, Actor DEF Paths
<1>3. ASSUME NEW a \in Threads, ThreadStep(a),
             \A b \in Threads \ {a} : app[b].pc = "unlink" => reg'[app[b].f] = reg[app[b].f],
             /\ app'[a].pc = "chan" => app'[a].all
             /\ app'[a].pc = "driver" => app'[a].c \in Sections
             /\ app'[a].pc = "unlink" => reg'[app'[a].f] = None
      PROVE  Paths'
  BY <1>3, Actor DEF Paths
<1>4. ASSUME NEW a \in Threads, FilterSlot(a) PROVE Paths'
  <2>1. /\ app[a].c \in Channels /\ app'[a].pc \in {"driver", "link"} /\ app'[a].c = app[a].c
        /\ app'[a].pc = "driver" => app[a].c \in Sections
        /\ reg' = reg \/ reg' = [reg EXCEPT ![app[a].c] = app[a].t]
    BY <1>4 DEF FilterSlot, At, Go, Typed, Working, InStep
  <2>2. \A f \in Filters : reg'[f] = reg[f]
    BY <2>1, ConstantsAssumption DEF DriverTyped, Ends
  <2> QED
    BY <1>0, <1>3, <1>4, <2>1, <2>2 DEF ThreadStep, OpenStep
<1>5. ASSUME NEW a \in Threads, FilterDriver(a) PROVE Paths'
  <2>1. app[a].pc = "driver" /\ app[a].f \in Filters /\ app'[a].pc = "link"
        /\ (reg' = reg \/ reg' = [reg EXCEPT ![app[a].f] = app[a].t])
    BY <1>5 DEF FilterDriver, At, Go, Typed, Working, InStep
  <2>2. \A b \in Threads \ {a} : app[b].pc = "unlink" => app[b].f # app[a].f
    BY <2>1, OwnFilter
  <2> QED
    BY <1>0, <1>3, <1>5, <2>1, <2>2 DEF ThreadStep, OpenStep, DriverTyped, Ends
<1>6. ASSUME NEW a \in Threads, FilterOpenFails(a) PROVE Paths'
  <2>1. app[a].pc = "driver" /\ app[a].f \in Filters /\ app'[a].pc = "idle"
        /\ reg' = [reg EXCEPT ![app[a].f] = None]
    BY <1>6 DEF FilterOpenFails, At, Return, Typed, Working, InStep, Resting
  <2>2. \A b \in Threads \ {a} : app[b].pc = "unlink" => app[b].f # app[a].f
    BY <2>1, OwnFilter
  <2> QED
    BY <1>0, <1>3, <1>6, <2>1, <2>2 DEF ThreadStep, OpenStep, DriverTyped, Ends
<1>7. ASSUME NEW a \in Threads, FilterLink(a) PROVE Paths'
  BY <1>3, <1>7 DEF FilterLink, Return, Typed, Resting, ThreadStep, OpenStep
<1>8. ASSUME NEW a \in Threads, RegisterSlot(a) PROVE Paths'
  <2>1. /\ app[a].pc = "register" /\ app[a].f \in Filters /\ app'[a].pc = "idle"
        /\ reg' = [reg EXCEPT ![End(app[a].f)] = app[a].t]
        /\ flt[app[a].f].chan \in Channels
    BY <1>8 DEF RegisterSlot, At, Return, Typed, Working, InStep, Resting
  <2>2. \A b \in Threads \ {a} : app[b].pc = "unlink" => app[b].f # app[a].f
    BY <2>1, OwnFilter
  <2>3. \A f \in Filters : f # app[a].f => f # End(app[a].f)
    BY <2>1, ConstantsAssumption DEF End
  <2> QED
    BY <1>0, <1>3, <1>8, <2>1, <2>2, <2>3 DEF ThreadStep, DriverTyped, Ends
<1>9. ASSUME NEW a \in Threads, CloseDriver(a) PROVE Paths'
  <2>1. /\ app[a].pc = "close" /\ app[a].f \in Filters /\ flt[app[a].f].chan \in Channels
        /\ app'[a].pc = "unlink" /\ app'[a].f = app[a].f
    BY <1>9 DEF CloseDriver, At, Go, Typed, Working, InStep
  <2>2. \A b \in Threads \ {a} : app[b].pc = "unlink" => app[b].f # app[a].f
    BY <2>1, OwnFilter
  <2>3. CASE flt[app[a].f].chan \in Sections
    <3>1. reg' = [reg EXCEPT ![app[a].f] = None]
      BY <1>9, <2>1, <2>3 DEF CloseDriver, End
    <3> QED
      BY <1>0, <1>3, <1>9, <2>1, <2>2, <3>1 DEF ThreadStep, CloseStep, DriverTyped, Ends
  <2>4. CASE flt[app[a].f].chan \notin Sections
    <3>1. End(app[a].f) # app[a].f
      BY <2>1, <2>4, ConstantsAssumption DEF End
    <3>2. reg' = reg /\ reg[app[a].f] = None
      BY <1>9, <2>1, <2>4, <3>1 DEF CloseDriver, RegisteredFilters, RegisteredFilter
    <3> QED
      BY <1>3, <1>9, <2>1, <3>2 DEF ThreadStep, CloseStep
  <2> QED
    BY <2>3, <2>4
<1>10. ASSUME NEW a \in Threads, CloseUnlink(a) \/ CloseToken(a) \/ CloseFree(a)
                                 \/ ChannelCloseNext(a)
       PROVE  Paths'
  <2>1. reg' = reg /\ app'[a].pc \notin {"driver", "unlink"}
        /\ (app'[a].pc = "chan" => app'[a].all)
    BY <1>10 DEF CloseUnlink, CloseToken, CloseFree, ChannelCloseNext, Go, Return, Resting, Typed
  <2> QED
    BY <1>3, <1>10, <2>1 DEF ThreadStep, CloseStep, ChannelCloseStep
<1>11. ASSUME NEW a \in Threads, ChannelCloseEnd(a) PROVE Paths'
  <2>1. app[a].c \in Channels /\ app'[a].pc = "idle" /\ reg' = [reg EXCEPT ![app[a].c] = None]
    BY <1>11 DEF ChannelCloseEnd, At, Return, Resting, Typed, Working, InStep
  <2> QED
    BY <1>0, <1>3, <1>11, <2>1, ConstantsAssumption DEF ThreadStep, ChannelCloseStep, DriverTyped, Ends
<1>12. ASSUME NEW a \in Threads, ThreadStep(a) PROVE Paths'
  BY <1>4, <1>5, <1>6, <1>7, <1>8, <1>9, <1>10, <1>11, <1>12
     DEF ThreadStep, OpenStep, CloseStep, ChannelCloseStep
<1>13. CASE \E c \in Channels : ChannelOpen(c) \/ ChannelStart(c) \/ ChannelStop(c)
  BY <1>1, <1>13 DEF ChannelOpen, ChannelStart, ChannelStop
<1>14. CASE \E g \in Filters : FilterStart(g) \/ FilterStop(g)
  BY <1>1, <1>14 DEF FilterStart, FilterStop
<1>15. CASE (\E e \in Ends : CbBegin(e)) \/ CbStep
  BY <1>1, <1>15 DEF CbBegin, CbStep, CbCheck, CbFetch, CbRequest, CbRequestFails, CbUpdate
<1>16. CASE UNCHANGED vars
  BY <1>1, <1>16 DEF vars
<1> QED
  BY <1>2, <1>12, <1>13, <1>14, <1>15, <1>16 DEF Next

\* What the driver calls for a section filter is the filter's slot
LEMMA RegisteredFiltersStep ==
    ASSUME IInv, DriverTyped, Paths, RegisteredFilters, [Next]_vars
    PROVE  RegisteredFilters'
<1> DEFINE Same(f) == /\ flt'[f].st = flt[f].st /\ flt'[f].chan = flt[f].chan
                      /\ flt'[f].tid = flt[f].tid
           Linkers == \A b \in Threads : app[b].pc = "link" => app'[b] = app[b]
<1> USE DEF IInv
<1>0. ASSUME NEW f \in Filters, flt[f].st \notin {"open", "opening"} PROVE reg[f] = None
  BY <1>0 DEF RegisteredFilters, RegisteredFilter, Linking, Working, InStep, Opening
<1>1. ASSUME NEW f \in Filters, reg'[f] \in {reg[f], None}, Same(f), Linkers
      PROVE  RegisteredFilter(f)'
  BY <1>1 DEF RegisteredFilters, RegisteredFilter, Linking
<1>2. CASE UNCHANGED <<flt, reg, app>>
  BY <1>1, <1>2 DEF RegisteredFilters
<1>3. CASE CbRequest
  <2>1. UNCHANGED <<reg, app>> /\ \A f \in Filters : Same(f)
    BY <1>3 DEF CbRequest, Typed, FilterTable
  <2> QED
    BY <1>1, <2>1 DEF RegisteredFilters
<1>4. ASSUME NEW a \in Threads, Call(a) PROVE RegisteredFilters'
  <2>1. app[a].pc = "idle" /\ reg' = reg
    BY <1>4 DEF Call, ChannelClose, FilterOpen, Register, FilterClose, Mine
  <2>2. Linkers
    BY <1>4, <2>1, Actor
  <2>3. \A f \in Filters : flt[f].st # "free" => flt'[f] = flt[f]
    BY <1>4 DEF Call, ChannelClose, FilterOpen, Register, FilterClose, Typed, FilterTable
  <2>4. \A f \in Filters : flt[f].st = "free" => reg'[f] = None
    BY <1>0, <2>1
  <2> QED
    BY <1>1, <2>1, <2>2, <2>3, <2>4 DEF RegisteredFilters, RegisteredFilter
<1>5. ASSUME NEW a \in Threads, FilterSlot(a) \/ ChannelCloseNext(a) \/ ChannelCloseEnd(a)
      PROVE  RegisteredFilters'
  <2>1. /\ app[a].pc \in {"slot", "chan"} /\ app[a].c \in Channels /\ flt' = flt
        /\ \/ reg' = reg
           \/ reg' = [reg EXCEPT ![app[a].c] = app[a].t]
           \/ reg' = [reg EXCEPT ![app[a].c] = None]
    BY <1>5 DEF FilterSlot, ChannelCloseNext, ChannelCloseEnd, At, Working, InStep
  <2>2. Linkers
    BY <1>5, <2>1, Actor DEF ThreadStep, OpenStep, ChannelCloseStep
  <2>3. \A f \in Filters : reg'[f] = reg[f]
    BY <2>1, ConstantsAssumption DEF DriverTyped, Ends
  <2> QED
    BY <1>1, <2>1, <2>2, <2>3 DEF RegisteredFilters
<1>6. ASSUME NEW a \in Threads, FilterDriver(a) PROVE RegisteredFilters'
  <2>0. PICK g \in Filters : g = app[a].f /\ app[a].pc = "driver"
    BY <1>6 DEF FilterDriver, At, Working, InStep
  <2>1. /\ flt' = flt /\ flt[g].chan \in Sections
        /\ reg' = reg \/ reg' = [reg EXCEPT ![g] = app[a].t]
        /\ app'[a].pc = "link" /\ app'[a].f = g /\ app'[a].t = app[a].t
    BY <1>6, <2>0 DEF FilterDriver, Paths, Working, InStep, Go, Typed
  <2>2. Linkers
    BY <1>6, <2>0, Actor DEF ThreadStep, OpenStep
  <2>3. \A f \in Filters : f # g => reg'[f] = reg[f]
    BY <2>1 DEF DriverTyped, Ends
  <2>4. CASE reg'[g] = reg[g]
    BY <1>1, <2>1, <2>2, <2>3, <2>4 DEF RegisteredFilters
  <2>5. CASE reg'[g] # reg[g]
    <3>1. reg'[g] = app[a].t
      BY <2>1, <2>5 DEF DriverTyped, Ends
    <3>2. RegisteredFilter(g)'
      BY <2>1, <3>1 DEF RegisteredFilter, Linking
    <3> QED
      BY <1>1, <2>1, <2>2, <2>3, <3>2 DEF RegisteredFilters
  <2> QED
    BY <2>4, <2>5
<1>7. ASSUME NEW a \in Threads, FilterOpenFails(a) PROVE RegisteredFilters'
  <2>0. PICK g \in Filters : g = app[a].f /\ app[a].pc = "driver"
    BY <1>7 DEF FilterOpenFails, At, Working, InStep
  <2>1. reg'[g] = None /\ \A f \in Filters : f # g => reg'[f] = reg[f] /\ Same(f)
    BY <1>7, <2>0 DEF FilterOpenFails, DriverTyped, Ends, Typed, FilterTable
  <2>2. Linkers
    BY <1>7, <2>0, Actor DEF ThreadStep, OpenStep
  <2> QED
    BY <1>1, <2>1, <2>2 DEF RegisteredFilters, RegisteredFilter
<1>8. ASSUME NEW a \in Threads, FilterLink(a) PROVE RegisteredFilters'
  <2>0. PICK g \in Filters, u \in Tokens : g = app[a].f /\ u = app[a].t /\ app[a].pc = "link"
    BY <1>8, SlotTaken DEF FilterLink, At, Opening
  <2>1. /\ flt[g].st = "opening" /\ reg' = reg
        /\ flt' = [flt EXCEPT ![g].st = "open", ![g].tid = u]
    BY <1>8, <2>0 DEF FilterLink, Working, InStep, Opening
  <2>2. /\ flt'[g].st = "open" /\ flt'[g].chan = flt[g].chan /\ flt'[g].tid = u
        /\ \A f \in Filters : f # g => Same(f)
    BY <2>1 DEF Typed, FilterTable
  <2>3. \A b \in Threads : b # a => app'[b] = app[b]
    BY <1>8, Actor DEF ThreadStep, OpenStep
  <2>4. RegisteredFilter(g)'
    <3> SUFFICES ASSUME reg[g] # None PROVE reg[g] = u /\ flt[g].chan \in Sections
      BY <2>1, <2>2 DEF RegisteredFilter
    <3>1. flt[g].chan \in Sections /\ Linking(g, reg[g])
      BY <2>1 DEF RegisteredFilters, RegisteredFilter
    <3> QED
      BY <2>0, <3>1, OwnFilter DEF Linking
  <2>5. ASSUME NEW f \in Filters, f # g PROVE RegisteredFilter(f)'
    <3>1. Linking(f, reg[f]) => Linking(f, reg[f])'
      BY <2>0, <2>1, <2>3, <2>5 DEF Linking
    <3> QED
      BY <2>1, <2>2, <2>5, <3>1 DEF RegisteredFilters, RegisteredFilter
  <2> QED
    BY <2>4, <2>5 DEF RegisteredFilters
<1>9. ASSUME NEW a \in Threads, RegisterSlot(a) PROVE RegisteredFilters'
  <2>0. PICK g \in Filters, u \in Tokens : g = app[a].f /\ u = app[a].t /\ app[a].pc = "register"
    BY <1>9, SlotTaken DEF RegisterSlot, At
  <2>1. /\ flt[g].st = "open" /\ reg' = [reg EXCEPT ![End(g)] = u]
        /\ flt' = [flt EXCEPT ![g].tid = u] /\ flt[g].chan \in Channels
    BY <1>9, <2>0 DEF RegisterSlot, Working, InStep
  <2>2. /\ flt'[g].st = "open" /\ flt'[g].chan = flt[g].chan /\ flt'[g].tid = u
        /\ \A f \in Filters : f # g => Same(f)
    BY <2>1 DEF Typed, FilterTable
  <2>3. Linkers
    BY <1>9, <2>0, Actor DEF ThreadStep
  <2>4. End(g) = IF flt[g].chan \in Sections THEN g ELSE flt[g].chan
    BY DEF End
  <2>5. \A f \in Filters : f # g => reg'[f] = reg[f]
    BY <2>1, <2>4, ConstantsAssumption DEF DriverTyped, Ends
  <2>6. RegisteredFilter(g)'
    <3>1. CASE flt[g].chan \in Sections
      BY <2>1, <2>2, <2>4, <3>1 DEF RegisteredFilter, DriverTyped, Ends
    <3>2. CASE flt[g].chan \notin Sections
      <4>1. reg[g] = None
        BY <3>2 DEF RegisteredFilters, RegisteredFilter
      <4>2. reg'[g] = None
        BY <2>1, <2>4, <3>2, <4>1, ConstantsAssumption DEF DriverTyped, Ends
      <4> QED
        BY <4>2 DEF RegisteredFilter
    <3> QED
      BY <3>1, <3>2
  <2> QED
    BY <1>1, <2>2, <2>3, <2>5, <2>6 DEF RegisteredFilters
<1>10. ASSUME NEW a \in Threads, CloseDriver(a) \/ CloseToken(a) PROVE RegisteredFilters'
  <2>1. /\ app[a].pc # "link" /\ flt' = flt
        /\ reg' = reg \/ reg' = [reg EXCEPT ![app[a].f] = None]
    BY <1>10 DEF CloseDriver, CloseToken, At
  <2>2. Linkers
    BY <1>10, <2>1, Actor DEF ThreadStep, CloseStep
  <2>3. \A f \in Filters : reg'[f] \in {reg[f], None}
    BY <2>1 DEF DriverTyped, Ends
  <2> QED
    BY <1>1, <2>1, <2>2, <2>3 DEF RegisteredFilters
<1>11. ASSUME NEW a \in Threads, CloseUnlink(a) \/ CloseFree(a) PROVE RegisteredFilters'
  <2>0. PICK g \in Filters : g = app[a].f /\ app[a].pc \in {"unlink", "free"}
    BY <1>11 DEF CloseUnlink, CloseFree, At, Working, InStep
  <2>1. reg' = reg /\ \A f \in Filters : f # g => Same(f)
    BY <1>11, <2>0 DEF CloseUnlink, CloseFree, Typed, FilterTable
  <2>2. Linkers
    BY <1>11, <2>0, Actor DEF ThreadStep, CloseStep
  <2>3. reg[g] = None
    BY <1>0, <2>0 DEF Paths, Working, InStep
  <2> QED
    BY <1>1, <2>1, <2>2, <2>3 DEF RegisteredFilters, RegisteredFilter
<1>12. ASSUME NEW a \in Threads, ThreadStep(a) PROVE RegisteredFilters'
  BY <1>5, <1>6, <1>7, <1>8, <1>9, <1>10, <1>11, <1>12
     DEF ThreadStep, OpenStep, CloseStep, ChannelCloseStep
<1>13. CASE \E c \in Channels : ChannelOpen(c) \/ ChannelStart(c) \/ ChannelStop(c)
  BY <1>2, <1>13 DEF ChannelOpen, ChannelStart, ChannelStop
<1>14. CASE \E g \in Filters : FilterStart(g) \/ FilterStop(g)
  BY <1>2, <1>14 DEF FilterStart, FilterStop
<1>15. CASE (\E e \in Ends : CbBegin(e)) \/ CbCheck \/ CbFetch \/ CbRequestFails \/ CbUpdate
  BY <1>2, <1>15 DEF CbBegin, CbCheck, CbFetch, CbRequestFails, CbUpdate
<1>16. CASE UNCHANGED vars
  BY <1>2, <1>16 DEF vars
<1> QED
  BY <1>3, <1>4, <1>12, <1>13, <1>14, <1>15, <1>16 DEF Next, CbStep

\* The driver calls nothing for a channel of sections
LEMMA RegisteredChannelsStep ==
    ASSUME IInv, DriverTyped, RegisteredChannels, [Next]_vars
    PROVE  RegisteredChannels'
<1> USE DEF IInv
<1>1. CASE reg' = reg
  BY <1>1 DEF RegisteredChannels
<1>2. ASSUME NEW e \in Ends \ Sections, NEW t, reg' = [reg EXCEPT ![e] = t]
      PROVE  RegisteredChannels'
  BY <1>2, ConstantsAssumption DEF RegisteredChannels, DriverTyped, Ends
<1>3. ASSUME NEW a \in Threads, Call(a) PROVE reg' = reg
  BY <1>3 DEF Call, ChannelClose, FilterOpen, Register, FilterClose
<1>4. ASSUME NEW a \in Threads, FilterSlot(a) PROVE RegisteredChannels'
  <2>1. \/ reg' = reg
        \/ app[a].c \in Ends \ Sections /\ reg' = [reg EXCEPT ![app[a].c] = app[a].t]
    BY <1>4 DEF FilterSlot, At, Working, InStep, Ends
  <2>2. CASE reg' = reg
    BY <1>1, <2>2
  <2>3. CASE app[a].c \in Ends \ Sections /\ reg' = [reg EXCEPT ![app[a].c] = app[a].t]
    BY <1>2, <2>3
  <2> QED
    BY <2>1, <2>2, <2>3
<1>5. ASSUME NEW a \in Threads, FilterDriver(a) \/ FilterOpenFails(a) \/ CloseDriver(a)
      PROVE  RegisteredChannels'
  <2>1. app[a].f \in Ends \ Sections
    BY <1>5, ConstantsAssumption DEF FilterDriver, FilterOpenFails, CloseDriver, At, Working, InStep, Ends
  <2>2. reg' = reg \/ \E t : reg' = [reg EXCEPT ![app[a].f] = t]
    BY <1>5 DEF FilterDriver, FilterOpenFails, CloseDriver
  <2> QED
    BY <1>1, <1>2, <2>1, <2>2
<1>6. ASSUME NEW a \in Threads, RegisterSlot(a) PROVE RegisteredChannels'
  <2>1. /\ app[a].f \in Filters /\ flt[app[a].f].chan \in Channels
        /\ reg' = [reg EXCEPT ![End(app[a].f)] = app[a].t]
    BY <1>6 DEF RegisterSlot, At, Working, InStep
  <2>2. End(app[a].f) \in Ends \ Sections
    BY <2>1, ConstantsAssumption DEF End, Ends
  <2> QED
    BY <1>2, <2>1, <2>2
<1>7. ASSUME NEW a \in Threads, ChannelCloseEnd(a) PROVE RegisteredChannels'
  BY <1>7, ConstantsAssumption DEF ChannelCloseEnd, RegisteredChannels, DriverTyped, Ends
<1>8. ASSUME NEW a \in Threads,
             FilterLink(a) \/ CloseUnlink(a) \/ CloseToken(a) \/ CloseFree(a) \/ ChannelCloseNext(a)
      PROVE  reg' = reg
  BY <1>8 DEF FilterLink, CloseUnlink, CloseToken, CloseFree, ChannelCloseNext
<1>9. ASSUME NEW a \in Threads, ThreadStep(a) PROVE RegisteredChannels'
  BY <1>1, <1>4, <1>5, <1>6, <1>7, <1>8, <1>9
     DEF ThreadStep, OpenStep, CloseStep, ChannelCloseStep
<1>10. CASE \E c \in Channels : ChannelOpen(c) \/ ChannelStart(c) \/ ChannelStop(c)
  BY <1>1, <1>10 DEF ChannelOpen, ChannelStart, ChannelStop
<1>11. CASE \E g \in Filters : FilterStart(g) \/ FilterStop(g)
  BY <1>1, <1>11 DEF FilterStart, FilterStop
<1>12. CASE (\E e \in Ends : CbBegin(e)) \/ CbStep
  BY <1>1, <1>12 DEF CbBegin, CbStep, CbCheck, CbFetch, CbRequest, CbRequestFails, CbUpdate
<1>13. CASE UNCHANGED vars
  BY <1>1, <1>13 DEF vars
<1> QED
  BY <1>1, <1>3, <1>9, <1>10, <1>11, <1>12, <1>13 DEF Next

\* Only a thread that closes a channel goes over to another filter
LEMMA StaysWithFilter ==
    ASSUME Typed, NEW a \in Threads, ThreadStep(a), ~ChannelCloseNext(a)
    PROVE  /\ app'[a].pc \in ClosingPcs => app[a].pc \in ClosingPcs /\ app'[a].f = app[a].f
           /\ app'[a].all => app[a].all /\ app'[a].c = app[a].c
<1>1. CASE OpenStep(a)
  BY <1>1 DEF OpenStep, FilterSlot, FilterDriver, FilterOpenFails, FilterLink, Go, Return,
              Resting, ClosingPcs, Typed
<1>2. CASE RegisterSlot(a) \/ ChannelCloseEnd(a)
  BY <1>2 DEF RegisterSlot, ChannelCloseEnd, Return, Resting, ClosingPcs, Typed
<1>3. CASE CloseStep(a)
  BY <1>3 DEF CloseStep, CloseDriver, CloseUnlink, CloseToken, CloseFree, At, Go, Return,
              Resting, ClosingPcs, Typed
<1> QED
  BY <1>1, <1>2, <1>3 DEF ThreadStep, ChannelCloseStep

\* A filter the driver delivers for is open and nobody is closing it, if the
\* application stops what it started before it closes it
LEMMA StartedFiltersStep ==
    ASSUME Disciplined, IInv, DriverTyped, Paths, StartedFilters, [Next]_vars
    PROVE  StartedFilters'
<1> DEFINE Same(f) == flt'[f].st = flt[f].st /\ flt'[f].chan = flt[f].chan
<1> USE DEF IInv
<1>0. \A f \in Filters : f \in Ends /\ on[f] \in BOOLEAN
  BY DEF DriverTyped, Ends
<1>1. ASSUME NEW f \in Filters, NEW a \in Threads, on'[f] => on[f], on[f] => Same(f),
             \A b \in Threads : b # a => app'[b] = app[b],
             on[f] => /\ app'[a].pc \in ClosingPcs => app'[a].f # f
                      /\ app'[a].all => app'[a].c # flt[f].chan
      PROVE  StartedFilter(f)'
  BY <1>1 DEF StartedFilters, StartedFilter, Untouched, Kept
<1>2. ASSUME app' = app, \A f \in Filters : (on'[f] => on[f]) /\ Same(f)
      PROVE  StartedFilters'
  BY <1>2 DEF StartedFilters, StartedFilter, Untouched, Kept
<1>3. ASSUME NEW a \in Threads, ThreadStep(a), ~ChannelCloseNext(a),
             \A f \in Filters : (on'[f] => on[f]) /\ (on[f] => Same(f))
      PROVE  StartedFilters'
  <2>1. ASSUME NEW f \in Filters, on[f]
        PROVE  /\ app'[a].pc \in ClosingPcs => app'[a].f # f
               /\ app'[a].all => app'[a].c # flt[f].chan
    BY <1>3, <2>1, StaysWithFilter DEF StartedFilters, StartedFilter, Untouched, Kept
  <2>2. \A b \in Threads : b # a => app'[b] = app[b]
    BY <1>3, Actor
  <2> QED
    BY <1>1, <1>3, <2>1, <2>2 DEF StartedFilters
<1>4. ASSUME NEW a \in Threads, Call(a) PROVE StartedFilters'
  <2>1. on' = on /\ \A f \in Filters : flt[f].st = "open" => flt'[f] = flt[f]
    BY <1>4 DEF Call, ChannelClose, FilterOpen, Register, FilterClose, Typed, FilterTable
  <2>2. \A b \in Threads : b # a => app'[b] = app[b]
    BY <1>4, Actor
  <2>3. ASSUME NEW f \in Filters, on[f]
        PROVE  /\ app'[a].pc \in ClosingPcs => app'[a].f # f
               /\ app'[a].all => app'[a].c # flt[f].chan
    <3>0. flt[f].st = "open" /\ flt[f].chan \in Sections /\ End(f) = f
      BY <2>3 DEF StartedFilters, StartedFilter, End
    <3>1. CASE \E c \in Channels : ChannelClose(a, c)
      BY <2>3, <3>0, <3>1 DEF ChannelClose, OnChannel, ClosingPcs, Typed
    <3>2. CASE \E c \in Channels, g \in Filters, t \in IdleTokens : FilterOpen(a, c, g, t)
      BY <3>2 DEF FilterOpen, ClosingPcs, Typed
    <3>3. CASE \E g \in Filters, t \in Tokens : Register(a, g, t)
      BY <3>3 DEF Register, ClosingPcs, Typed
    <3>4. CASE \E g \in Filters : FilterClose(a, g)
      BY <2>3, <3>0, <3>4 DEF FilterClose, ClosingPcs, Typed
    <3> QED
      BY <1>4, <3>1, <3>2, <3>3, <3>4 DEF Call
  <2>4. \A f \in Filters : on[f] => Same(f)
    BY <2>1 DEF StartedFilters, StartedFilter
  <2> QED
    BY <1>1, <2>1, <2>2, <2>3, <2>4 DEF StartedFilters
<1>5. ASSUME NEW a \in Threads, FilterSlot(a) \/ CloseToken(a) PROVE StartedFilters'
  <2>1. UNCHANGED <<flt, on>> /\ ~ChannelCloseNext(a)
    BY <1>5 DEF FilterSlot, CloseToken, ChannelCloseNext, At
  <2> QED
    BY <1>3, <1>5, <2>1 DEF ThreadStep, OpenStep, CloseStep
<1>6. ASSUME NEW a \in Threads, FilterDriver(a) \/ CloseDriver(a) \/ ChannelCloseEnd(a)
      PROVE  StartedFilters'
  <2>1. /\ flt' = flt
        /\ \/ on' = on
           \/ on' = [on EXCEPT ![app[a].f] = FALSE]
           \/ on' = [on EXCEPT ![app[a].c] = FALSE]
    BY <1>6 DEF FilterDriver, CloseDriver, ChannelCloseEnd
  <2>2. ~ChannelCloseNext(a)
    <3>1. CASE ChannelCloseEnd(a)
      BY <3>1 DEF ChannelCloseNext, ChannelCloseEnd
    <3> QED
      BY <1>6, <3>1 DEF FilterDriver, CloseDriver, ChannelCloseNext, At
  <2>3. \A f \in Filters : on'[f] => on[f]
    BY <1>0, <2>1 DEF DriverTyped
  <2> QED
    BY <1>3, <1>6, <2>1, <2>2, <2>3 DEF ThreadStep, OpenStep, CloseStep, ChannelCloseStep
<1>7. ASSUME NEW a \in Threads, FilterOpenFails(a) \/ FilterLink(a) \/ RegisterSlot(a)
      PROVE  StartedFilters'
  <2>1. /\ app[a].f \in Filters /\ on' = on /\ ~ChannelCloseNext(a)
        /\ RegisterSlot(a) \/ flt[app[a].f].st # "open"
    BY <1>7 DEF FilterOpenFails, FilterLink, RegisterSlot, ChannelCloseNext, At, Working, InStep, Opening
  <2>2. \A f \in Filters : RegisterSlot(a) \/ f # app[a].f => Same(f)
    BY <1>7 DEF FilterOpenFails, FilterLink, RegisterSlot, Typed, FilterTable
  <2>3. \A f \in Filters : on[f] => Same(f)
    BY <2>1, <2>2 DEF StartedFilters, StartedFilter
  <2> QED
    BY <1>3, <1>7, <2>1, <2>3 DEF ThreadStep, OpenStep
<1>8. ASSUME NEW a \in Threads, CloseUnlink(a) \/ CloseFree(a) PROVE StartedFilters'
  <2>1. app[a].pc \in ClosingPcs /\ on' = on /\ ~ChannelCloseNext(a)
    BY <1>8 DEF CloseUnlink, CloseFree, ChannelCloseNext, At, ClosingPcs
  <2>2. \A f \in Filters : f # app[a].f => Same(f)
    BY <1>8 DEF CloseUnlink, CloseFree, Typed, FilterTable
  <2>3. \A f \in Filters : on[f] => Same(f)
    BY <2>1, <2>2 DEF StartedFilters, StartedFilter, Untouched
  <2> QED
    BY <1>3, <1>8, <2>1, <2>3 DEF ThreadStep, CloseStep
<1>9. ASSUME NEW a \in Threads, ChannelCloseNext(a) PROVE StartedFilters'
  <2>1. PICK g \in OnChannel(app[a].c) : app' = [app EXCEPT ![a].pc = "close", ![a].f = g]
    BY <1>9 DEF ChannelCloseNext
  <2>2. app[a].all /\ UNCHANGED <<flt, on>> /\ g \in Filters /\ flt[g].chan = app[a].c
    BY <1>9, <2>1 DEF ChannelCloseNext, At, Paths, OnChannel
  <2>3. app'[a].f = g /\ app'[a].c = app[a].c /\ app'[a].all = app[a].all
    BY <2>1 DEF Typed
  <2>4. \A b \in Threads : b # a => app'[b] = app[b]
    BY <2>1 DEF Typed
  <2>5. \A f \in Filters : on[f] => Same(f) /\ app'[a].f # f /\ (app'[a].all => app'[a].c # flt[f].chan)
    BY <2>2, <2>3 DEF StartedFilters, StartedFilter, Kept
  <2> QED
    BY <1>1, <2>2, <2>4, <2>5 DEF StartedFilters
<1>10. ASSUME NEW a \in Threads, ThreadStep(a) PROVE StartedFilters'
  BY <1>5, <1>6, <1>7, <1>8, <1>9, <1>10 DEF ThreadStep, OpenStep, CloseStep, ChannelCloseStep
<1>11. ASSUME NEW c \in Channels, ChannelOpen(c) \/ ChannelStart(c) \/ ChannelStop(c)
       PROVE  StartedFilters'
  <2>1. UNCHANGED <<flt, app>> /\ (on' = on \/ \E v \in BOOLEAN : on' = [on EXCEPT ![c] = v])
    BY <1>11 DEF ChannelOpen, ChannelStart, ChannelStop
  <2>2. \A f \in Filters : on'[f] = on[f]
    BY <2>1, ConstantsAssumption DEF DriverTyped, Ends
  <2> QED
    BY <1>2, <2>1, <2>2
<1>12. ASSUME NEW g \in Filters, FilterStop(g) PROVE StartedFilters'
  BY <1>0, <1>2, <1>12 DEF FilterStop, DriverTyped
<1>13. ASSUME NEW g \in Filters, FilterStart(g) PROVE StartedFilters'
  <2>1. UNCHANGED <<flt, app>> /\ Usable(g) /\ on' = [on EXCEPT ![End(g)] = TRUE]
    BY <1>13 DEF FilterStart
  <2>2. \A f \in Filters : f # g => on'[f] = on[f]
    BY <2>1, ConstantsAssumption, NoneApart DEF DriverTyped, Ends, End, Typed, FilterTable
  <2>3. StartedFilter(g)'
    <3>1. CASE flt[g].chan \in Sections
      <4>1. Untouched(g) /\ Kept(g) /\ flt[g].st = "open"
        BY <2>1, <3>1 DEF Usable, Untouched, Kept, ClosingPcs, Working, InStep
      <4> QED
        BY <2>1, <3>1, <4>1 DEF StartedFilter, Untouched, Kept
    <3>2. CASE flt[g].chan \notin Sections
      <4>1. on'[g] = on[g]
        BY <2>1, <3>2, ConstantsAssumption, NoneApart DEF DriverTyped, Ends, End, Typed, FilterTable
      <4> QED
        BY <2>1, <4>1 DEF StartedFilters, StartedFilter, Untouched, Kept
    <3> QED
      BY <3>1, <3>2
  <2>4. ASSUME NEW f \in Filters, f # g PROVE StartedFilter(f)'
    BY <2>1, <2>2, <2>4 DEF StartedFilters, StartedFilter, Untouched, Kept
  <2> QED
    BY <2>3, <2>4 DEF StartedFilters
<1>14. CASE CbRequest
  BY <1>2, <1>14 DEF CbRequest, Typed, FilterTable
<1>15. CASE (\E e \in Ends : CbBegin(e)) \/ CbCheck \/ CbFetch \/ CbRequestFails \/ CbUpdate
  BY <1>2, <1>15 DEF CbBegin, CbCheck, CbFetch, CbRequestFails, CbUpdate
<1>16. CASE UNCHANGED vars
  BY <1>2, <1>16 DEF vars
<1> QED
  BY <1>4, <1>10, <1>11, <1>12, <1>13, <1>14, <1>15, <1>16 DEF Next, CbStep

LEMMA SteadyIsUntouched ==
    ASSUME IInv, NEW f \in Filters, Steady(flt[f].chan) PROVE Untouched(f)
BY DEF IInv, Working, InStep, Steady, Untouched, ClosingPcs

\* What the driver calls for a started channel leads to a filter of it, and
\* nobody is closing one there
LEMMA StartedChannelsStep ==
    ASSUME Disciplined, IInv, DriverTyped, Paths, StartedChannels, [Next]_vars
    PROVE  StartedChannels'
<1> USE DEF IInv
<1>0. \A c \in Channels \ Sections : c \in Ends /\ c \notin Filters /\ on[c] \in BOOLEAN
  BY ConstantsAssumption DEF DriverTyped, Ends
<1>1. ASSUME NEW c \in Channels \ Sections, on'[c] => on[c], reg'[c] = reg[c],
             on[c] => Steady(c)'
      PROVE  StartedChannel(c)'
  <2> SUFFICES ASSUME on[c], reg[c] # None
               PROVE  \E f \in Filters : flt'[f].chan = c /\ Leads(reg[c], f)'
    BY <1>1 DEF StartedChannel
  <2>1. PICK f \in Filters : flt[f].chan = c /\ Leads(reg[c], f) /\ Untouched(f)
    BY SteadyIsUntouched DEF StartedChannels, StartedChannel
  <2>2. PICK t \in Tokens : t = reg[c]
    BY <1>0 DEF DriverTyped
  <2>3. flt'[f].chan = c /\ Leads(t, f)'
    BY <2>1, <2>2, LeadsStays
  <2>4. reg'[c] = t
    BY <1>1, <2>2
  <2> QED
    BY <2>3, <2>4 DEF Leads, Linking
<1>2. CASE UNCHANGED <<reg, on, app>>
  BY <1>1, <1>2 DEF StartedChannels, StartedChannel, Steady
<1>3. ASSUME NEW a \in Threads, NEW c \in Channels, on[c],
             \A b \in Threads : b # a => app'[b] = app[b], StartedChannel(c),
             app'[a].c = c => app'[a].pc \in {"slot", "link", "register"}
      PROVE  Steady(c)'
  BY <1>3 DEF StartedChannel, Steady
<1>4. ASSUME NEW a \in Threads, Call(a) PROVE StartedChannels'
  <2>1. UNCHANGED <<reg, on>>
    BY <1>4 DEF Call, ChannelClose, FilterOpen, Register, FilterClose
  <2>2. \A b \in Threads : b # a => app'[b] = app[b]
    BY <1>4, Actor
  <2>3. ASSUME NEW c \in Channels \ Sections, on[c], app'[a].c = c
        PROVE  app'[a].pc \in {"slot", "link", "register"}
    <3>1. CASE \E d \in Channels : ChannelClose(a, d)
      BY <2>3, <3>1 DEF ChannelClose, Typed
    <3>2. CASE \E d \in Channels, g \in Filters, t \in IdleTokens : FilterOpen(a, d, g, t)
      BY <3>2 DEF FilterOpen, Typed
    <3>3. CASE \E g \in Filters, t \in Tokens : Register(a, g, t)
      BY <3>3 DEF Register, Typed
    <3>4. CASE \E g \in Filters : FilterClose(a, g)
      BY <2>3, <3>4 DEF FilterClose, End, Typed
    <3> QED
      BY <1>4, <3>1, <3>2, <3>3, <3>4 DEF Call
  <2> QED
    BY <1>1, <1>3, <2>1, <2>2, <2>3 DEF StartedChannels
<1>5. ASSUME NEW a \in Threads, ThreadStep(a),
             \A c \in Channels \ Sections : on[c] /\ StartedChannel(c) =>
                /\ reg'[c] = reg[c]
                /\ app'[a].c = c => app'[a].pc \in {"slot", "link", "register"},
             \A c \in Channels \ Sections : on'[c] => on[c]
      PROVE  StartedChannels'
  <2>1. \A b \in Threads : b # a => app'[b] = app[b]
    BY <1>5, Actor
  <2>2. ASSUME NEW c \in Channels \ Sections, on[c] PROVE Steady(c)' /\ reg'[c] = reg[c]
    BY <1>3, <1>5, <2>1, <2>2 DEF StartedChannels
  <2>3. ASSUME NEW c \in Channels \ Sections, on[c] PROVE StartedChannel(c)'
    BY <1>1, <2>2, <2>3
  <2> QED
    BY <1>5, <2>3 DEF StartedChannels, StartedChannel
<1>6. ASSUME NEW a \in Threads, FilterSlot(a) PROVE StartedChannels'
  <2>0. PICK d \in Channels, g \in Filters, t \in Tokens :
            d = app[a].c /\ g = app[a].f /\ t = app[a].t /\ app[a].pc = "slot" /\ flt[g].chan = d
    BY <1>6 DEF FilterSlot, At, Working, InStep, Typed
  <2>1. /\ UNCHANGED <<flt, on>> /\ arr' = [arr EXCEPT ![t] = g]
        /\ reg' = reg \/ (d \notin Sections /\ reg' = [reg EXCEPT ![d] = t])
        /\ app'[a].pc = (IF d \in Sections THEN "driver" ELSE "link")
        /\ app'[a].c = d /\ app'[a].f = g /\ app'[a].t = t
    BY <1>6, <2>0 DEF FilterSlot, Go, Typed
  <2>2. \A b \in Threads : b # a => app'[b] = app[b]
    BY <1>6, Actor DEF ThreadStep, OpenStep
  <2>3. ASSUME NEW c \in Channels \ Sections, on[c] PROVE Steady(c)'
    BY <1>3, <2>1, <2>2, <2>3 DEF StartedChannels
  <2>4. ASSUME NEW c \in Channels \ Sections, reg'[c] = reg[c] PROVE StartedChannel(c)'
    BY <1>1, <2>1, <2>3, <2>4
  <2>5. ASSUME NEW c \in Channels \ Sections, reg'[c] # reg[c] PROVE StartedChannel(c)'
    <3>1. c = d /\ reg'[c] = t /\ d \notin Sections
      BY <2>1, <2>5 DEF DriverTyped, Ends
    <3>2. arr'[t] = g /\ flt'[g].chan = c
      BY <2>0, <2>1, <3>1 DEF Typed
    <3>3. Leads(t, g)'
      BY <2>0, <2>1, <3>1, <3>2 DEF Leads, Linking
    <3> QED
      BY <2>1, <2>3, <3>1, <3>2, <3>3 DEF StartedChannel
  <2> QED
    BY <2>4, <2>5 DEF StartedChannels
<1>7. ASSUME NEW a \in Threads, FilterDriver(a) \/ FilterOpenFails(a) PROVE StartedChannels'
  <2>1. app[a].c \in Sections /\ app[a].f \in Filters
    BY <1>7 DEF FilterDriver, FilterOpenFails, At, Paths, Working, InStep
  <2>2. app'[a].c \in {app[a].c, None}
    BY <1>7 DEF FilterDriver, FilterOpenFails, Go, Return, Resting, Typed
  <2>3. /\ reg' = reg \/ \E v : reg' = [reg EXCEPT ![app[a].f] = v]
        /\ on' = on \/ on' = [on EXCEPT ![app[a].f] = FALSE]
    BY <1>7 DEF FilterDriver, FilterOpenFails
  <2>4. \A c \in Channels \ Sections : reg'[c] = reg[c] /\ on'[c] = on[c]
    BY <1>0, <2>1, <2>3 DEF DriverTyped
  <2> QED
    BY <1>5, <1>7, <2>1, <2>2, <2>4, NoneApart DEF ThreadStep, OpenStep
<1>8. ASSUME NEW a \in Threads, FilterLink(a) PROVE StartedChannels'
  <2>1. UNCHANGED <<reg, on>> /\ app'[a].c = None
    BY <1>8 DEF FilterLink, Return, Resting, Typed
  <2> QED
    BY <1>5, <1>8, <2>1, NoneApart DEF ThreadStep, OpenStep
<1>9. ASSUME NEW a \in Threads, RegisterSlot(a) PROVE StartedChannels'
  <2>0. PICK g \in Filters, t \in Tokens : g = app[a].f /\ t = app[a].t /\ app[a].pc = "register"
    BY <1>9, SlotTaken DEF RegisterSlot, At
  <2>1. /\ on' = on /\ app'[a].c = None
        /\ flt[g].st = "open" /\ flt[g].chan \in Channels
        /\ flt' = [flt EXCEPT ![g].tid = t] /\ arr' = [arr EXCEPT ![t] = g]
        /\ tok' = [tok EXCEPT ![t] = "used"] /\ reg' = [reg EXCEPT ![End(g)] = t]
    BY <1>9, <2>0 DEF RegisterSlot, Working, InStep, Return, Resting, Typed
  <2>2. \A b \in Threads : b # a => app'[b] = app[b]
    BY <1>9, Actor DEF ThreadStep
  <2>3. ASSUME NEW c \in Channels \ Sections, on[c] PROVE Steady(c)'
    BY <1>3, <2>1, <2>2, <2>3, NoneApart DEF StartedChannels
  <2>4. ASSUME NEW c \in Channels \ Sections, reg'[c] = reg[c] PROVE StartedChannel(c)'
    BY <1>1, <2>1, <2>3, <2>4
  <2>5. ASSUME NEW c \in Channels \ Sections, reg'[c] # reg[c] PROVE StartedChannel(c)'
    <3>1. c = End(g) /\ reg'[c] = t
      BY <2>1, <2>5 DEF DriverTyped, Ends
    <3>2. c = flt[g].chan
      BY <1>0, <3>1 DEF End
    <3>3. /\ flt'[g].chan = c /\ flt'[g].st = "open"
          /\ tok'[t] = "used" /\ arr'[t] = g
      BY <2>1, <3>2 DEF Typed, FilterTable
    <3>4. Leads(t, g)'
      BY <3>3 DEF Leads
    <3> QED
      BY <2>1, <2>3, <3>1, <3>3, <3>4 DEF StartedChannel
  <2> QED
    BY <2>4, <2>5 DEF StartedChannels
<1>10. ASSUME NEW a \in Threads, CloseStep(a) PROVE StartedChannels'
  <2>1. /\ app[a].pc \in ClosingPcs /\ app[a].f \in Filters
        /\ app'[a].c \in {app[a].c, None}
        /\ reg' = reg \/ reg' = [reg EXCEPT ![app[a].f] = None]
        /\ on' = on \/ on' = [on EXCEPT ![app[a].f] = FALSE]
    BY <1>10 DEF CloseStep, CloseDriver, CloseUnlink, CloseToken, CloseFree, At, Go, Return,
                 Resting, ClosingPcs, Working, InStep, Typed
  <2>2. \A c \in Channels \ Sections : reg'[c] = reg[c] /\ on'[c] = on[c]
    BY <1>0, <2>1 DEF DriverTyped
  <2>3. \A c \in Channels \ Sections : on[c] /\ StartedChannel(c) => app'[a].c # c
    BY <2>1, NoneApart DEF StartedChannel, Steady, ClosingPcs
  <2> QED
    BY <1>5, <1>10, <2>2, <2>3 DEF ThreadStep
<1>11. ASSUME NEW a \in Threads, ChannelCloseStep(a) PROVE StartedChannels'
  <2>1. /\ app[a].pc = "chan" /\ app'[a].c \in {app[a].c, None} /\ app[a].c \in Channels
        /\ reg' = reg \/ reg' = [reg EXCEPT ![app[a].c] = None]
        /\ on' = on \/ on' = [on EXCEPT ![app[a].c] = FALSE]
    BY <1>11 DEF ChannelCloseStep, ChannelCloseNext, ChannelCloseEnd, At, Return,
                 Resting, Working, InStep, Typed
  <2>2. \A c \in Channels \ Sections : (on'[c] => on[c]) /\ (c # app[a].c => reg'[c] = reg[c])
    BY <1>0, <2>1 DEF DriverTyped
  <2>3. \A c \in Channels \ Sections : on[c] /\ StartedChannel(c) => app'[a].c # c /\ app[a].c # c
    BY <2>1, NoneApart DEF StartedChannel, Steady
  <2> QED
    BY <1>5, <1>11, <2>2, <2>3 DEF ThreadStep
<1>12. ASSUME NEW a \in Threads, ThreadStep(a) PROVE StartedChannels'
  BY <1>6, <1>7, <1>8, <1>9, <1>10, <1>11, <1>12 DEF ThreadStep, OpenStep
<1>13. ASSUME UNCHANGED <<reg, app>>, \A c \in Channels \ Sections : on'[c] => on[c]
       PROVE  StartedChannels'
  BY <1>1, <1>13 DEF StartedChannels, StartedChannel, Steady
<1>14. ASSUME NEW e, UNCHANGED <<tok, arr, flt, reg, app>>, on' = [on EXCEPT ![e] = TRUE],
              Wired(e), \A a \in Threads : app[a].c # e
       PROVE  StartedChannels'
  <2>1. ASSUME NEW c \in Channels \ Sections, c # e PROVE StartedChannel(c)'
    <3>1. on'[c] = on[c]
      BY <1>14, <2>1, <1>0 DEF DriverTyped
    <3> QED
      BY <1>1, <1>14, <3>1 DEF StartedChannels, StartedChannel, Steady
  <2>2. ASSUME e \in Channels \ Sections PROVE StartedChannel(e)'
    <3>1. Steady(e)'
      BY <1>14 DEF Steady
    <3> SUFFICES ASSUME reg[e] # None
                 PROVE  \E f \in Filters : flt'[f].chan = e /\ Leads(reg[e], f)'
      BY <1>14, <3>1 DEF StartedChannel
    <3>2. PICK f \in Filters : flt[f].st = "open" /\ flt[f].chan = e /\ flt[f].tid = reg[e]
      BY <1>14, <2>2 DEF Wired, OnChannel
    <3>3. Leads(reg[e], f)'
      BY <1>14, <3>2 DEF Leads, Owned
    <3> QED
      BY <1>14, <3>2, <3>3
  <2> QED
    BY <2>1, <2>2 DEF StartedChannels
<1>15. ASSUME NEW c \in Channels, ChannelOpen(c) \/ ChannelStop(c) PROVE StartedChannels'
  <2>1. UNCHANGED <<reg, app>> /\ (on' = on \/ on' = [on EXCEPT ![c] = FALSE])
    BY <1>15 DEF ChannelOpen, ChannelStop
  <2> QED
    BY <1>0, <1>13, <2>1 DEF DriverTyped
<1>16. ASSUME NEW c \in Channels, ChannelStart(c) PROVE StartedChannels'
  BY <1>14, <1>16 DEF ChannelStart
<1>17. ASSUME NEW g \in Filters, FilterStop(g) PROVE StartedChannels'
  <2>1. UNCHANGED <<reg, app>> /\ on' = [on EXCEPT ![End(g)] = FALSE]
    BY <1>17 DEF FilterStop
  <2> QED
    BY <1>0, <1>13, <2>1 DEF DriverTyped
<1>18. ASSUME NEW g \in Filters, FilterStart(g) PROVE StartedChannels'
  <2>1. /\ UNCHANGED <<tok, arr, flt, reg, app>> /\ on' = [on EXCEPT ![End(g)] = TRUE]
        /\ Wired(End(g)) /\ \A a \in Threads : app[a].c # flt[g].chan
    BY <1>18 DEF FilterStart, Usable
  <2>2. CASE End(g) = g
    <3>1. \A c \in Channels \ Sections : on'[c] = on[c]
      BY <1>0, <2>1, <2>2 DEF DriverTyped
    <3> QED
      BY <1>13, <2>1, <3>1
  <2>3. CASE End(g) # g
    BY <1>14, <2>1, <2>3 DEF End
  <2> QED
    BY <2>2, <2>3
<1>19. CASE (\E e \in Ends : CbBegin(e)) \/ CbStep
  BY <1>2, <1>19 DEF CbBegin, CbStep, CbCheck, CbFetch, CbRequest, CbRequestFails, CbUpdate
<1>20. CASE UNCHANGED vars
  BY <1>2, <1>20 DEF vars
<1> QED
  BY <1>4, <1>12, <1>15, <1>16, <1>17, <1>18, <1>19, <1>20 DEF Next

\* Nobody is closing the filter of a callback in flight
LEMMA ServedIsUntouched ==
    ASSUME DInv, cb.pc # "idle", NEW f \in Filters, Serves(f) PROVE Untouched(f)
<1>1. CASE cb.e = f
  BY <1>1 DEF DInv, Serving, StartedFilters, StartedFilter
<1>2. CASE cb.e = flt[f].chan
  <2>1. cb.e \in Channels \ Sections
    BY <1>2, ConstantsAssumption DEF DInv, IInv, Typed, FilterTable, Serving, Ends
  <2> QED
    BY <1>2, <2>1, SteadyIsUntouched DEF DInv, Serving, StartedChannels, StartedChannel
<1> QED
  BY <1>1, <1>2 DEF Serves

\* A step that leaves the callback and what it was called for
LEMMA ServingKept ==
    ASSUME DInv, [Next]_vars, cb' = cb, cb.pc # "idle" => on'[cb.e]
    PROVE  Serving'
<1> SUFFICES ASSUME cb.pc # "idle" PROVE \E f \in Filters : Serves(f)'
  BY DEF DInv, Serving
<1>1. PICK f \in Filters : Serves(f)
  BY DEF DInv, Serving
<1>2. PICK t \in Tokens : t = cb.t
  BY DEF DInv, DriverTyped
<1>3. Leads(t, f)' /\ flt'[f].chan = flt[f].chan /\ (flt[f].buf => flt'[f].buf)
  BY <1>1, <1>2, ServedIsUntouched, LeadsStays DEF DInv, Serves
<1>4. Leads(cb.t, f)'
  BY <1>2, <1>3 DEF Leads, Linking
<1> QED
  BY <1>1, <1>3, <1>4 DEF Serves

\* The callback in flight is for a started end and about a filter of it
LEMMA ServingStep == ASSUME DInv, [Next]_vars PROVE Serving'
<1> USE DEF DriverTyped
<1>0. DriverTyped /\ (cb.pc # "idle" => cb.e \in Ends /\ on[cb.e])
  BY DEF DInv, Serving
<1>1. CASE UNCHANGED <<on, cb>>
  BY <1>0, <1>1, ServingKept
<1>2. ASSUME NEW e, cb' = cb, on' = [on EXCEPT ![e] = TRUE] \/ Quiet(e),
             on' = [on EXCEPT ![e] = TRUE] \/ on' = [on EXCEPT ![e] = FALSE]
      PROVE  Serving'
  BY <1>0, <1>2, ServingKept DEF Quiet
<1>3. ASSUME NEW a \in Threads, FilterDriver(a) PROVE Serving'
  <2>1. /\ cb' = cb /\ on' = [on EXCEPT ![app[a].f] = FALSE]
        /\ app[a].f \in Filters /\ flt[app[a].f].st = "opening"
    BY <1>3 DEF FilterDriver, At, DInv, IInv, Working, InStep, Opening
  <2>2. ~on[app[a].f]
    BY <2>1 DEF DInv, StartedFilters, StartedFilter
  <2> QED
    BY <1>0, <2>1, <2>2, ServingKept
<1>4. ASSUME NEW a \in Threads, CloseDriver(a) PROVE Serving'
  BY <1>1, <1>2, <1>4 DEF CloseDriver
<1>5. ASSUME NEW a \in Threads, ChannelCloseEnd(a) PROVE Serving'
  BY <1>2, <1>5 DEF ChannelCloseEnd
<1>6. ASSUME NEW a \in Threads, Call(a) PROVE Serving'
  BY <1>1, <1>6 DEF Call, ChannelClose, FilterOpen, Register, FilterClose
<1>7. ASSUME NEW a \in Threads, ThreadStep(a) PROVE Serving'
  BY <1>1, <1>3, <1>4, <1>5, <1>7
     DEF ThreadStep, OpenStep, CloseStep, ChannelCloseStep, FilterSlot, FilterOpenFails, FilterLink,
         RegisterSlot, CloseUnlink, CloseToken, CloseFree, ChannelCloseNext
<1>8. ASSUME NEW c \in Channels, ChannelOpen(c) \/ ChannelStart(c) \/ ChannelStop(c) PROVE Serving'
  BY <1>1, <1>2, <1>8 DEF ChannelOpen, ChannelStart, ChannelStop
<1>9. ASSUME NEW g \in Filters, FilterStart(g) \/ FilterStop(g) PROVE Serving'
  BY <1>2, <1>9 DEF FilterStart, FilterStop
<1>10. ASSUME NEW e \in Ends, CbBegin(e) PROVE Serving'
  <2>1. /\ cb' = [pc |-> "check", e |-> e, t |-> reg[e], f |-> None, upd |-> FALSE]
        /\ on[e] /\ reg[e] # None /\ UNCHANGED <<tok, arr, flt, on, app>>
    BY <1>10 DEF CbBegin, Delivers, NoCall
  <2>2. e \notin Sections /\ \E f \in Filters : e \in {f, flt[f].chan} /\ Leads(reg[e], f)
    <3>1. CASE e \in Filters
      <4>1. Leads(reg[e], e)
        BY <2>1, <3>1 DEF DInv, IInv, RegisteredFilters, RegisteredFilter, Leads, Linking, Owned,
                          Working, InStep
      <4> QED
        BY <3>1, <4>1, ConstantsAssumption
    <3>2. CASE e \in Channels
      <4>1. e \notin Sections
        BY <2>1 DEF DInv, RegisteredChannels
      <4> QED
        BY <2>1, <3>2, <4>1 DEF DInv, StartedChannels, StartedChannel
    <3> QED
      BY <3>1, <3>2 DEF Ends
  <2>3. PICK f \in Filters, t \in Tokens : e \in {f, flt[f].chan} /\ Leads(t, f) /\ t = reg[e]
    BY <1>0, <2>1, <2>2
  <2>4. Leads(cb.t, f)'
    BY <2>1, <2>3 DEF Leads, Linking
  <2> QED
    BY <2>1, <2>2, <2>3, <2>4 DEF Serving, Serves
<1>11. CASE CbCheck \/ CbRequestFails \/ CbUpdate
  <2>1. CASE cb'.pc = "idle"
    BY <2>1 DEF Serving
  <2>2. CASE cb' = [cb EXCEPT !.pc = "fetch"] /\ cb.pc = "check" /\ UNCHANGED <<tok, arr, flt, on, app>>
    <3>1. /\ cb'.pc = "fetch" /\ cb'.e = cb.e /\ cb'.t = cb.t /\ cb'.upd = cb.upd
      BY <1>0, <2>2
    <3> QED
      BY <2>2, <3>1 DEF DInv, Serving, Serves, Leads, Linking
  <2> QED
    BY <1>11, <2>1, <2>2 DEF CbCheck, CbRequestFails, CbUpdate, NoCall
<1>12. CASE CbFetch
  <2>1. /\ UNCHANGED <<tok, arr, flt, on, app>> /\ cb.pc = "fetch"
        /\ cb'.pc = "use" /\ cb'.f = arr[cb.t]
        /\ cb'.e = cb.e /\ cb'.t = cb.t /\ cb'.upd = cb.upd
    BY <1>0, <1>12 DEF CbFetch
  <2> QED
    BY <2>1 DEF DInv, Serving, Serves, Leads, Linking
<1>13. CASE CbRequest
  <2>1. /\ UNCHANGED <<tok, arr, on, app>> /\ cb.pc = "use" /\ cb.f = cb.f
        /\ flt' = [flt EXCEPT ![cb.f].buf = TRUE] /\ cb'.pc = "check"
        /\ cb'.e = cb.e /\ cb'.t = cb.t
    BY <1>0, <1>13 DEF CbRequest
  <2>2. PICK f \in Filters : Serves(f) /\ cb.f = f
    BY <2>1 DEF DInv, Serving, Serves
  <2>3. flt'[f].buf /\ flt'[f].chan = flt[f].chan /\ flt'[f].st = flt[f].st
    BY <2>1, <2>2 DEF DInv, IInv, Typed, FilterTable
  <2> QED
    BY <2>1, <2>2, <2>3 DEF DInv, Serving, Serves, Leads, Linking
<1>14. CASE UNCHANGED vars
  BY <1>1, <1>14 DEF vars
<1> QED
  BY <1>6, <1>7, <1>8, <1>9, <1>10, <1>11, <1>12, <1>13, <1>14 DEF Next, CbStep

-----------------------------------------------------------------------------
LEMMA DriverInit == Init => DInv
<1> SUFFICES ASSUME Init PROVE DInv
  OBVIOUS
<1>1. DriverTyped
  BY TokensAreNats DEF Init, DriverTyped, NoCall
<1>2. Paths /\ RegisteredChannels /\ Serving
  BY ConstantsAssumption DEF Init, Paths, RegisteredChannels, Serving, Resting, NoCall, Ends
<1>3. RegisteredFilters /\ StartedFilters /\ StartedChannels
  BY ConstantsAssumption
     DEF Init, RegisteredFilters, RegisteredFilter, StartedFilters, StartedFilter,
         StartedChannels, StartedChannel, Ends
<1> QED
  BY <1>1, <1>2, <1>3, InitInv DEF DInv

\* Slots, filters, the driver and the threads stay in their states, whatever
\* the application does and in whatever order.
THEOREM TypesHold == Spec => []TypeOK
<1>1. Init => IInv /\ DriverTyped
  BY DriverInit DEF DInv
<1>2. IInv /\ DriverTyped /\ [Next]_vars => (IInv /\ DriverTyped)'
  BY NextKeeps, DriverTypedStep DEF IInv
<1>3. IInv /\ DriverTyped => TypeOK
  BY DEF IInv, Typed, FilterTable, Phases, DriverTyped, TypeOK
<1> QED
  BY <1>1, <1>2, <1>3, PTL DEF Spec

LEMMA DriverInv == ASSUME Disciplined PROVE Spec => []DInv
<1>1. ASSUME DInv, [Next]_vars PROVE DInv'
  BY <1>1, NextKeeps, DriverTypedStep, PathsStep, RegisteredFiltersStep, StartedFiltersStep,
     RegisteredChannelsStep, StartedChannelsStep, ServingStep DEF DInv, IInv
<1> QED
  BY <1>1, DriverInit, PTL DEF Spec

LEMMA ServedFilter ==
    ASSUME DInv, cb.pc = "use"
    PROVE  /\ cb.f \in Filters /\ flt[cb.f].st \in {"open", "opening"}
           /\ cb.e \in {cb.f, flt[cb.f].chan}
           /\ cb.upd => flt[cb.f].buf
<1>1. PICK f \in Filters : Serves(f) /\ cb.f = f
  BY DEF DInv, Serving, Serves
<1>2. cb.t \in Tokens
  BY DEF DInv, DriverTyped
<1> QED
  BY <1>1, <1>2, LeadsFacts DEF DInv, Serves

\* If the application starts what it has registered and stops it before it
\* closes it, requestbuf_callback and updatebuf_callback work on a filter that
\* aui_dmx_filter_close has not freed, and the second of them finds the buffer
\* the first has left.
THEOREM CallbacksFindTheirFilter == ASSUME Disciplined PROVE Spec => []CallbackFilterIsThere
<1>1. DInv => CallbackFilterIsThere
  BY ServedFilter, NoneApart DEF CallbackFilterIsThere
<1> QED
  BY <1>1, DriverInv, PTL

\* Under the same order of calls the callback's filter is on the channel, or is
\* the filter, that the driver has called it for.
THEOREM DataStays == ASSUME Disciplined PROVE Spec => []DataStaysOnItsChannel
<1>1. DInv => DataStaysOnItsChannel
  BY ServedFilter DEF DataStaysOnItsChannel
<1> QED
  BY <1>1, DriverInv, PTL

=============================================================================

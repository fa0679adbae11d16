# TLA+ models and proofs for the AUI middleware

AUI is ALi's middleware for set-top boxes: a C library that puts one interface (`src/inc/aui_*.h`)
over the driver libraries of a Linux port (`src/src/linux`, 44,000 lines) and of a TDS (RTOS) port
(`src/src/tds`). Most of its modules turn a call into an ioctl. The state worth modelling is where
several threads meet: buffers between the driver's callbacks and the application, tables of devices
and callback tokens, worker threads that are started and stopped, a player in another process.

The specifications here are written from the Linux sources; a comment on each definition says which
step of which function it is, and `PROJECT.json` gives the lines.

## 1. Inventory

| Part (source) | State it keeps | Operations | Who meets there, and what is hard | What makes it correct | Module |
|---|---|---|---|---|---|
| Ring buffer (`aui_common.c:240-570`) | buffer, `rd`, `wt`, a mutex | init, un_init, reset, rd, wt, lengths | a driver thread writes, an application thread reads; lengths are taken in one critical section and used in another | bytes come out once, in order; no copy over unread or unwritten bytes | `RingBuf`, `BoundedFifo` |
| Device registry (`aui_common.c:580-695`) | a list of handles per module, `all_hdl_initialized` | find, reg, unreg | opens and closes of any threads; the first registrations race | one device per index; no freed handle is linked | `DevRegistry` |
| VBI teletext (`aui_vbi.c`) | `thread_flag`, ring buffer, mutex, condition, write thread | ttx_start, ttx_stop, thread, demux callback | a wait without a re-check, objects destroyed at the stop | the stop returns; nobody uses what is destroyed; data wakes the thread | `VbiTtx` |
| Demux filters (`aui_dmx.c`) | channels, filters, 256 callback tokens | channel and filter open, register, start, stop, close | driver callbacks find a filter through its token while it is being closed | a token leads to its own live filter; closes return | `DmxFilter` |
| Demux sections (`aui_dmx.c:150-262`, `3300-3560`) | the channel's ring buffer as sections | put, overflow, timed gets | overflow reset against a read in progress; short reads | whole sections, each returned once; gets and puts end | `DmxSection` |
| GPIO (`aui_gpio.c`) | shared handles with `open_cnt`, exported pins | open, close, crash | shared handles, closes that fail half-way, pins left by a crash | counts match holders, a device is exported while it is open | `GpioDev` |
| Music player (`aui_music.c`) | `server_info`, two message queues, a receive thread, a monitor, a server process | open, close, start, stop, pause, resume, crash, restart | three threads share flags with no lock; the server dies at any point; the close races the restart | one server at a time; a crash is made good; a close returns; no stale news | `MusicPlayer` |
| Demux stream (`aui_dmx.c:454-559`, `1290-1880`) | `av_started`, four stream channels, section channels, the player of the second CPU | open, close, start, stop, set | streams and sections take channels from one set; a start takes up to four, one at a time, and may fail at each | a start has all its channels or none; no channel is lost or taken from a section | `DmxStream` |
| AV (`aui_av.c`) | a word of opened devices, static decoders, a state per session | init_attr, open, start, stop, close | sessions share devices with each other and with the application; init and close fail half-way | devices go back to who opened them; the last close leaves nothing open | `AvSession` |
| AV injecter (`aui_av_injecter.c`) | decoder handles, shared buffers | injection | buffers shared with the second CPU | no byte is lost | planned |
| PVR (`aui_pvr.c`) | a table of callbacks, an event queue, tasks, a mutex | init, deinit, open, close, speed, the library's events, replay | threads of an external library look in a table that nothing locks; the event task closes and opens the player by itself | an event reaches the session it is about; a replay is alone with the player | `Pvr` |
| Descrambler (`aui_dsc.c`) | a list of keys per device, `dsc_mutex` | open, close, attach, detach, crypt | one function of 420 lines with 16 ways out that unlocks the mutex in its middle and calls itself | the attached key is in force; the driver holds no others; the mutex excludes and comes back | `DscKeys` |
| HDMI, NIM, SMC, KL, input, PVR back ends | handles, callback pointers | open, close, register, set, get | driver callbacks against closes and changes of the callback | a callback finds a live handle | planned |
| decv, deca, snd, dis, gfx, stc, tsi, tsg, uart, i2c, panel, rtc, dog, otp, trng, misc, cic, conaxvsc, mp, log, flash | little beyond an open handle | ioctls | - | their opens and closes follow `DevRegistry` | none |
| TDS port | the same interfaces on the RTOS | | tasks and semaphores of `aui_os.c` | | planned: `aui_os` |

How parts meet: the demux's driver thread calls `requestbuf_callback` and `updatebuf_callback`, which
find the filter by its token (`DmxFilter`) and put sections into the channel's ring buffer
(`DmxSection` over `RingBuf`). The same buffer carries teletext lines from the demux callback to the
write thread of `VbiTtx`. All opens and closes go through `DevRegistry`; GPIO adds counts to it
(`GpioDev`). A playback session of `aui_av.c` opens the demux, the decoders and the stream router and starts the demux's
stream; section channels compete with the stream for the driver's channels (`AvSession` over `DmxStream`). The music player has its own threads and talks to another process over message queues.

The full list of what is hard to test, each at its line, is `"hazards"` in `PROJECT.json`.

## 2. What each module models

**RingBuf** (`aui_common_init_ring_buf` ... `aui_common_ring_buf_wt`). `buf`, `rd`, `wt` are the
structure's fields; a thread's `pc` separates the critical sections of one call: `RdCheck` and
`WtCheck` the checks of arguments, `RdLen`, `WtLen`, `WtRoom` the length each asks for, `RdCopy`,
`WtCopy` the copy. `InitRing`, `UnInitRing`, `Rst` are the others. `BoundedFifo` is what callers rely on:
a queue of at most `Size - 1` bytes; `RefinesFifo` maps `Contents` to its queue.

**DevRegistry** has one action per step that another thread can see of find, register, unregister and
free. `FindsFirst` says whether the module looks for a registered device before it makes one.
`Booted` says whether the lists have been initialised before threads race.

**VbiTtx** splits start, stop, the write thread and the demux callback at each lock, unlock, flag and
wait. Its buffer counts lines. `ThrSpurious` is the wake-up POSIX allows.

**DmxFilter** has one action per step of channel and filter open, registration, start, stop and close,
and the callback as check of the token's status (`CbCheck`), the fetch of the filter from the token
(`CbFetch`, without the mutex) and its use (`CbRequest`, `CbUpdate`).

**DmxSection** keeps the bytes of the buffer as parts of numbered sections, so that a read that is out of
step is visible. `PutRoom`...`PutReset` are `aui_dmx_put_data_to_rbuf` with
`aui_dmx_rpt_overflow`; `GetStatus`...`GetCopy` the two synchronous gets, which differ in what they ask
for (one section, or all that is there). With or without an overflow callback is chosen in `Init`.

**GpioDev**: open and close hold `m_gpio_mutex` throughout, so each is one action per outcome. `exported`
is the kernel's and survives `Crash`. A structure whose close has failed is in `hurt`.

**MusicPlayer**: `info` is `server_info` with the send queue and the playing state; `app`, `rcv`, `mon` are the
three threads; `proc` is the state of each process launched. `OpenPrepare` (queues, thread), `OpenLaunch`
(`killall`, `vfork`), `OpenDone` and `OpenTimeout` are `aui_music_open`; `CloseBegin`, `CloseCancel`, `CloseKill`,
`CloseJoin` are `aui_music_close`; `MonReap`...`MonSettle` are one turn of `monitor_child_crashed_thread`, with the
process launched (`MonFork`) a step before its id is stored (`MonAssign`); `RcvOpened` and `RcvGetQueue` are
the two assignments of the OPEN response. The server is modelled from the messages it exchanges.

**Pvr**: `table` is `p_st_pvr_handle`, `engine` what the library has open, `lib` its thread for each handle
(`Announce`, `CallBack`: looks a slot up, then calls it), `queue` and `live` the event queue and the tasks that read it.
An open is `OpenCall`, `Find` and `Write` in the table, `SetUserData`, `EngineOpen`; a close is `CloseCall`, `EngineClose`,
`UnregisterCallback`, `CloseReturns`. `EndOfRecording` is the message of the library's callback, `Receive` to `Notify` the replay
in the task: lock, close, open, play, unlock. The application's calls and the task's replay use the same actions for the open
and the close, as the code does. `opens` numbers the sessions, so that an event of one that reaches another is seen.

**DmxStream** has no variables: each operation is an operator on the record of a demux, and one that may fail is the set of its outcomes.
`StreamStart` is `aui_dmx_av_stream_start` with its labelled roll-backs, `StreamStop`, `DisableAudio`, `DisableVideo`, `Create` the rest of
`aui_dmx_set`. **AvSession** keeps that record in a variable next to the devices, the marks (`aui_av_open_device`), the static decoders
and the sessions; `InitAttr`, `Open`, `Start`, `Stop`, `Close` and their failing forms are the functions of `aui_av.c`.

**DscKeys**: `key_list`, `key_type` and `mutex` are the code's; `drv` is the key behind each handle of the driver. An attach
starts with `Attach`, locks (`Lock`) and is then one of `Create`, `UpdateKl`, `ChangeKl`, `UpdateClear`, `UpdateOtp` or, between a clear key and a
ladder's key, `Exchange`, which gives the mutex back and starts over; `GoOn`, `Relock` and `DeleteOld` are what the outer call does after the inner.
One direction of the exchange locks again and the other does not: `slipped` remembers the second.

## 3. Runs

| Run | Instance | What it shows |
|---|---|---|
| `ringbuf_spsc` | buffer of 4, requests up to 2, one reader that also resets, one writer | positions, no overrun, a bounded FIFO |
| `vbi_live` | 3 lines, 2 per session | every user finds its objects, no thread is left between sessions, a signal that finds the thread waiting is served, also the stop's |
| `vbi_stop_hangs` | violation of `StopReturns` | a stop whose signal falls before the wait never returns |
| `registry` | 3 threads, 3 handles, 2 indices | one device per index, no freed handle in the list |
| `dmx_samples` | 2 threads, a section channel and a record channel, 2 filters, 2 tokens, failing opens | tokens, filters and callbacks match; used slots have filters; closes return |
| `dmx_section` | buffer for 5 parts, sections of 2 and 3, 5 sections | whole sections once each, in step, gets and puts end |
| `gpio_shared` | 3 threads, 2 pins, 3 structures, crashes, failing closes | counts, handles, list and kernel agree |
| `music_crashes` | 3 launches, 2 crashes, queues of 1 | one server, source before play, no stale mail, the close returns, a dead server is replaced |
| `music_reopen` | 2 launches; violation of `AnsweredOpenSucceeds` | after one timed-out open no open succeeds |
| `pvr_sessions` | 1 recorder, 1 player, 2 opens, 2 tasks (a second init), both start modes, a queue of 1 | sessions keep their slot, events reach their session, a replay is alone with the player, the mutex comes back |
| `av` | 2 sessions, 3 driver channels, 1 section channel, programs of three, one and no streams | devices go back to their owners, no stream channel is lost, taken or half started |
| `dsc_keys` | a TS device with 2 PIDs and a RAW device, 2 ladder keys, 2 clear keys, 1 OTP key, 3 handles | attached keys are in force and no others, one mutex for both devices |

The bounds are chosen so that each boundary is met: the ring buffer wraps inside a request and fills; two filters contend for two
tokens and a token is used again; three threads let one open, one close and one share at
a time; five sections of two lengths overflow a buffer that holds at most two of them; three launches are one
by open, one by the monitor in the window of a close and one by the next open, which is the shortest
history in which two servers could meet; three handles let an exchange hold its old and new key beside the key of the other PID;
three driver channels are one less than a program with description and a section ask for. The real sizes (128 KB and 32 KB buffers, 256 tokens) are the
same code with the same comparisons. Where the behaviour really ends (`DmxSection` when all sections have been
sent, `MusicPlayer` when no process is left) deadlock is not checked.

The type invariant of `DevRegistry` is a conjunct of the inductive invariant proved below, and no run repeats it.
Each run states few properties: related ones are conjuncts of one, as the whole sections of `DmxSection` with their order and the step of the buffer.

A property of a run is broken by a mutant of the module that is a plausible mistake in the code; the definitions marked
`mutant` are used for nothing else.

### Fairness
- `VbiTtx`: weak fairness of each thread inside a call. A step inside a call is always
  enabled unless it waits for a mutex, a signal or a join, so this says only that threads are scheduled.
  No fairness lets the application call or the driver deliver.
- `DmxFilter`: the same for calls and for a callback that has begun; the application owes no call.
- `DmxSection`: strong fairness of the put's and the get's steps, since each takes and gives back the mutex the
  other needs and a pthread mutex serves a waiting thread in the end; weak fairness of `Tick`, the clock.
- `MusicPlayer`: weak fairness of the receive thread, of the monitor and of an operation that has begun; none of
  the server, which may die or never answer.

### Assumptions on what is not in the repository
- Driver: disabling or freeing a channel or filter waits for a callback in flight, and a channel calls back only with
  the slot it was given (`Quiet`, `Delivers`).
- Callers (`Disciplined`): as `samples/sample_src/aui_dmx_test.c` does, a filter is stopped before it is
  closed, a record channel has one filter, two threads do not work on one channel at a time.
- `event_cb` of `DmxSection` returns. `ResetsMeetReads = FALSE`: overflows fall between reads.
- `Pvr`: a synchronous close of the library waits for the callback of that handle; encryption events and events for all
  handles are left out. An application that changes the speed from within a callback of the library could wait for itself: not modelled.
- `AvSession`: one program at a time; elementary streams in one session, or audio and video in one each; the application uses the
  demux's stream only while no session plays a program, and disables it after a refused start.
- `DscKeys`: one thread per device; a PID is attached always with the same others; a device on which a step has failed half-way is closed
  before it is used again (`Sound`), because nothing is claimed of it.
- `GpioDev` stops at a handle that has been freed under its holder: what follows is undefined.
- `MusicPlayer`: one application thread, as the API has no locks; `resume` after `start` and `pause`; SIGKILL takes effect
  at once; a receive thread that runs takes a waiting message within ten seconds; `vfork` in open succeeds.

## 4. Proofs

TLC checks the instances above; TLAPS proves the following for every value of the constants.

- `Common_proofs!SingleEndedIsSafe`: with one reader and one writer, `NoOverrun` for every size of buffer and
  request. `NoOverrun` alone is not inductive: `SeenIsUpperBound` adds that a length a thread has
  taken can only be overtaken in its favour, because a reader only shrinks and a writer only grows the contents and a reset,
  which the writing side never does while the other acts on its length, only makes room.
  `PositionsStayInside` is `TypeOK` without that hypothesis, for any threads that write, read and reset.
  `RingIsFifo` is the refinement: under the hypotheses of the first, `Contents` starts empty and every critical section is an
  append, a removal from the front, a clear or a stutter of `BoundedFifo`.
- `Common_proofs!RegistryUnique`, `RegistryAllocated`: for every set of threads, handles and
  indices, with and without the race of the first registrations. `Owned` and `PrivateIsUnlisted` say that a structure between its
  allocation and its registration belongs to one thread and is in no list. (One module has the proofs about `aui_common.c` and teletext,
  which is built on both of its parts, and extends their three modules; hence the prefixes `Reg` and `Ttx` of what they all define.)
- `Common_proofs!TtxTypesHold`, `TtxObjectsAreThere`: for any capacity and length of packet. `OneSession` says between which statements of
  a start and its stop the ring buffer, the mutex, the write thread and the callback exist.
- `DmxSection_proofs!TypesHold`, `SectionsStayWhole`: for any buffer, lengths, number of sections and tries, where no overflow falls into a
  read (`~ResetsMeetReads`; else both are false). `Whole` tells what follows each cell, which cannot be cut and joined without an induction over the
  cells; `Parts` tells of each cell the whole section it is in, by its position. `PartsAppended`, `PartsTaken` and `PartsLeft` are the
  write and the two halves a read leaves, `MemoryAppended` and `MemoryTaken` say that the copies round the end of the memory do just that. The length a
  read has found ends a section, and goes on doing so while sections are put behind it (`Getting`); what was found to fit still fits (`Putting`).
- `MusicPlayer_proofs!NoTwoServers`, `ClosedLeavesRestarts`: for any number of launches and crashes. From its
  creation to its end the monitor knows the only process that can be alive (`AliveIsKnown`), and open, the other place that
  launches, runs while no monitor exists (`MonitorWhileOpen`). For what outlives a close, `MonitorsServer` adds that a process
  whose id is not stored yet was launched by the monitor; the kill takes all others.
  `TypesHold`, `SourceComesFirst`, `MailIsFresh` follow from `QInv`, which adds the two queues: among the commands that wait for a server launched
  by open no play comes before a source (`Commanded`), and what waits for the receiver was sent by the present server or one that
  outlived a close (`Mail`).
- `DscKeys_proofs!SerialAccessHolds`: for any devices, keys, handles and failures of the driver. `LockInv` says that a
  thread inside holds the mutex unless one has slipped, and that the mutex is held only from inside; the second makes it inductive
  when a slipped thread unlocks what another has locked.
  `TypesHold`, `AttachedIsInForce`, `DriverHoldsTheKeys`: for any devices, PIDs, keys and numbers. `KeysInv` says, until a step fails
  half-way (`spoiled`), that a list has at most one key of a PID that is not the OTP's, in front of one that is (`Stacked`); that the driver
  holds the numbers in the list and the key an exchange holds apart (`Books`, `Pending`); and that inside an exchange the list
  has no key of the PID but one of the OTP (`OtpOnly`, `Exempt`), so that the inner call can only create. What is wanted is then in force for
  all PIDs but the one being changed.
- `GpioDev_proofs!CountsHold`, `ListHolds`, `TypesHold`: for any pins and memory and any finite set of threads (the only assumption, since
  holders are counted). `Counted` says that all memory no close has failed on, listed or not, has its holders counted;
  `ListedIsLive` adds that what is not live counts nothing, so that a close that finds a count of one takes down a listed device.
- `AvSession_proofs!MarksHold`, `ClosesLeaveNothing`, `DecodersStay`: for any sessions, programs and channels; what the demux
  does in between does not matter. `OneProgram` is the applications' rule that a program session is alone and that elementary
  stream sessions share no decoder; `MarksOfTheProgram` adds that, while nothing has failed, what is open is
  marked and the live program session needs all of it, hence its close takes all.
  `TypesHold`, `SectionsKeepTheirChannels`, `StreamsKeepTheirChannels` are about that demux: each operator of `DmxStream` takes a sound record to a
  sound record (its labelled roll-backs one lemma each), and a start allocates only channels that are free.
- `DmxFilter_proofs!FiltersOwnTokens`, `TypesHold`: for any threads, channels, filters and slots, whether or not the application keeps the
  order of the samples and whichever opens fail. A written slot leads to its filter (`Owned`), so two filters cannot have one
  slot; `Private` says that a slot marked `TOKEN_PRE_USED` belongs to one call at most, `InStep` what filter and slot are at each
  step of a call, and `UsedLeads` that a used slot other than 0 leads to a filter that is open or just being closed.
- `DmxFilter_proofs!CallbacksFindTheirFilter`, `DataStays`: assume `Disciplined`, that the application stops what it closes; without it both
  are false. `DInv` adds the driver: what is enabled in it is a filter that is linked and open, the slot it was given is that
  filter's, and while a callback is in flight the driver's wait keeps filter and slot from being taken down.
- `Pvr_proofs!TypesHold`, `ReplaysExclude`, `SessionsStayRegistered`, `EventsReachOwners`: for any recorders, opens, event tasks and lengths of the
  queue, and the one player that `aui_pvr_init` allows (`aui_pvr.c:426`, in `ConstantsAssumption`; with two, the open of a replay may get the
  other player, and `Registered` is false). `RInv` says which step an actor can be at and that the mutex is held by just the task in
  a replay or the change of speed. `Books` says that sessions are numbered apart and what is open where. While no
  replay has met a call of the application, `Undisturbed` holds: one actor works on the table at a time, each handle has one slot at most (and there are as
  many slots as handles, so a search that finds none finds a free one: the pigeonhole principle), a slot that is in use is
  written by no open of another handle, and a replay carries the callback and user data it will put back. A session nobody shuts therefore
  has its slot (`Settled`), and what the library's thread has found stays until it is called (`Tells`).

Every invariant the runs check is a theorem. Only model-checked are the liveness properties: fairness and ENABLED are outside the prover.

## 5. Disagreements met while modelling

Each is a `violation` run with its counterexample:

1. `aui_vbi.c:86`: the stop's signal can be lost and `pthread_join` blocks (`vbi_stop_hangs`).
2. `aui_music.c:933`: the flag set by a timed-out open is never cleared (`music_reopen`).

Others, without a run of their own, are in the models, the hazards or here: two first registrations that both find `all_hdl_initialized` clear empty
the lists twice, under a device already linked (`aui_common.c:627`, reachable in `DevRegistry`); a demux callback acts on a status read under a mutex
it has released, and a record filter closed while its channel runs is reached (`aui_dmx.c:285`, `Disciplined`); an overflow inside a get gives parts of
sections with success (`aui_dmx.c:258`, `ResetsMeetReads`); a queued end of a recording replays into a player that was closed meanwhile (`aui_pvr.c:167`); a start
of the stream that was refused keeps the numbers of the channels it has freed (`aui_dmx.c:1664`); a failed `aui_av_init_attr` leaves devices that the next close
of any session takes for its own or forgets (`aui_av.c:508`); an exchange of a ladder's key for a clear one goes on without `dsc_mutex` and unlocks it at the end, and
`aui_dsc_deattach_key_by_pid` takes no mutex at all, where `aui_dsc.c:12` promises serial access; a clear key is not written when the key created last was of another
type, and the call succeeds (`aui_dsc.c:883`); a change of ladder whose PIDs are refused returns success (`aui_dsc.c:570`); `aui_dsc_encrypt` asks an empty
list for its single entry (`aui_dsc.c:972`); the write thread's flag says RUN before its mutex is initialised (`aui_vbi.c:399`);
a start of teletext that fails leaves the demux open (`aui_vbi.c:358`); interrupts of GPIO change the handle without its mutex (`aui_gpio.c:329`);
slot 0 lost at a second registration (`aui_dmx.c:3126`, left out of
`FilterOwnsToken`); a GPIO close that failed and is tried again reports success (`aui_gpio.c:596`, `hurt`); a ring buffer read that finds too little
copies nothing and returns success (`aui_common.c:454`); `b_is_src_set` outlives a crashed server, so
a start plays without a source (`aui_music.c:1012`, `SourceBeforePlay` is limited to servers that were not restarted); a server launched during a close survives it
(`OnlyRestartsOutlive` is limited the same way); `aui_music_open` clears the pointer `stream_info` where the structure was
meant (`aui_music.c:871`), so every getter works on NULL, and `playing_info->cur_state` becomes PLAYING only in builds with `_RD_DEBUG_` (`aui_music.c:756`).

## 6. Not modelled, and the plan

Not modelled: the modules that turn a call into an ioctl (last rows of the inventory), where there is no control to check; the back ends of PVR
encryption and `vmx`, `mp`, which are calls of vendor libraries; `gfx`, `dis` and `snd`, which are data. The interfaces under `src/inc` and the samples are
declarations and programs that call them.

Twelve runs are kept in all, so a new module takes the place of a violation run whose finding is stable.
In the order of how much is at stake where threads meet:

1. Done: `RingBuf`/`BoundedFifo`, `DevRegistry`, `VbiTtx`, `DmxFilter`, `DmxSection`, `GpioDev`, `MusicPlayer`, `Pvr`,
   `DmxStream`/`AvSession`, `DscKeys`.
2. `AvInjecter`: writers, decoders and buffers of `aui_av_injecter.c`; conservation of the bytes injected.
3. `CallbackSlot`: the shape HDMI, NIM and SMC share, a driver thread that reads a callback pointer while it is
   changed or its handle closed, instantiated by a module for each; GPIO interrupts with it.
4. `AuiOs`: tasks, semaphores and message queues of the TDS port. `Input`: the key thread.
5. `Kl`: legal orders of key ladder calls.

Theorems next: what survives in `Pvr` when a replay does meet a call of the application; what survives in `DmxSection` when an overflow falls into a read.

# koalaStreamer in TLA+

koalaStreamer captures a camera and a microphone, encodes both streams and
sends them to an RTMP server (or any other output of libavformat). It is a
small C and C++ program with five to seven threads that meet in queues, in a
stack of recycled frame descriptors and in a few status words. What can go
wrong in it is mostly a matter of order: who still uses what when somebody
stops, fails, cleans a queue or frees a handle. This directory models that.

Paths below are relative to the repository.

## 1. The system

### Components

| component | code | state | operations |
|---|---|---|---|
| frame queue | `utils/mediaThread.cpp` 11-99, `utils/StreamerStack.h` 54-118 | ring (`mData`, `mHeader`, `mTail`, `mSize`), mutex, two condition variables | `enqueue`, `dequeue`, `getSize`, `clean`, `cleanIf` |
| encoder thread | `utils/mediaThread.cpp` 101-196, `MacRTMPStreamer.cpp` 22-229 | `mStatus`, codec context, `mPCMBuffer` | `start`, `pause`, `stop`, `run`/`func`/`deal` |
| descriptors and pool | `utils/mediaFrame.c`, `utils/StreamerStack.h` 10-51 | a stack of free `mediaFrame`s; per frame a packet and a release callback | `getMediaFrame`, `putMediaFrame`, `mediaFrameRelease` |
| device reader, callbacks | `MacRTMPStreamer.cpp` 231-500 | `streamer_cont`, above all `stop` | `ff_read_devices`, `audio_callback`, `video_callback`, `myCleanQueueV`, `myCleanQueueA`, `ReleasePkt` |
| main | `MacRTMPStreamer.cpp` 503-578 | | start-up, key loop, shutdown |
| session | `MediaStreamer.c` | `status`, `listener`, `prepare_thread` | `prepare`, `start`, `stop`, `release`, `setListener` |
| muxer facade and delegate | `MediaMuxer/MediaMuxer.c`, `MediaMuxer/KoalaMuxer.c` | `pDelcnt`, the list of options | `muxer_open`, `prepare`, `start`, `end`, `close`, `setopt` |
| muxer | `KoalaPlayer/src/koala_muxer.c` | `oc`, `end`, `mux_id`, `first_pts`, `last_*_pts`, two mutexes | `init_open`, `start`, `end`, `close`, `mux_thread`, `write_frame` |
| statistician | `streamStatistician.c` | counters and times per stream | `addStream`, `onFrameBegin`, `onFrameEnd`, queries, `reset` |
| logger | `utils/logger.c`, the callbacks in `MediaMuxer/KoalaMuxer.c` and `KoalaPlayer/src/koala_common.c` | a mutex, a level, two static buffers | `_log_print`, `koala_log`, `log_back`, `log_set_level` |
| ffmpeg glue | the rest of `koala_common.c`, `koala_type.h` | tables | registration, conversion of codec and format names |

### Threads and how they interact

    reader --pYUVQueue--> video encoder --pVEQueue--+
       \                                             +--> mux thread --> network
        \---pPCMQueue--> audio encoder --pAEQueue---+
    every thread <--> pFrameStack (free descriptors)
    reader --cleanIf--> pVEQueue, pAEQueue when they grow
    main --mediaStreamer_prepare--> prepare thread --koala_muxer_start--> mux thread
    prepare thread, mux thread --events--> listener --> stop --> reader, callbacks, main

* A frame descriptor is taken from the stack (or allocated), given a packet and
  a release callback, passed through a queue, and given back by whoever
  releases it. There is no reference count: the discipline is the protection.
* Queue waits last at most 10 ms; `enqueue` on a full queue gives up with
  `-ETIMEDOUT`, `dequeue` on an empty one returns `NULL`.
* `mediaStreamer_prepare` opens the output on a thread of its own, which then
  starts the mux thread. `mediaStreamer_stop` joins the first, sets `end`, joins
  the second with `apiMutex` held, and closes the muxer.
* Muxer events pass `koala_muxer.listenerMutex` and then
  `mediaStreamer.listenerMutex`; the session's own `Notify` takes neither.

### Hard behaviours

Interleavings of all these threads; waits that end early and are not checked
again; a size read without the mutex and used later; recycling; stopping
threads that are blocked; an output that fails or blocks at any time; status
words written by one thread and tested by another; events against listener
changes and against the end of the session. `PROJECT.json` lists each at its
line under `hazards`, with the properties that are about it.

### What makes each component correct

* queue: a bounded FIFO of distinct frames; no lost wake-up; no accepted frame
  lost; after a clean the muxer gets a key frame first, unless the clean emptied the
  queue, where the code asks nobody for one.
* pipeline: each descriptor has one owner and a fitting release callback;
  packets stay in order; nothing is stranded by a stop; the encoder does not
  depend on the network; a stop returns.
* session: the context outlives the mux thread; a stop leaves nothing behind, and
  returns unless a connection attempt never ends; the status moves forward; events are consistent and reach a
  registered listener.
* shutdown: the reader and the mux thread may meet deleted queues and encoders (a raw
  queue only the reader), the prepare thread a deleted encoder that it asks for the extra
  data, and main one through which it frees what is left in an ES queue; an encoder
  thread meets nothing, and the session, the device, the stack and `streamer_cont` go
  last, though the prepare thread of a failed session is not waited for. The process ends,
  unless a connection attempt never does, the device delivers nothing more, or a thread
  hangs in a deleted object.
* options: one value for each name; every block is freed once; the prepare
  thread applies what was set before it looked.
* time stamps: both streams keep one origin, a stream's never go back, the streams stay
  interleaved, and no stream that has frames waits for the other for good - if the first
  dts of all is not negative. If it is, the origin moves and a stream's stamps do go
  back: video at -1, then audio at 2, which becomes the origin, then video at 0, which is
  written as -2.
* PCM buffer: it is never overrun by packets that fit; no byte is lost; the muxer gets
  stamps that rise by whole buffers.
* logger: one initialisation, whole lines, a level that holds, no lock left.
* statistics: nothing is lost or counted twice; the factor is a share of the
  time; nothing is read before it is initialised.

## 2. The modules

| module | models | kind |
|---|---|---|
| `FrameFifo` | what a queue promises: a bounded FIFO of distinct frames that leave from the front | abstract specification |
| `MediaFrameQueue` | `mediaFrameQueue` over `StreamerFiFo`, with its condition variables | component, refines `FrameFifo` |
| `VideoGaps` | what cleans of the video queue mean for the muxer, beside `MediaFrameQueue` | extension by a history variable |
| `MediaFrameQueueProofs` | theorems about these two | proofs |
| `KoalaMuxer` | operations of `koala_muxer.c`, by the thread that calls them | component |
| `StreamerSession` | `MediaStreamer.c` with `KoalaMuxer` below it and the part of `main` that drives it | composition |
| `StreamerSessionProofs` | theorems about it | proofs |
| `FramePipeline` | reader, encoder, mux callback and stack around the queues, for one stream | composition |
| `FramePipelineProofs` | theorems about it | proofs |
| `Statistician` | `streamStatistician.c` and the three threads that call it | component |
| `StatisticianProofs` | theorems about it | proofs |
| `AppShutdown` | the lives of the objects that the threads share, and the end of `main` | composition |
| `AppShutdownProofs` | theorems about it | proofs |
| `OptionMap` | what a list of options promises: one value for each name | abstract specification |
| `MuxerOptions` | the option list of `MediaMuxer.c` between two threads | component, refines `OptionMap` |
| `MuxerOptionsProofs` | theorems about it | proofs |
| `MuxTimestamps` | the choice of the stream and the stamps in `mux_thread` and `write_frame` | component |
| `PcmBuffer` | `mPCMBuffer` of the audio encoder | component |
| `AudioPath` | the audio stamps from `PcmBuffer` through the codec to `MuxTimestamps` | composition, implements `MuxTimestamps` |
| `AudioPathProofs` | theorems about these three | proofs |
| `Logger` | `_log_print` and the three ways to it | component |
| `LoggerProofs` | theorems about it | proofs |
| `MC` and a module's name | its instance for TLC (`MCVideoGaps` is the queue's) | model checking |

Names follow the code (also its spelling: `peak`, `Runing`, `stoped`).
A definition named `X_slip...` is `X` with a plausible bug. Nothing uses these;
`PROJECT.json` pairs each with the property that notices it when it takes the
place of `X`.

### MediaFrameQueue

State: the four fields of the ring; `pc` (what a thread does in its call);
`held` (the argument of a blocked `enqueue`); `lost`, a history variable. An
operation holds the mutex from entry to return except in
`pthread_cond_timedwait`, so the part before the wait is one action (`Enqueue`,
`Dequeue`), the part after it another (`EnqueueResume`, `DequeueResume`). A
wait ends with a signal, a timeout (`TimedOut`, which may swallow a signal, as
POSIX allows), or early: spuriously, or with `EINVAL` since
`make_abstime_latems` tests `> 1000000000` and so builds a malformed deadline
when 10 ms from now is a whole second (`DeadlineNsec`). The code distinguishes
only `ETIMEDOUT` and so does the model. `CheckSize` reads the size without the
mutex, `CleanIf` runs later. The callbacks are the parameter `Policy`.

### VideoGaps

`MediaFrameQueue` with one more variable, `gap`: whether the muxer is to get a frame
behind others that a clean threw away, and whether that clean stopped at a frame
(`"key"`) or emptied the queue (`"open"`). Taking a key frame ends a gap. Nothing
depends on `gap`, so the behaviours are those of `MediaFrameQueue`: the muxer takes frames
and the encoder adds some between the look at the size and the clean.
`GapEndsAtKeyFrame` is about the gaps that stop at a frame; of an open one nothing
good can be said.

### KoalaMuxer and StreamerSession

`pc[t]` is where each of three threads is: `api` (main), `prep`, `mux`. An
action ends where the thread may block or where another thread may see a
difference: at a mutex, a join, the network. `sendEvent` and `Notify` are
procedures with a place to go on at. What libav does is a choice: no context,
any of the failures that go to `fail`, success; a write that succeeds, fails
with one of the three reported errors, or with another. Where `ret` is
uninitialised when it is sent as an event (`koala_muxer.c` 157 and 280), the
event has any code. Which stream is taken next depends on time stamps and is
open. `Notify` reads `listener` twice, so it is two actions, and a process that
calls a listener that is gone, or notifies a session that is freed, may crash
(`NotifyCall`, `NotifyFreed`).

The interface would allow more than `main` does with it. `main` prepares once
and registers its listener before; the listener is also modelled with up to
`ListenerChanges` changes, because the interface has a mutex for just that.

### FramePipeline

One stream with its two queues at the level of `FrameFifo` plus what
`enqueue`'s early return loses (`EncoderLoses`; the reader loses a frame on every
timeout as well, since it ignores the result: `ReaderEnqueue`). `mediaFrame[d]`
is the packet in descriptor `d` and its release callback; a packet is the number
under which it was captured. `Unallocated` is what `malloc` may return. The codec
takes packets and gives one for one or for several of them (audio is collected
into one packet), may hold back `EncoderDelay`, and may fail. `ReadOther` is a
packet of no stream; it also stands for a second stream's use of the stack
between two steps of this one. The mux thread writes, fails or blocks at any
time. The model ends when `main`'s first join returns: what follows is in
`AppShutdown`.

### Statistician

`streamers[i]` is the C struct of slot `i`; its `type` is `"NULL"` before the
`malloc` and `"raw"` between it and the `memset`. There is no mutex, so the mux
thread's load and its store of a counter are steps: `frames++` is `EndLoad` and
`EndStore`, `wait_ms += delayTimeMs` is `WaitLoad` and `WaitStore`; and `reset` goes
slot by slot through `ResetAdd` (frames), `ResetAddWait`, `ResetClear` and `ResetStart`,
with the mux thread between any two of them. That is how a
64-bit build treats these counters; the program itself has a data race there.
Some accesses are taken together. `size` goes the way of `frames` and `wait_times` that of
`wait_ms`, and they are left out. main's load of a counter and its addition to `total` are one
step, since nobody else has `total`. `FactorAdd` loads a stream's `wait_ms` and `start_time`
at once: under it `start_time` changes only before the first frame, when there are no waits.
`BeginPeriod` tests and sets `start_time` at once: only a reset could come between, and
one that runs during a frame is what `midFrame` excepts.
`main` asks for the factor, then for both bit rates, then resets, as on its key
`i`, at any time after it has called prepare. The clock ticks at any point.
`counted`, `met` and `midFrame` are history: no guard reads them.
(`total` is written by `reset` and read by nobody; the code has no query for it.)

### AppShutdown

All threads of the application at the level of which object they touch. `alive`
is what exists; every step names the objects it uses (`Step`), and a use of one
that is deleted, or was never made, is in `invalid` until the next step. After
it the process may crash (`Crash`), the thread may stay there for ever (`Hang`: a mutex
or a condition that is destroyed), or the step has gone on as if the memory were
what it was: all three are outcomes of using freed memory. `koala_muxer_init_open`
fails at each of its stages (`InitOpenFails`: before the meta data, at them, at the
connection or the header) and sends an event, by which main may be stopped before the
status is set (`PrepFailed`). The mux thread looks at `end` after it has served a stream
(`MuxCheck`), not before. An ES queue is empty or
not (`filled`), and the frame in a thread's hand is the thread's place;
`FramePipeline` and `StreamerSession` have the detail. The device has any of the
two streams (`found`). `destroyMediaThread` goes stream by stream: `StopEncoder`,
`JoinEncoder`, `DeleteEncoder`, `DeleteRaw`, `DeleteEs`.

Two things the model shows need no race. The destructor of an ES queue gives its
frames back through the encoder deleted just before it. And a device with one
kind of stream makes the prepare thread follow null pointers of the other.

### MuxerOptions

The list from its tail to its head, so that a new option, which the code puts
first, is appended. Replacing a value is two steps, `SetFree` and `SetStore`, for
the prepare thread may walk past between them: then it reads freed memory, and either
goes on with what is there (`Garbage`) or crashes (`ReadFreedValue`). Keys have two spellings, since they are compared with
`strcasecmp`. `ReleaseNode` frees a node and then reads its `next`; the read may
crash (`ReadFreedNext`). `blocks` counts memory. `OptionMap` describes the
application's side: a value that is being replaced has its new value from the
moment the old one is freed; `Asked` is the call of `setopt` that is under way.

### MuxTimestamps

The loop of `KoalaMuxer` again, without its locks and events but with the choice
of the stream (`Selected`) and the stamps: `first_pts`, which a negative dts does
not set for good (`Origin`), what is subtracted (`Shift`), `last_pts`, and the
container's units (`Rescale`). `req_i_frame` is never set in this code, so no frame is
dropped. Frames have rising dts; audio has pts = dts, as the encoders make them.

### PcmBuffer

The device's bytes are numbered, so that buffer, packet and frame are intervals
and a lost byte shows. `overrun` is a `memcpy` past the end; anything may follow
it, and the model ends. The device's packets have one size, which is any of
`PacketSizes`. `Collect` is a packet that does not fill the buffer, `Encode` one
that does.

### AudioPath

`MuxTimestamps` takes its frames from anywhere: a stream's dts rise by some
`Steps`. `AudioPath` puts the audio encoder before it. `EncodeFrame` is `Encode`
together with what `avcodec_encode_audio2` does: it takes the frame or fails, holds
any number of frames in `codec`, and gives a packet (`got`) or none. A packet has the
stamp of its frame less `Priming`, which may be the reason for a negative first
dts, and reaches the muxer or is lost in a queue that is full or cleaned. The video
stream and the mux thread take their steps as in `MuxTimestamps`. `FeedsMux` says
that the whole is still a behaviour of `MuxTimestamps`.

### Logger

Three scales of levels (`LOG`, `KOALA`, `AV`) and three ways in: the `LOG` macros,
`koala_log`, and libav's messages through `log_back`, whose static line is filled
in two steps without a mutex. `_log_print` is `Filter`, `Check`, `InitMutex`,
`InitLevel`, `Lock`, `Format`, `PrintLine`, `Unlock`; a line is the sequence of the
threads that wrote its parts. `app` says whether this is the application, whose
main logs before there is another thread and where nobody sets the level, or
another program around the library. `raced`, `overlapped` and `asked` are history.

## 3. The runs

| run | instance | what it asks |
|---|---|---|
| `queue_video` | capacity 3, 5 frames of which 2 key frames, 1 producer, 1 consumer, 1 cleaner, clock values around the edge | one place per frame, wake-ups, lost frames, what comes after a clean, refinement of `FrameFifo`, accepted frames leave |
| `session` | 2 streams, 2 listener changes, an open that may fail | who outlives whom, events, the listener, and that stop terminates unless a connection attempt never does |
| `session_finished` | 2 streams, listener fixed | violated: a stream ends only when it is finished |
| `pipeline` | 4 descriptors, raw queue 2, ES queue 2, stack 1, 3 packets, pause allowed | where descriptors and packets go, and progress while the network blocks |
| `statistics_periods` | 2 slots, 3 frames, 3 clock values | the counters against resets at any time |
| `statistics_share` | the same | violated: the factor is a share |
| `shutdown` | each set of streams the device may have | who meets deleted objects, and when the process ends |
| `options` | 2 names in 2 spellings, 3 strings, 3 calls | one value per name, memory, what the walk applies |
| `logger` | 2 threads, 3 messages, the application and another program | initialisation, lines, level, and that who logs returns |
| `logger_level` | the same | violated: a debug message arrives as one |
| `timestamps` | 4 frames of each stream, first dts -1, 0 or 2, steps of 1 or 3, pts up to 2 later, 2 units in the container's | one origin, order, interleaving, no starvation |
| `audio_path` | buffer of 6, packets of 1 to 7, 18 bytes, a priming of 1, video starting anywhere from -1 to 18 | when the buffer overruns, and that what the codec passes on implements `MuxTimestamps` |

Bounds, and why they are enough. The ring wraps several times with capacity 3 and
more frames than slots; a clean can remove none but the first frame, some, or
all. The other cleaning policy and more threads on each end are covered by the
proofs. Four descriptors are as many as a full ES queue, the encoder's frame and
a read of the device need together; a stack of one overflows into `free`, and a
raw queue of two into `leaked`; `MaxCaptured` is the only bound on behaviours, and
a leak uses up a descriptor of it. `Streams` has the two the code has.
`CHECK_DEADLOCK FALSE` is set where the modelled part does stop: the threads of
the pipeline end, the messages, frames, bytes and option calls are used up. The
session and the shutdown have an explicit end (`Over`) and are checked for
deadlock.

In `Statistician`, three frames leave one to be counted before a reset, one that
the reset meets and one after it; with the clock from 1 to 3 and a threshold of
one tick, callbacks wait not at all, once, or longer than the period that they
end in. The number of resets is not bounded.

In `MuxerOptions`, three calls can add an option, replace it before the walk and
replace it or add another during it. In `MuxTimestamps` the first dts is on
either side of 0, and a stream may start behind or ahead; the steps let one
stream run ahead of the other by more than a reordered frame. In `AudioPath`
the sizes have divisors of 6, sizes that do not divide it, and one beyond it; three
buffers are one the codec holds, one that is lost and one that arrives, in any order.
In `Logger` three messages are one of main before there are other threads and two
that meet; of the names of levels, `debug` can be filtered and `error` cannot.

`ReaderGetSize` uses `HighWater < EsCapacity`, which is assumed as the code has it
(80 of 100, 300 of 400); the real constants are not otherwise used.

### The three divergences

* `write_frame` is commented "return 1 when finished, 0 otherwise"
  (`koala_muxer.c:285`) but returns libav's result, and `mux_thread` drops a
  stream when it is not 0: one failed write ends that stream for ever while the
  other goes on (`session_finished`).
* "factor = send data time / total time  in one statistician period"
  (`streamStatistician.h:26`): a frame begun before a reset brings the whole time
  it waited into the new period, and waits can be longer than the period
  (`statistics_share`). Without a frame under way during the reset they cannot
  (`ShareUnlessMidFrame`).
* `koala_logd(...)` is `koala_log(KOALA_LOG_DEBUG, ...)` (`koala_common.h:15`), and its
  level 16 reaches the delegate's callback (`KoalaMuxer.c:38`), which compares it with
  libav's: there 16 is an error. Every debug message of the muxer is
  an error for the logger, which never filters those (`logger_level`).

Three more can be seen in the models and have no run of their own. "if the queue is
empty,we must req a key frame from encoder", says a TODO at `MacRTMPStreamer.cpp:488`, and
nothing requests one (the only assignment of `req_i_frame`, `koala_muxer.c:361`, is commented
out): a clean that finds no key frame behind the first frame empties the queue, and the
muxer goes on with frames that build on those thrown away (`gap = "open"` in `VideoGaps`). The listener is
there to "send event to usr when pull stream err." (`MediaStreamer.c:37`), but
after a write error that is none of the three reported ones the stream just ends
(`MuxWriteSilent`). And a reset that falls between the load and the
store of `frames++` does not "start a new  statistician period"
(`streamStatistician.h:28`): the old period's count comes back and is in `total`
twice. `NothingLost` excepts just these resets (`met`).

### Fairness

* Queue: the consumer calls `dequeue` in a loop (`mediaThread::run`, the
  callbacks' loops under `mux_thread`), and a timed wait ends. Nothing is asked
  of producers and cleaners.
* Session: each thread runs while it can, and the threads inside stop and release go on.
  Nothing is asked of a connection attempt: `io_timeout_ms` is 0 (`koala_muxer.c:250`)
  unless `setopt` was called, which main never does, and the interrupt callback looks at
  `end`, which stop sets only after it has joined the prepare thread
  (`MediaStreamer.c:271`; that is `ConnectIsNeverInterrupted`). A server that accepts and
  never answers keeps stop in that join for ever, so `StopTerminates` names an attempt that
  never ends as the one case in which stop does not return. A write and the trailer may
  last for ever too, as long as `end` is not set; once it is, they are fair, which
  supposes that libavformat heeds the interrupt callback it was given. The
  *call* of stop is not fair: `main` looks at `stop` only when `getchar` returns.
  That is a hazard of its own, and no property relies on it.
* Pipeline: the reader gets something from the device, the codec returns, the
  join returns when it can. Nothing is asked of the mux thread (the network may
  block for ever), and nothing of `EncoderLoses`: an encoder must not need a lost
  frame to get on.

* Shutdown: each thread runs while it can, with the session's exceptions (the connection
  attempt, and a write before `end` is set) and another, the device: a read of it may never
  return. A thread that uses a deleted object may hang there. `ShutdownEnds` names the
  attempt, the device and the hang as the cases in which main does not end; a write
  is none, since main sets `end` before it waits for the mux thread. Nothing brings `main`
  to leave its loop.
* Logger: a thread in the logger runs on. Messages are finite, so its lock is free
  often enough.
* Time stamps: the mux thread runs on while it has frames. Nothing is asked of the
  encoders.
* Statistician, options, audio path: none; they have safety properties only.

In the pipeline, without the exception for `EncoderLoses`, both liveness properties would hold
even of an encoder that never gives up; it was found that way.

## 4. What is proved

TLAPS proves the following for every value of the constants that satisfies the
named assumptions (`QueueAssumption` and its like, one or two in each module).
These say that capacities and sizes are positive, clock values below a million,
names of threads and frames distinct, that the reader cleans before the queue is
full (`HighWater < EsCapacity`: 80 of 100, 300 of 400), and that there are slots
for two streams (of 8). `TimestampAssumption` also says that the sets of first
dts, of steps and of delays have a least and a greatest element: how far two
streams can be apart is stated in terms of these.

Each module of proofs has the same shape: an inductive invariant `IInv`, lemmas
about the operators, one lemma for each action or thread, `Invariance`, and then
the theorems, which follow from it. The bounds on counters (`MaxCaptured`,
`MaxFrames`, `MaxClock`, `MaxSets`, `MaxMessages`) are constants too: a proof for
all of them is one without a bound. Every `IInv` was first an invariant of a TLC
run on a small instance.

**Queue** (`MediaFrameQueueProofs`). `IInv` is inductive: the types, the place of
the tail (`RingOK`: tail = header + size modulo capacity), who holds a frame
(`HeldByBlocked`), `OnePlace`, `NoLostWakeup`, and `SignalledHasRoom`: from a
signal to the moment its receiver has the mutex, nobody fills the slot. Without
`RingOK`, `put` might overwrite a queued frame; without `SignalledHasRoom` the
missing re-check in `enqueue` would be a bug, and with two producers it is. The
lemmas at the start are about remainders and about reading a ring as a sequence
(`RingSeqPut`, `RingSeqGet`); `PutStep` and `GetStep` carry them to the model, and
there is one step per action after that. From `IInv` follow `FrameInOnePlace`,
`WakeupsAreNotLost`, `NoLossAfterSignal` and `QueueImplementsFifo`, the refinement:
each step is a step of `FrameFifo` or leaves `Contents` as it is. `DeadlineEdge`
says that exactly one microsecond in a second makes a malformed deadline.
`CleanLeadsToKeyFrame` is an invariant of `VideoGaps`: where `cleanIf` stops a key frame comes
to the front (`StopsAtKeyFrame`), what is added later comes behind it (`FirstStays`), and
the gap is over when the muxer takes it (`GapStep`).

**Session** (`StreamerSessionProofs`). `IInv` ties four things: the phase of the
prepare thread (where it is, or where it goes on after its report) to the status
and to the state of the context; `mux_id` to the places of main at which nothing
is closed; main's progress through stop to what it has joined; each mutex to the
place its owner is at. One lemma per thread shows that it is preserved; events
have their own since two threads report them. The theorems `MuxHasContext`,
`StopLeavesNothing`, `OnlyNotifySurvives` and `ConnectRunsToItsEnd` are
consequences of it. `MuxerEventsReachListener` adds an induction of its own (who
changes `listening`, and under which mutex), `StatusNeverGoesBack` a case split
on who writes `status`. `EventsTellTheSession` needs `Failing` and `Told`: where the
prepare thread still goes to report a failure, and that the mux thread is off
until PREPARE_EVENT_OK has been handed to the listener. `MutexesAreFree` is why the two
joins in stop are no deadlock: whoever comes to `apiMutex` or to one of the two
listener mutexes finds it free (`FreeWhenAsked`), for prepare and mux thread are never at
work together. Only a caller of `setListener` may have to wait, for a thread that waits for
nobody.

**Pipeline** (`FramePipelineProofs`). `OneOwner` and `ReleaseFits` are nearly
inductive; they need `HandsByLabel` (a thread holds a descriptor exactly at the
labels where it must pass one on: so what is released, queued or written is a
descriptor, and `FramesAccountedFor` follows), and `Started`, that nobody steps
before main has started it. `OrderKept` is proved over `Cuts`: between what
is written and what was captured there are seven places for packets, and between
any two neighbours there is a number that separates the packets of one from those
of the other. A
step moves packets between neighbouring places and so moves one cut at most, while
in the sequence `Line`, which `InOrder` is about, every index would move; `LineRises`
leads back to it. `CodecBound` says what the codec can hold back when it
is asked again. `QueuesAreFifos` meets `QueueImplementsFifo` from the other side: what the
threads do with `raw` and `es` here is what `FrameFifo` allows, and a descriptor that is
recycled is never put into a queue that still has it.

**Statistician** (`StatisticianProofs`). `NothingLost` needs `Loaded`: what
`onFrameEnd` has in hand between its load and its store is what the counter still
holds, unless a reset met it; and what a reset has taken of a slot and not yet cleared
there (`Taken`) is in `total` already. `OnlyClearedStreams` needs `Added`, the prepare
thread's progress, which is all that protects the readers: there is no lock.
`ShareUnlessMidFrame` is the hardest: `Sharing` says that the waits of both streams, the
one about to be added included, fit between the start of video's period and now (or
the beginning of the frame under way), also while a reset has cleared one stream
and not yet the other; `Asking` carries that along while main reads the streams
one after the other and frames go on; `First` and `Clocked` are about the time
before the first frame.

**Options** (`MuxerOptionsProofs`). `IInv` says that a name has one node
(`Distinct`), that what the application's thread knows of the list stays true
while it is in `setOpt`, the value it replaces being the only one that is freed
(`Setting`), and what the walk has found and still has to find (`Walking`): the node of the
time-out holds the value of the moment of `muxer_open`, or one that replaced it,
and if it is behind the walk the muxer has its number. `BlocksAccountedFor` and
`TimeoutApplied` follow. `ListImplementsMap` shows, action by action, that a step
sets the option named by the call, refuses it, or changes no option: looking up
a name does not depend on what is appended or replaced elsewhere.

**Time stamps** (`AudioPathProofs`). No variable has the dts of a stream's
last frame, only what was made of it. `UnderWay` says that there is such a number,
that the next frame comes after it, and how far it can be behind the other
stream's last stamp, for the stream with the smaller stamp goes next (`Turn`).
`StaysInterleaved` follows from the number of each stream; `DtsRises` because
`Rescale` keeps the order of its arguments. Both, like `OneOrigin`, suppose that the first
dts of all is not negative (`~below`). `OneOrigin` needs `Anchored`: as long as
no frame was written `first_pts` is -1, and after it the first frame's dts.

**Logger** (`LoggerProofs`). `MutexInitialisedOnce` is about the application only and
needs `MainFirst`: main's first message cannot be filtered, since `log_level` is
still 0, and is over before main creates a thread. `LinesAreWhole` needs
`Exclusion` (one thread formats and prints, unless two made the mutex) and `LineOfOne`
(what is in `log_back`'s static line is the work of the thread that is in it).

**PCM buffer and audio path** (`AudioPathProofs`). `PcmIInv` adds `Whole` to the types: the buffer
holds a whole number of packets. If k packets fill it and it is not full, it holds
fewer than k, so one more fits (`Room`, `StaysInBounds`): that is `PacketsFit`, and
why a test after the copy is enough for such devices. `BytesKept` and
`StampsInStep` hold for every size of packets; the second needs `LastStamp`, the
distance of a frame's stamp from its end.

`StampsFeedMux` is the refinement: `AudioSpec` implements `MuxTimestamps`' `Spec`, with the
identity as its mapping. `Line` puts every stamp between the muxer's last (`Sent`) and the
encoder's last, in order and a number of whole buffers apart (`Behind`), so whichever
stamp comes out of the codec next is a step of `Steps` behind `Sent`
(`WholeBuffers`). `AudioAssumption` says that `Starts` and `Steps` have the stamps and
distances that `MaxBytes` bytes can give. `AudioStaysInterleaved` is the corollary: what
is proved of the muxer for any stamps holds of those that this encoder makes.

**Shutdown** (`AppShutdownProofs`). The properties speak of uses of what is gone, so the
invariant says when what goes: `Shares` and `Lives` tie `alive` to main's place in its
end, `Joined` and `SessionOver` say which threads have ended before it gets there. For
each action the objects it uses are then looked up in what exists at its place.
`SharedOutlives`, `LateUsers` and `RunsSafely` state the run's three safety properties;
`LateUsers` says for each kind of object which threads can meet it deleted, the prepare
thread at `getExradata` among them, and that an encoder thread is none of them;
`MainReturnsLast` says what a reader of main would expect of its joins, and excepts the
prepare thread of a failed session, which nobody joins.

The inductive invariants and the types are proved and need no run, and so are
`StatusMovesForward`, `BytesInOrder` and `PtsInStep` of the PCM buffer, and main's `ReturnsLast`.

## 5. What is only model-checked

* Liveness: `FramesLeave`, `StopTerminates`, `EncoderMovesOn`, `StopReturns`,
  `ShutdownEnds`, `MessageEnds`, `NoStreamStarves`. This prover has no rules for
  fairness and `ENABLED`.
* The three properties that the code violates (section 3): a run shows each of
  them to fail.

`EventsAreConsistent` is only true of a listener that does not change: if it is absent
when PREPARE_EVENT_OK is sent, an error of the mux thread is the first that is heard.

## 6. Plan

All components are modelled as far as section 7 says, and every safety property
of a passing run is proved. What is left:

1. Refinement across modules: `FramePipeline` takes the queues at their interface. Both
   sides of it are proved, that a `MediaFrameQueue` implements `FrameFifo` and that the
   pipeline's queues do (`QueuesAreFifos`). What the pipeline also takes from the queue, that a
   call fails or loses a frame only when it is full, is `EncoderLoses` here and
   `NoLossAfterSignal` there; one theorem over both modules is missing.
2. More of the session's event order: which events follow which, for a listener
   that is registered before prepare.
3. The liveness properties, for a prover that has rules for fairness: the measures they
   need (places of a thread's code, what is left in the queues) are in the invariants.

## 7. What is not modelled, and why

What libavformat, libavcodec and libavdevice do inside; the contents of packets,
meta data, extra data and names; the tables and registrations of
`koala_common.c`; opening the device (`open_input`), with `format_opts`, which
is passed uninitialised; the text of messages; functions that nothing calls
(`mediaFrameCreateFromBuffer` and its release). They carry data from one call to
the next and no state of the protocols above.

A failed `av_read_frame` (its result is ignored) sends an empty packet on the
usual path, and what the encoder makes of it is libavcodec's. The packet that
`encoderVideo` allocates leaks whenever the encoder gives nothing back: no
interleaving changes that, and nothing else depends on it.

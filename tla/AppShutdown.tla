----------------------------- MODULE AppShutdown -----------------------------
(***************************************************************************)
(* The lives of the objects that the application's threads share, and the  *)
(* end of main (MacRTMPStreamer.cpp): encoders and queues go first, then   *)
(* the reader is joined, then the session with its two threads is stopped, *)
(* and then the device, the stack and the application's structure go.      *)
(*                                                                         *)
(* Every step of a thread names the objects it uses.  A use of one that is *)
(* deleted, or was never made, may end the process, or keep the thread for *)
(* ever (in a mutex that is no more); if it does neither, the step goes on *)
(* as if the memory were what it was.  What queues and frames do is in     *)
(* FramePipeline, the session's own part in StreamerSession: here a queue  *)
(* is empty or not, and a frame in hand is the place of a thread.          *)
(***************************************************************************)
Streams == {"video", "audio"}

\* An encoder thread has the name of its stream.
Threads == {"main", "reader", "prep", "mux"} \cup Streams

cont == <<"cont">>          \* streamer_cont
input == <<"input">>        \* pFormatCtx with its streams
stack == <<"stack">>        \* pFrameStack
session == <<"session">>    \* mediaStreamer, its muxer and its statistician
Shared == {cont, input, stack, session}
encoder(s) == <<"encoder", s>>
raw(s) == <<"raw", s>>
es(s) == <<"es", s>>
Encoders(S) == {encoder(s) : s \in S}
EsQueues(S) == {es(s) : s \in S}

VARIABLES
  pc,       \* where each thread is
  found,    \* the streams that the device has
  alive,    \* the objects that exist
  invalid,  \* uses of others, as <<thread, object>>, in the last step
  hung,     \* the threads that such a use keeps for ever
  filled,   \* the streams whose es queue holds a frame
  selected, \* the stream that mux_thread serves
  flags,    \* streamer_cont.stop, the session's status, the muxer's end, and
            \* the streams whose encoder has mStatus Stop
  over      \* how the process ended

data == <<alive, filled, selected, flags, over>>
vars == <<pc, found, invalid, hung, data>>

\* Thread t goes from one place to another and uses these objects on the way.
Step(t, from, to, objects) ==
  /\ over = "no" /\ t \notin hung
  /\ pc[t] = from
  /\ pc' = [pc EXCEPT ![t] = to]
  /\ invalid' = {t} \X (objects \ alive)
  /\ UNCHANGED <<found, hung>>

Plain(t, from, to, objects) == Step(t, from, to, objects) /\ UNCHANGED data
Flag(t, from, to, objects, new) ==
  /\ Step(t, from, to, objects)
  /\ flags' = new
  /\ UNCHANGED <<alive, filled, selected, over>>
Delete(from, to, objects, deleted) ==
  /\ Step("main", from, to, objects)
  /\ alive' = alive \ deleted
  /\ UNCHANGED <<filled, selected, flags, over>>

\* open_input: what the device has, of the two
Devices == SUBSET Streams

\* initMediaThread
Made_slipIndexZero ==
  Shared \cup UNION {{encoder(s), raw(s), es(s)} : s \in found \ {"video"}}

Made == Shared \cup UNION {{encoder(s), raw(s), es(s)} : s \in found}

\* main has started the threads and waits for a key.
Init ==
  /\ found \in Devices
  /\ pc = [t \in Threads |-> CASE t = "main" -> "run"
                               [] t = "prep" -> "open"
                               [] t = "mux" \/ t \in Streams \ found -> "off"
                               [] OTHER -> "loop"]
  /\ alive = Made
  /\ invalid = {}
  /\ hung = {}
  /\ filled = {}
  /\ selected = "video"
  /\ flags = [stop |-> FALSE, status |-> "preparing", end |-> FALSE, stopping |-> {}]
  /\ over = "no"
------------------------------------------------------------------------------
\* ff_read_devices.  In enqueue the reader is at the name of the stream.
ReaderLoop == Plain("reader", "loop", IF flags.stop THEN "ended" ELSE "read", {cont})

ReaderRead == \E to \in found \cup {"clean"} : Plain("reader", "read", to, {cont, input, stack})

ReaderEnqueue == \E s \in found : Plain("reader", s, "clean", {cont, raw(s)})

\* Queues that are long are cleaned, and their frames go back through their encoder.
\* (The tests for null pointers pass for queues that are deleted.)
ReaderClean ==
  \E cleaned \in SUBSET (filled \cap found), empty \in SUBSET Streams :
    /\ empty \subseteq cleaned
    /\ Step("reader", "clean", "loop", {cont, stack} \cup EsQueues(found) \cup Encoders(cleaned))
    /\ filled' = filled \ empty
    /\ UNCHANGED <<alive, selected, flags, over>>
------------------------------------------------------------------------------
\* An encoder thread: mediaThread::run, func and deal
EncoderLoop(s) ==
  IF s \in flags.stopping
  THEN Plain(s, "loop", "ended", {encoder(s)})
  ELSE \E to \in {"loop", "deal"} : Plain(s, "loop", to, {encoder(s), raw(s)})

EncoderDeal(s) ==
  \E to \in {"loop", "enqueue"} : Plain(s, "deal", to, {encoder(s), cont, stack})

EncoderEnqueue(s) ==
  /\ Step(s, "enqueue", "loop", {encoder(s), es(s)})
  /\ filled' = filled \cup {s}
  /\ UNCHANGED <<alive, selected, flags, over>>

\* The queue is full, and the thread shall stop.
EncoderGivesUp(s) ==
  /\ s \in filled \cap flags.stopping
  /\ Plain(s, "enqueue", "loop", {encoder(s), es(s), stack})
------------------------------------------------------------------------------
\* The prepare thread: muxer_open, of which a failure leaves the status as it is
PrepOpen == \E to \in {"meta", "notify"} : Plain("prep", "open", to, {session})

\* koala_muxer_init_open fails, before the meta data (no context) or after them; in most
\* cases it reports an error, which may make main stop.
InitOpenFails(from) ==
  \E stop \in {flags.stop, TRUE} :
    Flag("prep", from, "failed", {session, cont}, [flags EXCEPT !.stop = stop])

\* ELEMENT_ALL: both callbacks are asked for their stream's meta data, and one finds
\* null pointers if the device has no such stream.
PrepMeta ==
  \/ /\ Step("prep", "meta", "connect", {session, cont, input} \cup Encoders(Streams))
     /\ over' = IF found = Streams THEN "no" ELSE "crashed"
     /\ UNCHANGED <<alive, filled, selected, flags>>
  \/ InitOpenFails("meta")

\* The connection and the header
PrepConnect ==
  \/ Flag("prep", "connect", "start", {session}, [flags EXCEPT !.status = "prepared"])
  \/ InitOpenFails("connect")

PrepFailed == Flag("prep", "failed", "notify", {session}, [flags EXCEPT !.status = "error"])

PrepNotify == Flag("prep", "notify", "ended", {session, cont}, [flags EXCEPT !.stop = TRUE])

\* Notify, mediaStreamer_start, koala_muxer_start
PrepStart ==
  Flag("prep", "start", "started", {session, cont}, [flags EXCEPT !.status = "streaming"])

MuxStart ==
  /\ Plain("mux", "off", "select", {session})
  /\ pc["prep"] = "started"
------------------------------------------------------------------------------
\* The mux thread.  It is done when it has dropped both streams, or finds end set after
\* it has served one.
MuxSelect ==
  \/ /\ \E s \in Streams : selected' = s
     /\ Step("mux", "select", "get", {session})
     /\ UNCHANGED <<alive, filled, flags, over>>
  \/ Plain("mux", "select", "ended", {session})

\* audio_callback, video_callback: a dequeue takes a frame if there is one.
TakesFrame ==
  /\ selected \in filled
  /\ filled' \in {filled, filled \ {selected}}
  /\ UNCHANGED <<alive, selected, flags, over>>

MuxGet(place) ==
  \/ Step("mux", place, "write", {session, cont, es(selected)}) /\ TakesFrame
  \/ selected \notin filled /\ Plain("mux", place, "again", {session, cont, es(selected)})

MuxFirst == MuxGet("get")

MuxAgain_slipNoStop == MuxGet("again")

MuxAgain ==
  IF ~flags.stop
  THEN MuxGet("again")
  ELSE \/ /\ Step("mux", "again", "check", {session, cont, es(selected), encoder(selected), stack})
          /\ TakesFrame
       \/ selected \notin filled /\ Plain("mux", "again", "check", {session, cont, es(selected)})

\* write_frame gives the frame back through its encoder; an error may be reported.
MuxWrite ==
  LET objects == {session, cont, stack, encoder(selected)}
  IN  \/ Plain("mux", "write", "check", objects)
      \/ Flag("mux", "write", "check", objects, [flags EXCEPT !.stop = TRUE])

MuxCheck == Plain("mux", "check", IF flags.end THEN "ended" ELSE "select", {session})
------------------------------------------------------------------------------
\* main.  It looks at stop only when getchar has returned.
UserStops == Flag("main", "run", "run", {cont}, [flags EXCEPT !.stop = TRUE])

ShowState == Plain("main", "run", "run", {cont, session} \cup EsQueues(found))

LeaveLoop == flags.stop /\ Plain("main", "run", "destroy", {cont})

\* destroyMediaThread: the streams of the device in turn, video first
Left == {s \in found : es(s) \in alive}
Destroyed == IF "video" \in Left THEN "video" ELSE "audio"

StopEncoder ==
  /\ Left # {}
  /\ Flag("main", "destroy", "joinEncoder", {cont, encoder(Destroyed)},
          [flags EXCEPT !.stopping = @ \cup {Destroyed}])

JoinEncoder ==
  /\ pc[Destroyed] = "ended"
  /\ Plain("main", "joinEncoder", "deleteEncoder", {encoder(Destroyed)})

DeleteEncoder ==
  Delete("deleteEncoder", "deleteRaw", {cont, encoder(Destroyed)}, {encoder(Destroyed)})

\* ~mediaFrameQueue releases the frames that are left, here through ReleasePkt and
\* in DeleteEs through the encoder, which is gone.
DeleteRaw_slipWrongQueue ==
  Delete("deleteRaw", "deleteEs", {cont, raw(Destroyed), stack}, {es(Destroyed)})

DeleteRaw ==
  Delete("deleteRaw", "deleteEs", {cont, raw(Destroyed), stack}, {raw(Destroyed)})

DeleteEs ==
  /\ Step("main", "deleteEs", "destroy",
          {cont, es(Destroyed)} \cup Encoders(filled \cap {Destroyed}))
  /\ alive' = alive \ {es(Destroyed)}
  /\ filled' = filled \ {Destroyed}
  /\ UNCHANGED <<selected, flags, over>>

DestroyDone == Left = {} /\ Plain("main", "destroy", "joinReader", {cont})

JoinReader_slipNoJoin == Plain("main", "joinReader", "streamerStop", {cont})

JoinReader ==
  /\ pc["reader"] = "ended"
  /\ Plain("main", "joinReader", "streamerStop", {cont})

\* mediaStreamer_stop does nothing in status error.
StreamerStop ==
  Plain("main", "streamerStop", IF flags.status = "error" THEN "release" ELSE "joinPrep",
        {cont, session})

JoinPrep ==
  /\ pc["prep"] \in {"started", "ended"}
  /\ Flag("main", "joinPrep", "joinMux", {session}, [flags EXCEPT !.end = TRUE])

JoinMux ==
  /\ pc["prep"] = "started" => pc["mux"] = "ended"
  /\ Flag("main", "joinMux", "release", {session}, [flags EXCEPT !.status = "stoped"])

ReleaseSession == Delete("release", "free", {cont, session}, {session})

\* close_input, the descriptors on the stack, the stack, streamer_cont
Free == Delete("free", "return", {cont, input, stack}, {cont, input, stack})

Ends(how) ==
  /\ over' = how
  /\ invalid' = {}
  /\ UNCHANGED <<pc, found, hung, alive, filled, selected, flags>>

Return == over = "no" /\ pc["main"] = "return" /\ Ends("returned")

Crash == over = "no" /\ invalid # {} /\ Ends("crashed")

Hang ==
  /\ over = "no"
  /\ \E use \in invalid : hung' = hung \cup {use[1]}
  /\ invalid' = {}
  /\ UNCHANGED <<pc, found, data>>

\* The process is over, or it hangs.
Over == (over # "no" \/ hung # {}) /\ UNCHANGED vars
------------------------------------------------------------------------------
ReaderNext == ReaderLoop \/ ReaderRead \/ ReaderEnqueue \/ ReaderClean

EncoderNext(s) == EncoderLoop(s) \/ EncoderDeal(s) \/ EncoderEnqueue(s) \/ EncoderGivesUp(s)

PrepNext == PrepOpen \/ PrepMeta \/ PrepConnect \/ PrepFailed \/ PrepNotify \/ PrepStart

MuxNext == MuxStart \/ MuxSelect \/ MuxFirst \/ MuxAgain \/ MuxWrite \/ MuxCheck

ShutdownNext ==
  \/ StopEncoder \/ JoinEncoder \/ DeleteEncoder \/ DeleteRaw \/ DeleteEs \/ DestroyDone
  \/ JoinReader \/ StreamerStop \/ JoinPrep \/ JoinMux \/ ReleaseSession \/ Free \/ Return

Next ==
  \/ ReaderNext
  \/ \E s \in Streams : EncoderNext(s)
  \/ PrepNext
  \/ MuxNext
  \/ UserStops \/ ShowState \/ LeaveLoop
  \/ ShutdownNext
  \/ Crash \/ Hang
  \/ Over

Spec == Init /\ [][Next]_vars

\* Each thread runs while it can, and waits on queues are timed; but nothing bounds what
\* is outside of the program.  The device may deliver no frame, and without io_timeout_ms
\* a connection attempt may last for ever, and so may a write as long as the interrupt
\* callback does not find end set.  Nothing brings main to LeaveLoop.
Fairness ==
  /\ WF_vars(ReaderLoop \/ ReaderEnqueue \/ ReaderClean)
  /\ \A s \in Streams : WF_vars(EncoderNext(s))
  /\ WF_vars(PrepOpen \/ PrepMeta \/ PrepFailed \/ PrepNotify \/ PrepStart)
  /\ WF_vars(MuxStart \/ MuxSelect \/ MuxFirst \/ MuxAgain \/ MuxCheck \/ (flags.end /\ MuxWrite))
  /\ WF_vars(ShutdownNext)

FairSpec == Spec /\ Fairness
------------------------------------------------------------------------------
Flags == [stop : BOOLEAN, end : BOOLEAN, stopping : SUBSET found,
          status : {"preparing", "prepared", "streaming", "error", "stoped"}]

\* The types; a thread is only at places of its own code, what is deleted stays so, and
\* no encoder thread hangs.
TypeOK ==
  /\ pc["main"] \in {"run", "destroy", "joinEncoder", "deleteEncoder", "deleteRaw", "deleteEs",
                     "joinReader", "streamerStop", "joinPrep", "joinMux", "release", "free", "return"}
  /\ pc["reader"] \in {"loop", "read", "clean", "ended"} \cup found
  /\ pc["prep"] \in {"open", "meta", "connect", "failed", "start", "notify", "started", "ended"}
  /\ pc["mux"] \in {"off", "select", "get", "again", "write", "check", "ended"}
  /\ \A s \in Streams : pc[s] \in {"off", "loop", "deal", "enqueue", "ended"}
  /\ alive \subseteq Made
  /\ filled \subseteq Left
  /\ selected \in Streams
  /\ flags \in Flags
  /\ over \in {"no", "returned", "crashed"}
  /\ hung \subseteq Threads \ Streams

\* What every thread hangs on outlives them all, although main ends in so odd an order:
\* nobody uses streamer_cont, the device, the stack or the session when it is gone,
\* but for the prepare thread of a failed session, which nobody joins.  (With the types.)
SharedOutlivesThreads ==
  /\ TypeOK
  /\ \A use \in invalid : use[2] \in Shared => use[1] = "prep" /\ flags.status = "error"

\* Who can meet what is not there, besides what is shared: a raw queue the reader alone,
\* an ES queue the reader and the mux thread, an encoder these two, the prepare thread,
\* which asks it for the extra data, and main, which frees the frames of an ES queue
\* through it.  An encoder thread meets nothing: not its own object, which joins it in its
\* destructor, and not what it shares with threads that are joined later.
OnlyLateUsers ==
  \A use \in invalid :
    /\ use[1] \in Threads \ Streams
    /\ use[2] \in {raw(s) : s \in Streams} => use[1] = "reader"
    /\ use[2] \in EsQueues(Streams) => use[1] \in {"reader", "mux"}
    /\ use[1] = "main" => use[2] \in Encoders(Streams)

\* As long as main has not left its loop, nobody uses what is not there, unless the
\* device lacks one of the two streams that the session is told to send.
SafeWhileRunning == pc["main"] = "run" /\ invalid # {} => found # Streams

\* Once main has left its loop the process ends, whatever the threads are doing then,
\* unless a connection attempt lasts for ever, the device never delivers again, or a
\* thread hangs in an object that is deleted.  (A write that lasts is no exception: main
\* sets end before it waits for the mux thread.)
ShutdownEnds ==
  pc["main"] = "destroy" ~>
    \/ over # "no"
    \/ [](pc["prep"] = "connect")
    \/ [](pc["reader"] = "read")
    \/ hung # {}
==============================================================================

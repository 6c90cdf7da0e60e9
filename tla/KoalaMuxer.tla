----------------------------- MODULE KoalaMuxer -----------------------------
(***************************************************************************)
(* The muxer on top of libavformat: KoalaPlayer/src/koala_muxer.c, reached *)
(* through the delegate of MediaMuxer/KoalaMuxer.c.                        *)
(*                                                                         *)
(* Each operation is run by the thread t that calls it and is cut into one *)
(* action per stretch between two places where the thread can block: a     *)
(* mutex, a join, the network.  pc[t] says where t is.  The module gives   *)
(* the operations; StreamerSession says who calls them and when.           *)
(***************************************************************************)
EXTENDS Integers, FiniteSets

CONSTANTS
  Streams,    \* the streams that have a data callback (video, audio)
  NoThread    \* nobody: the owner of a free mutex

\* The thread that runs main, the one that prepares, the one that muxes.
Threads == {"api", "prep", "mux"}

\* Event codes, as far as a listener tells them apart: the two of prepare, a
\* libav error, and any other value that an uninitialised ret can have.
Codes == {"OK", "ERROR", "negative", "other"}

VARIABLES
  pc,             \* where each thread is
  event,          \* the event a thread is reporting, and where it goes on
  handle,         \* koala_muxer (with its delegate): "none", "open" or "freed"
  oc,             \* AVFormatContext: "null", "allocated", "ready" (has a header)
  end,            \* the flag that makes mux_thread and the network give up
  mux_id,         \* TRUE iff mux_id is set
  encode,         \* mux_thread: streams whose encode_ flag is set
  stream,         \* mux_thread: the stream write_frame is called for
  apiMutex,       \* owner
  listenerMutex   \* owner

contextVars == <<handle, oc>>
loopVars == <<encode, stream>>
koalaVars == <<handle, oc, end, mux_id, encode, stream, apiMutex, listenerMutex>>

Goto(t, label) == pc' = [pc EXCEPT ![t] = label]

\* sendEvent and Notify are procedures: "back" is where t goes on afterwards.
Report(t, label, code, back) ==
  /\ Goto(t, label)
  /\ event' = [event EXCEPT ![t] = [code |-> code, back |-> back]]

sendEvent(t, code, back) == Report(t, "event", code, back)
------------------------------------------------------------------------------
\* koala_muxer_init_open

InitOpenLock(t) ==
  /\ pc[t] = "initOpen"
  /\ apiMutex = NoThread
  /\ apiMutex' = t
  /\ Goto(t, "opening")
  /\ UNCHANGED <<event, contextVars, end, mux_id, loopVars, listenerMutex>>

\* No output name: an event with an uninitialised code, sent with the mutex
\* held.  No context: -1 and no event.
InitOpenContext(t) ==
  /\ pc[t] = "opening"
  /\ \/ /\ \E code \in Codes : sendEvent(t, code, "openUnlock")
        /\ UNCHANGED oc
     \/ /\ Goto(t, "openUnlock")
        /\ UNCHANGED <<event, oc>>
     \/ /\ oc' = "allocated"
        /\ Goto(t, "connecting")
        /\ UNCHANGED event
  /\ UNCHANGED <<handle, end, mux_id, loopVars, apiMutex, listenerMutex>>

InitOpenUnlock(t) ==
  /\ pc[t] = "openUnlock"
  /\ apiMutex' = NoThread
  /\ Goto(t, "openFailed")
  /\ UNCHANGED <<event, contextVars, end, mux_id, loopVars, listenerMutex>>

\* The streams' meta data, the connection and the header.  Only the meta data
\* branch reaches "fail" with ret uninitialised (an inner ret hides it).
InitOpenConnect(t) ==
  /\ pc[t] = "connecting"
  /\ \/ /\ oc' = "ready"
        /\ Goto(t, "openOk")
        /\ UNCHANGED event
     \/ /\ oc' = "null"
        /\ \E code \in Codes : sendEvent(t, code, "openFailed")
  /\ apiMutex' = NoThread
  /\ UNCHANGED <<handle, end, mux_id, loopVars, listenerMutex>>
------------------------------------------------------------------------------
\* koala_muxer_start: at most one mux thread
koala_muxer_start(t, back) ==
  /\ apiMutex = NoThread
  /\ pc' = [pc EXCEPT ![t] = back, !["mux"] = IF mux_id THEN pc["mux"] ELSE "while"]
  /\ mux_id' = TRUE
  /\ encode' = IF mux_id THEN encode ELSE Streams
  /\ UNCHANGED <<event, contextVars, end, stream, apiMutex, listenerMutex>>

\* mux_thread.  Which of the streams is taken next is left open here: it
\* depends on time stamps only.
MuxSelect ==
  /\ pc["mux"] = "while"
  /\ \/ /\ encode = {}
        /\ Goto("mux", "trailer")
        /\ UNCHANGED stream
     \/ \E s \in encode :
          /\ stream' = s
          /\ Goto("mux", "frame")
  /\ UNCHANGED <<event, contextVars, end, mux_id, encode, apiMutex, listenerMutex>>

\* write_frame, with the callback's answer: a frame, or the end of the stream.
MuxGotFrame ==
  /\ pc["mux"] = "frame"
  /\ Goto("mux", "write")
  /\ UNCHANGED <<event, koalaVars>>

\* write_frame returned something else than 0: encode_ becomes 0
StreamEnds ==
  /\ encode' = encode \ {stream}
  /\ Goto("mux", "check")
  /\ UNCHANGED <<event, contextVars, end, mux_id, stream, apiMutex, listenerMutex>>

MuxNoFrame == pc["mux"] = "frame" /\ StreamEnds

MuxWriteOk ==
  /\ pc["mux"] = "write"
  /\ Goto("mux", "check")
  /\ UNCHANGED <<event, koalaVars>>

\* ETIMEDOUT, EPIPE and ENOTRECOVERABLE are reported
MuxWriteReported ==
  /\ pc["mux"] = "write"
  /\ sendEvent("mux", "negative", "failed")
  /\ UNCHANGED koalaVars

MuxAfterReport == pc["mux"] = "failed" /\ StreamEnds

\* any other error is not
MuxWriteSilent == pc["mux"] = "write" /\ StreamEnds

MuxCheckEnd_slipIgnored ==
  /\ pc["mux"] = "check"
  /\ Goto("mux", "while")
  /\ UNCHANGED <<event, koalaVars>>

MuxCheckEnd ==
  /\ pc["mux"] = "check"
  /\ Goto("mux", IF end THEN "trailer" ELSE "while")
  /\ UNCHANGED <<event, koalaVars>>

MuxTrailer ==
  /\ pc["mux"] = "trailer"
  /\ Goto("mux", "done")
  /\ UNCHANGED <<event, koalaVars>>
------------------------------------------------------------------------------
\* koala_muxer_end: the mux thread is joined with apiMutex held.
EndFlag(t) ==
  /\ pc[t] = "end"
  /\ end' = TRUE
  /\ Goto(t, "endLock")
  /\ UNCHANGED <<event, contextVars, mux_id, loopVars, apiMutex, listenerMutex>>

EndLock(t) ==
  /\ pc[t] = "endLock"
  /\ apiMutex = NoThread
  /\ apiMutex' = t
  /\ Goto(t, "joinMux")
  /\ UNCHANGED <<event, contextVars, end, mux_id, loopVars, listenerMutex>>

EndJoin_slipNoJoin(t, back) ==
  /\ pc[t] = "joinMux"
  /\ mux_id' = FALSE
  /\ apiMutex' = NoThread
  /\ Goto(t, back)
  /\ UNCHANGED <<event, contextVars, end, loopVars, listenerMutex>>

EndJoin(t, back) ==
  /\ pc[t] = "joinMux"
  /\ mux_id => pc["mux"] = "done"
  /\ mux_id' = FALSE
  /\ apiMutex' = NoThread
  /\ Goto(t, back)
  /\ UNCHANGED <<event, contextVars, end, loopVars, listenerMutex>>

koala_muxer_close_slipNotFreed ==
  /\ apiMutex = NoThread
  /\ oc' = "null"
  /\ UNCHANGED <<handle, end, mux_id, loopVars, apiMutex, listenerMutex>>

\* koala_muxer_close: nothing in it can block once it has the mutex.
koala_muxer_close ==
  /\ apiMutex = NoThread
  /\ oc' = "null"
  /\ handle' = "freed"
  /\ UNCHANGED <<end, mux_id, loopVars, apiMutex, listenerMutex>>
==============================================================================

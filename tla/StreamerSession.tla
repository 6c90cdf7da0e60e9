--------------------------- MODULE StreamerSession ---------------------------
(***************************************************************************)
(* One streaming session: mediaStreamer (MediaStreamer.c) over its muxer   *)
(* (MediaMuxer/MediaMuxer.c and the module KoalaMuxer), with the three     *)
(* threads that meet in it: main ("api"), which calls prepare, stop and    *)
(* release as MacRTMPStreamer.cpp does, the prepare thread ("prep") and    *)
(* the mux thread ("mux").                                                 *)
(*                                                                         *)
(* main prepares once, and stops and then releases the session when its    *)
(* stop flag is set, by the user or by an event.  It registers its         *)
(* listener before it prepares; the interface lets an application change   *)
(* the listener at any time, which is modelled up to ListenerChanges times.*)
(***************************************************************************)
EXTENDS KoalaMuxer

CONSTANTS
  OpenMayFail,       \* the delegate's open may return NULL (KoalaMuxer's does not)
  ListenerChanges    \* bound on calls of mediaStreamer_setListener after the first

ASSUME SessionAssumption ==
  /\ NoThread \notin Threads
  /\ OpenMayFail \in BOOLEAN
  /\ ListenerChanges \in Nat

VARIABLES
  status,          \* mediastreamer_status
  listening,       \* whether a listener is registered (listener is not NULL)
  streamerMutex,   \* owner of mediaStreamer's listenerMutex
  stop,            \* main's stop flag
  reported,        \* the events handed over so far: <<thread, code>>
  changes          \* calls of setListener so far

appVars == <<listening, streamerMutex, stop, reported, changes>>
vars == <<pc, event, koalaVars, status, appVars>>

Init ==
  /\ pc = [t \in Threads |-> IF t = "api" THEN "idle" ELSE "off"]
  /\ event = [t \in Threads |-> [code |-> "other", back |-> "off"]]
  /\ handle = "none"
  /\ oc = "null"
  /\ end = FALSE
  /\ mux_id = FALSE
  /\ encode = {}
  /\ stream \in Streams
  /\ apiMutex = NoThread
  /\ listenerMutex = NoThread
  /\ status = "init"
  /\ listening = TRUE
  /\ streamerMutex = NoThread
  /\ stop = FALSE
  /\ reported = {}
  /\ changes = 0
------------------------------------------------------------------------------
\* Events.  A muxer event passes both listener mutexes; Notify passes none.

EventLockMuxer(t) ==
  /\ pc[t] = "event"
  /\ listenerMutex = NoThread
  /\ listenerMutex' = t
  /\ Goto(t, "eventLock")
  /\ UNCHANGED <<event, contextVars, end, mux_id, loopVars, apiMutex, status, appVars>>

EventLockStreamer(t) ==
  /\ pc[t] = "eventLock"
  /\ streamerMutex = NoThread
  /\ streamerMutex' = t
  /\ Goto(t, "eventCheck")
  /\ UNCHANGED <<event, koalaVars, status, listening, stop, reported, changes>>

\* MyMediaStreamerListener: an error makes main stop.
MyMediaStreamerListener(t) ==
  /\ reported' = reported \cup {<<t, event[t].code>>}
  /\ stop' = (stop \/ event[t].code \in {"negative", "ERROR"})

EventCheck(t) ==
  /\ pc[t] = "eventCheck"
  /\ Goto(t, IF listening THEN "eventCall" ELSE "eventUnlock")
  /\ UNCHANGED <<event, koalaVars, status, appVars>>

EventCall(t) ==
  /\ pc[t] = "eventCall"
  /\ MyMediaStreamerListener(t)
  /\ Goto(t, "eventUnlock")
  /\ UNCHANGED <<event, koalaVars, status, listening, streamerMutex, changes>>

EventUnlock(t) ==
  /\ pc[t] = "eventUnlock"
  /\ listenerMutex' = NoThread
  /\ streamerMutex' = NoThread
  /\ Goto(t, event[t].back)
  /\ UNCHANGED <<event, contextVars, end, mux_id, loopVars, apiMutex, status,
                 listening, stop, reported, changes>>

Notify(t, code, back) == Report(t, "notify", code, back)

NotifyCheck(t) ==
  /\ pc[t] = "notify"
  /\ Goto(t, IF listening THEN "notifyCall" ELSE event[t].back)
  /\ UNCHANGED <<event, koalaVars, status, appVars>>

\* The listener is read a second time for the call.  If it has become NULL in
\* between, the process is gone.
NotifyCall(t) ==
  /\ pc[t] = "notifyCall"
  /\ IF listening
     THEN MyMediaStreamerListener(t) /\ Goto(t, event[t].back)
     ELSE UNCHANGED <<reported, stop>> /\ Goto(t, "crashed")
  /\ UNCHANGED <<event, koalaVars, status, listening, streamerMutex, changes>>

\* Notify after release has freed the streamer: besides going on as above, it
\* may find anything in the listener's place.
NotifyFreed(t) ==
  /\ pc[t] \in {"notify", "notifyCall"}
  /\ pc["api"] = "released"
  /\ Goto(t, "crashed")
  /\ UNCHANGED <<event, koalaVars, status, appVars>>
------------------------------------------------------------------------------
\* mediaStreamer_prepare.  (The check for status streaming on the new thread never
\* applies: nobody else moves the status on from preparing.)
Prepare ==
  /\ pc["api"] = "idle"
  /\ ~stop
  /\ status = "init"
  /\ status' = "preparing"
  /\ Goto("prep", "open")
  /\ UNCHANGED <<event, koalaVars, appVars>>

\* mediaStreamer_prepare_internal up to muxer_prepare: muxer_open (probe, a
\* fresh handle, the options), the listener and the callbacks.  A failure is
\* notified, and leaves the status as it is.
PrepOpen ==
  /\ pc["prep"] = "open"
  /\ \/ /\ handle' = "open"
        /\ Goto("prep", "initOpen")
        /\ UNCHANGED event
     \/ /\ OpenMayFail
        /\ Notify("prep", "ERROR", "done")
        /\ UNCHANGED handle
  /\ UNCHANGED <<oc, end, mux_id, loopVars, apiMutex, listenerMutex, status, appVars>>

\* muxer_prepare: koala_muxer_init_open on the prepare thread
PrepInitOpen ==
  /\ \/ InitOpenLock("prep")
     \/ InitOpenContext("prep")
     \/ InitOpenUnlock("prep")
     \/ InitOpenConnect("prep")
  /\ UNCHANGED <<status, appVars>>

PrepOk_slipStartsFirst ==
  /\ pc["prep"] = "openOk"
  /\ status' = "prepared"
  /\ Goto("prep", "start")
  /\ UNCHANGED <<event, koalaVars, appVars>>

PrepOk ==
  /\ pc["prep"] = "openOk"
  /\ status' = "prepared"
  /\ Notify("prep", "OK", "start")
  /\ UNCHANGED <<koalaVars, appVars>>

PrepFailed ==
  /\ pc["prep"] = "openFailed"
  /\ status' = "error"
  /\ Notify("prep", "ERROR", "done")
  /\ UNCHANGED <<koalaVars, appVars>>

\* mediaStreamer_start
PrepStart ==
  /\ pc["prep"] = "start"
  /\ status' = "streaming"
  /\ Goto("prep", "startMux")
  /\ UNCHANGED <<event, koalaVars, appVars>>

PrepStartMux ==
  /\ pc["prep"] = "startMux"
  /\ handle = "open"
  /\ koala_muxer_start("prep", "done")
  /\ UNCHANGED <<status, appVars>>

\* The mux thread.  main's callbacks answer "no frame" only once main stops.
MuxStep ==
  /\ \/ MuxSelect
     \/ MuxGotFrame
     \/ stop /\ MuxNoFrame
     \/ MuxWriteOk
     \/ MuxWriteReported
     \/ MuxAfterReport
     \/ MuxWriteSilent
     \/ MuxCheckEnd
     \/ MuxTrailer
  /\ UNCHANGED <<status, appVars>>
------------------------------------------------------------------------------
\* mediaStreamer_stop.  Between init and stoped it joins the prepare thread,
\* ends and closes the muxer; in any other status it returns at once.
StopCall ==
  /\ pc["api"] = "idle"
  /\ stop
  /\ Goto("api", IF status \in {"preparing", "prepared", "streaming"}
                 THEN "joinPrep" ELSE "stopReturned")
  /\ UNCHANGED <<event, koalaVars, status, appVars>>

StopJoinPrep_slipNoJoin ==
  /\ pc["api"] = "joinPrep"
  /\ Goto("api", IF handle = "open" THEN "end" ELSE "closed")
  /\ UNCHANGED <<event, koalaVars, status, appVars>>

StopJoinPrep ==
  /\ pc["api"] = "joinPrep"
  /\ pc["prep"] = "done"
  /\ Goto("api", IF handle = "open" THEN "end" ELSE "closed")
  /\ UNCHANGED <<event, koalaVars, status, appVars>>

\* muxer_end
StopEnd ==
  /\ \/ EndFlag("api")
     \/ EndLock("api")
     \/ EndJoin("api", "close")
  /\ UNCHANGED <<status, appVars>>

\* muxer_close
StopClose ==
  /\ pc["api"] = "close"
  /\ koala_muxer_close
  /\ Goto("api", "closed")
  /\ UNCHANGED <<event, status, appVars>>

StopReturn ==
  /\ pc["api"] = "closed"
  /\ status' = "stoped"
  /\ Goto("api", "stopReturned")
  /\ UNCHANGED <<event, koalaVars, appVars>>

\* mediaStreamer_release: closes the muxer if that has not happened, and frees
\* everything.
Release ==
  /\ pc["api"] = "stopReturned"
  /\ IF handle = "open" THEN koala_muxer_close ELSE UNCHANGED koalaVars
  /\ Goto("api", "released")
  /\ UNCHANGED <<event, status, appVars>>

mediaStreamer_setListener_slipUnlocked ==
  /\ pc["api"] = "idle"
  /\ changes < ListenerChanges
  /\ listening' = ~listening
  /\ changes' = changes + 1
  /\ UNCHANGED <<pc, event, koalaVars, status, streamerMutex, stop, reported>>

\* mediaStreamer_setListener, to NULL or back
mediaStreamer_setListener ==
  /\ pc["api"] = "idle"
  /\ changes < ListenerChanges
  /\ streamerMutex = NoThread
  /\ listening' = ~listening
  /\ changes' = changes + 1
  /\ UNCHANGED <<pc, event, koalaVars, status, streamerMutex, stop, reported>>

\* The user types q.
UserStops ==
  /\ pc["api"] = "idle"
  /\ ~stop
  /\ stop' = TRUE
  /\ UNCHANGED <<pc, event, koalaVars, status, listening, streamerMutex, reported, changes>>
------------------------------------------------------------------------------
EventStep(t) ==
  \/ EventLockMuxer(t)
  \/ EventLockStreamer(t)
  \/ EventCheck(t)
  \/ EventCall(t)
  \/ EventUnlock(t)

PrepStep ==
  \/ PrepOpen
  \/ PrepInitOpen
  \/ PrepOk
  \/ PrepFailed
  \/ PrepStart
  \/ PrepStartMux
  \/ EventStep("prep")
  \/ NotifyCheck("prep")
  \/ NotifyCall("prep")
  \/ NotifyFreed("prep")

\* main from inside mediaStreamer_stop to the end of mediaStreamer_release
StopStep ==
  \/ StopJoinPrep
  \/ StopEnd
  \/ StopClose
  \/ StopReturn
  \/ Release

Crashed == pc["prep"] = "crashed"

\* The process is over: everything has run to its end, or it has crashed.
Over ==
  /\ \/ Crashed
     \/ pc["api"] = "released" /\ pc["prep"] \in {"off", "done"} /\ pc["mux"] \in {"off", "done"}
  /\ UNCHANGED vars

Next ==
  \/ /\ ~Crashed
     /\ \/ Prepare
        \/ UserStops
        \/ mediaStreamer_setListener
        \/ PrepStep
        \/ MuxStep \/ EventStep("mux")
        \/ StopCall
        \/ StopStep
  \/ Over

Spec == Init /\ [][Next]_vars

\* Every thread runs, but nothing in the program bounds a connection attempt: nobody
\* sets io_timeout_ms, and the interrupt callback looks at end, which stop sets after it
\* has joined the prepare thread.  Once end is set a write or the trailer does not last.
\* Nothing makes main call stop: it looks at its flag only when getchar returns.
Networking == pc["mux"] \in {"write", "trailer"}

Fairness ==
  /\ WF_vars(~Crashed /\ pc["prep"] # "connecting" /\ PrepStep)
  /\ WF_vars(~Crashed /\ (Networking => end) /\ (MuxStep \/ EventStep("mux")))
  /\ WF_vars(~Crashed /\ StopStep)

FairSpec == Spec /\ Fairness
------------------------------------------------------------------------------
Done == {"off", "done"}

\* Where a thread can be, apart from inside a report
InEvent == {"event", "eventLock", "eventCheck", "eventCall", "eventUnlock"}
InNotify == {"notify", "notifyCall"}
ApiLabels == {"idle", "joinPrep", "end", "endLock", "joinMux", "close", "closed",
              "stopReturned", "released"}
PrepLabels == {"off", "open", "initOpen", "opening", "openUnlock", "connecting",
               "openOk", "openFailed", "start", "startMux", "done", "crashed"}
MuxLabels == {"off", "while", "frame", "write", "check", "failed", "trailer", "done"}

Labels == ApiLabels \cup PrepLabels \cup MuxLabels \cup InEvent \cup InNotify

\* The types: a thread is only ever where its own code is, reports included.
TypeOK ==
  /\ pc \in [Threads -> Labels]
  /\ pc["api"] \in ApiLabels
  /\ pc["prep"] \in PrepLabels \cup InEvent \cup InNotify
  /\ pc["mux"] \in MuxLabels \cup InEvent
  /\ event \in [Threads -> [code : Codes, back : PrepLabels \cup MuxLabels]]
  /\ handle \in {"none", "open", "freed"}
  /\ oc \in {"null", "allocated", "ready"}
  /\ end \in BOOLEAN
  /\ mux_id \in BOOLEAN
  /\ encode \subseteq Streams
  /\ stream \in Streams
  /\ apiMutex \in Threads \cup {NoThread}
  /\ listenerMutex \in Threads \cup {NoThread}
  /\ streamerMutex \in Threads \cup {NoThread}
  /\ status \in {"init", "preparing", "prepared", "streaming", "stoped", "error"}
  /\ listening \in BOOLEAN
  /\ stop \in BOOLEAN
  /\ reported \subseteq Threads \X Codes
  /\ changes \in 0..ListenerChanges

\* The mux thread never works on a context or a handle that is closed or freed,
\* although stop, release and a failed prepare all close them.
ContextOutlivesMux == pc["mux"] \notin Done => oc = "ready" /\ handle = "open"

\* Once stop has set the status to stoped, nothing of the session is left: both
\* threads have returned and the context and the handle are freed.
StopIsComplete ==
  status = "stoped" =>
    /\ pc["prep"] \in Done
    /\ pc["mux"] \in Done
    /\ oc = "null"
    /\ handle # "open"

\* mediaStreamer_stop does nothing in status error, so release may run while the
\* prepare thread has not returned.  All that thread can still have to do then is
\* the notification of the error; it is in no mutex and in no part of the muxer.
OnlyErrorOutlivesStop ==
  pc["api"] \in {"stopReturned", "released"} /\ pc["prep"] \notin Done =>
    /\ status = "error"
    /\ pc["prep"] \in {"notify", "notifyCall", "crashed"}
    /\ "prep" \notin {apiMutex, listenerMutex, streamerMutex}

\* What the listener is told: once the prepare thread has reported anything else
\* than PREPARE_EVENT_OK the session never streams, and whatever the mux thread
\* reports comes after PREPARE_EVENT_OK, if the listener is not changed meanwhile.
EventsAreConsistent ==
  changes = 0 =>
    /\ \A code \in Codes \ {"OK"} : <<"prep", code>> \in reported => pc["mux"] = "off"
    /\ \A code \in Codes : <<"mux", code>> \in reported => <<"prep", "OK">> \in reported

\* A muxer event is handed to a listener that is registered at that moment.
EventReachesListener ==
  \A t \in {"prep", "mux"} : pc[t] = "eventCall" => listening

\* The interrupt callback of the connection looks at end, but end is set only
\* after the prepare thread was joined: no connection attempt is ever cut short.
ConnectIsNeverInterrupted == pc["prep"] = "connecting" => ~end

\* The inductive invariant behind these.  The phase of a thread is where it is,
\* or where it goes on once its report is done.
Phase(t) == IF pc[t] \in InEvent \cup InNotify THEN event[t].back ELSE pc[t]

ReportsReturn ==
  /\ pc["prep"] \in InEvent => event["prep"].back \in {"openUnlock", "openFailed"}
  /\ pc["prep"] \in InNotify => event["prep"].back \in {"start", "done"}
  /\ pc["mux"] \in InEvent => event["mux"].back = "failed"

StatusOfPhase ==
  /\ Phase("prep") = "off" <=> status = "init"
  /\ Phase("prep") \in {"open", "initOpen", "opening", "openUnlock", "connecting", "openOk",
                       "openFailed"} => status = "preparing"
  /\ Phase("prep") = "start" => status = "prepared"
  /\ Phase("prep") = "startMux" => status = "streaming"
  /\ Phase("prep") = "done" => status \in {"preparing", "streaming", "error", "stoped"}
  /\ Phase("prep") = "done" /\ status = "preparing" => handle = "none"

ContextOfPhase ==
  /\ Phase("prep") \in {"off", "open"} => handle = "none"
  /\ Phase("prep") \in {"initOpen", "opening", "openUnlock", "openFailed"} =>
       handle = "open" /\ oc = "null"
  /\ Phase("prep") = "connecting" => handle = "open"
  /\ Phase("prep") \in {"openOk", "start", "startMux"} => handle = "open" /\ oc = "ready"
  /\ handle # "open" => oc = "null"

MuxBelongs ==
  /\ mux_id =>
       /\ pc["prep"] = "done"
       /\ status = "streaming"
       /\ pc["api"] \in {"idle", "joinPrep", "end", "endLock", "joinMux"}
       /\ oc = "ready"
       /\ handle = "open"
  /\ ~mux_id => pc["mux"] \in Done

StopWaits ==
  /\ pc["api"] \in {"end", "endLock", "joinMux", "close"} =>
       pc["prep"] = "done" /\ handle = "open" /\ status \in {"streaming", "error"}
  /\ pc["api"] = "closed" => pc["prep"] = "done" /\ handle # "open" /\ ~mux_id
  /\ pc["api"] \in {"stopReturned", "released"} => status \in {"init", "error", "stoped"}
  /\ status = "stoped" =>
       /\ pc["api"] \in {"stopReturned", "released"}
       /\ pc["prep"] = "done"
       /\ handle # "open"
  /\ end => pc["prep"] = "done"

Mutexes ==
  /\ apiMutex = "api" <=> pc["api"] = "joinMux"
  /\ apiMutex = "prep" <=> Phase("prep") \in {"opening", "openUnlock", "connecting"}
  /\ apiMutex # "mux"
  /\ \A t \in Threads :
       /\ listenerMutex = t <=> pc[t] \in InEvent \ {"event"}
       /\ streamerMutex = t <=> pc[t] \in InEvent \ {"event", "eventLock"}

\* The inductive invariant as a whole.
IInv ==
  /\ TypeOK
  /\ ReportsReturn
  /\ StatusOfPhase
  /\ ContextOfPhase
  /\ MuxBelongs
  /\ StopWaits
  /\ Mutexes

\* The status moves forward, except that a stop that was waiting for a prepare
\* which then failed turns error into stoped; and stoped is final.
StatusOrder ==
  [init |-> 0, preparing |-> 1, prepared |-> 2, streaming |-> 3, stoped |-> 4, error |-> 4]
StatusMovesForward ==
  [][status' # status =>
       \/ StatusOrder[status] < StatusOrder[status']
       \/ status = "error" /\ status' = "stoped"]_vars

\* However prepare ended and whatever the mux thread is doing, also in a write that
\* lasts, main gets through stop and release, unless the prepare thread is for ever in
\* a connection attempt: the two joins, one of them under apiMutex, are no deadlock.
StopTerminates ==
  pc["api"] # "idle" ~>
    \/ pc["api"] = "released"
    \/ Crashed
    \/ [](pc["prep"] = "connecting")

\* write_frame: "return 1 when finished, 0 otherwise" - the loop drops a stream
\* only when its callback has no more frames.
StreamEndsWhenFinished == [][encode' \subseteq encode /\ encode' # encode => stop]_vars
==============================================================================

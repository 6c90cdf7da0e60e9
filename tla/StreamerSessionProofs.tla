------------------------ MODULE StreamerSessionProofs ------------------------
(***************************************************************************)
(* What TLAPS proves about a session, for any set of streams, with or      *)
(* without an open that fails, and with any number of listener changes.    *)
(*                                                                         *)
(* The argument is one inductive invariant, IInv.  It ties the phase of    *)
(* the prepare thread to the status and to the context it is building      *)
(* (StatusOfPhase, ContextOfPhase), the mux thread to mux_id and mux_id to *)
(* the places of main from which the context cannot be closed (MuxBelongs),*)
(* and main's progress through stop to what it has waited for (StopWaits). *)
(***************************************************************************)
EXTENDS StreamerSession, TLAPS

USE DEF Threads, Codes, koalaVars, contextVars, loopVars, appVars, Goto, Report, InEvent, InNotify

\* A muxer event ends: the thread is where it was when it reported it, and nobody has the
\* mutexes.
LEMMA EventUnlockInv ==
  ASSUME IInv, NEW t \in {"prep", "mux"}, EventUnlock(t)
  PROVE IInv'
  <1> DEFINE back == event[t].back
  <1>1. /\ pc \in [Threads -> Labels] /\ pc[t] = "eventUnlock" /\ pc' = [pc EXCEPT ![t] = back]
        /\ back \in {"openUnlock", "openFailed", "failed"} /\ (t = "mux" <=> back = "failed")
        /\ listenerMutex' = NoThread /\ streamerMutex' = NoThread
        /\ UNCHANGED <<event, handle, oc, end, mux_id, encode, stream, apiMutex, status, listening,
                       stop, reported, changes>>
    BY DEF EventUnlock, IInv, TypeOK, ReportsReturn
  <1> HIDE DEF back
  <1>2. pc'[t] = back /\ \A u \in Threads \ {t} : pc'[u] = pc[u]
    BY <1>1
  <1>3. pc'["api"] = pc["api"] /\ "api" \in Threads /\ pc["api"] \in ApiLabels
    BY <1>1, <1>2 DEF IInv, TypeOK
  <1>4. Phase("prep")' = Phase("prep")
    <2>1. CASE t = "prep"
      BY <1>1, <1>2, <2>1 DEF Phase, back
    <2>2. CASE t = "mux"
      BY <1>1, <1>2, <2>2 DEF Phase
    <2> QED  BY <2>1, <2>2
  <1>5. TypeOK'
    <2>1. back \in Labels /\ (t = "prep" => back \in PrepLabels) /\ (t = "mux" => back \in MuxLabels)
      BY <1>1 DEF Labels, PrepLabels, MuxLabels
    <2>2. pc' \in [Threads -> Labels]
      BY <1>1, <2>1
    <2>3. pc'["prep"] \in PrepLabels \cup InEvent \cup InNotify /\ pc'["mux"] \in MuxLabels \cup InEvent
      <3>1. /\ pc["prep"] \in PrepLabels \cup InEvent \cup InNotify
            /\ pc["mux"] \in MuxLabels \cup InEvent
        BY DEF IInv, TypeOK
      <3> QED  BY <1>2, <2>1, <3>1
    <2> QED  BY <1>1, <1>3, <2>2, <2>3 DEF IInv, TypeOK
  <1>6. ReportsReturn'
    BY <1>1, <1>2 DEF IInv, ReportsReturn
  <1>7. StatusOfPhase' /\ ContextOfPhase'
    BY <1>1, <1>4 DEF IInv, StatusOfPhase, ContextOfPhase
  <1>8. MuxBelongs' /\ StopWaits'
    <2>1. pc["prep"] = "done" => pc'["prep"] = "done"
      BY <1>1, <1>2
    <2>2. pc["mux"] \in Done => pc'["mux"] \in Done
      BY <1>1, <1>2 DEF Done
    <2> QED  BY <1>1, <1>3, <2>1, <2>2 DEF IInv, MuxBelongs, StopWaits
  <1>9. Mutexes'
    <2>1. listenerMutex = t /\ streamerMutex = t
      BY <1>1 DEF IInv, Mutexes
    <2>2. \A u \in Threads \ {t} : pc[u] \notin InEvent \ {"event"}
      BY <2>1 DEF IInv, Mutexes
    <2>3. \A u \in Threads : pc'[u] \notin InEvent \ {"event"}
      BY <1>1, <1>2, <2>2
    <2> QED  BY <1>1, <1>3, <1>4, <2>3, SessionAssumption DEF IInv, Mutexes
  <1> QED  BY <1>5, <1>6, <1>7, <1>8, <1>9 DEF IInv

\* The steps of a muxer event, on whichever thread reports it
LEMMA EventInv ==
  ASSUME IInv, NEW t \in {"prep", "mux"}, EventStep(t)
  PROVE IInv'
  <1> USE SessionAssumption DEF IInv, TypeOK, ReportsReturn, StatusOfPhase, ContextOfPhase,
        MuxBelongs, StopWaits, Mutexes, Phase, Done, Labels, ApiLabels, PrepLabels, MuxLabels
  <1>1. CASE EventLockMuxer(t)
    BY <1>1 DEF EventLockMuxer, MyMediaStreamerListener
  <1>2. CASE EventLockStreamer(t)
    BY <1>2 DEF EventLockStreamer, MyMediaStreamerListener
  <1>3. CASE EventCheck(t)
    BY <1>3 DEF EventCheck, MyMediaStreamerListener
  <1>4. CASE EventCall(t)
    BY <1>4 DEF EventCall, MyMediaStreamerListener
  <1>5. CASE EventUnlock(t)
    BY <1>5, EventUnlockInv
  <1>q. QED
    BY <1>1, <1>2, <1>3, <1>4, <1>5 DEF EventStep

\* Notify's call: the phase stays what it was, unless the call crashes.
LEMMA NotifyCallInv ==
  ASSUME IInv, NotifyCall("prep")
  PROVE IInv'
  <1> DEFINE back == event["prep"].back
  <1>1. /\ pc["prep"] = "notifyCall" /\ back \in {"start", "done"}
        /\ pc["api"] \in ApiLabels /\ pc["mux"] \in MuxLabels \cup InEvent
    BY DEF NotifyCall, IInv, TypeOK, ReportsReturn
  <1>2. Phase("prep") = back
    BY <1>1 DEF Phase
  <1>3. /\ pc' \in [Threads -> Labels]
        /\ pc'["api"] = pc["api"] /\ pc'["mux"] = pc["mux"]
        /\ pc'["prep"] \in {back, "crashed"}
    BY <1>1 DEF NotifyCall, IInv, TypeOK, Labels, PrepLabels
  <1>4. Phase("prep")' = pc'["prep"]
    BY <1>1, <1>3 DEF Phase
  <1>5. UNCHANGED <<event, handle, oc, end, mux_id, encode, stream, apiMutex,
                    listenerMutex, status, listening, streamerMutex, changes>>
    BY DEF NotifyCall
  <1>6. TypeOK'
    BY <1>1, <1>3, <1>5 DEF NotifyCall, MyMediaStreamerListener, IInv, TypeOK, PrepLabels
  <1>7. ReportsReturn'
    BY <1>1, <1>3, <1>5 DEF IInv, ReportsReturn
  <1>8. StatusOfPhase' /\ ContextOfPhase'
    BY <1>1, <1>2, <1>3, <1>4, <1>5 DEF IInv, StatusOfPhase, ContextOfPhase
  <1>9. MuxBelongs'
    BY <1>1, <1>3, <1>5 DEF IInv, MuxBelongs
  <1>10. StopWaits'
    BY <1>1, <1>3, <1>5 DEF IInv, StopWaits
  <1>11. Mutexes'
    BY <1>1, <1>2, <1>3, <1>4, <1>5 DEF IInv, Mutexes
  <1>q. QED
    BY <1>6, <1>7, <1>8, <1>9, <1>10, <1>11 DEF IInv

\* The end of koala_muxer_end: main has waited for both threads.
LEMMA EndJoinInv ==
  ASSUME IInv, EndJoin("api", "close") /\ UNCHANGED <<status, appVars>>
  PROVE IInv'
  <1>1. /\ pc["api"] = "joinMux" /\ pc["prep"] = "done" /\ handle = "open"
        /\ status \in {"streaming", "error"} /\ pc["mux"] \in Done
    BY DEF EndJoin, IInv, MuxBelongs, StopWaits, Done
  <1>2. /\ pc' \in [Threads -> Labels]
        /\ pc'["api"] = "close" /\ pc'["prep"] = "done" /\ pc'["mux"] = pc["mux"]
    BY <1>1 DEF EndJoin, IInv, TypeOK, Labels, ApiLabels
  <1>3. Phase("prep") = "done" /\ Phase("prep")' = "done"
    BY <1>1, <1>2 DEF Phase
  <1>4. UNCHANGED <<event, handle, oc, end, encode, stream, listenerMutex, status, appVars>>
    BY DEF EndJoin
  <1>5. mux_id' = FALSE /\ apiMutex' = NoThread
    BY DEF EndJoin
  <1>6. TypeOK'
    BY <1>1, <1>2, <1>4, <1>5 DEF IInv, TypeOK, ApiLabels
  <1>7. ReportsReturn' /\ StatusOfPhase' /\ ContextOfPhase'
    BY <1>1, <1>2, <1>3, <1>4 DEF IInv, ReportsReturn, StatusOfPhase, ContextOfPhase
  <1>8. MuxBelongs'
    BY <1>1, <1>2, <1>5 DEF MuxBelongs
  <1>9. StopWaits'
    BY <1>1, <1>2, <1>4 DEF IInv, StopWaits
  <1>10. Mutexes'
    BY <1>1, <1>2, <1>3, <1>4, <1>5, SessionAssumption DEF IInv, Mutexes
  <1>q. QED
    BY <1>6, <1>7, <1>8, <1>9, <1>10 DEF IInv

\* The prepare thread's steps
LEMMA PrepInv ==
  ASSUME IInv, PrepStep
  PROVE IInv'
  <1> USE SessionAssumption DEF IInv, TypeOK, ReportsReturn, StatusOfPhase, ContextOfPhase,
        MuxBelongs, StopWaits, Mutexes, Phase, Done, Labels, ApiLabels, PrepLabels, MuxLabels
  <1>1. CASE PrepOpen
    BY <1>1 DEF PrepOpen, Notify
  <1>2. CASE InitOpenLock("prep") /\ UNCHANGED <<status, appVars>>
    BY <1>2 DEF InitOpenLock, sendEvent
  <1>3. CASE InitOpenContext("prep") /\ UNCHANGED <<status, appVars>>
    BY <1>3 DEF InitOpenContext, sendEvent
  <1>4. CASE InitOpenUnlock("prep") /\ UNCHANGED <<status, appVars>>
    BY <1>4 DEF InitOpenUnlock, sendEvent
  <1>5. CASE InitOpenConnect("prep") /\ UNCHANGED <<status, appVars>>
    BY <1>5 DEF InitOpenConnect, sendEvent
  <1>6. CASE PrepOk
    BY <1>6 DEF PrepOk, Notify
  <1>7. CASE PrepFailed
    BY <1>7 DEF PrepFailed, Notify
  <1>8. CASE PrepStart
    BY <1>8 DEF PrepStart
  <1>9. CASE PrepStartMux
    BY <1>9 DEF PrepStartMux, koala_muxer_start
  <1>10. CASE NotifyCheck("prep")
    BY <1>10 DEF NotifyCheck
  <1>11. CASE NotifyCall("prep")
    BY <1>11, NotifyCallInv
  <1>12. CASE NotifyFreed("prep")
    BY <1>12 DEF NotifyFreed
  <1>13. CASE EventStep("prep")
    BY <1>13, EventInv
  <1>q. QED
    BY <1>1, <1>2, <1>3, <1>4, <1>5, <1>6, <1>7, <1>8, <1>9, <1>10, <1>11, <1>12, <1>13
       DEF PrepStep, PrepInitOpen

\* The mux thread's steps
LEMMA MuxInv ==
  ASSUME IInv, MuxStep
  PROVE IInv'
  <1> USE SessionAssumption DEF IInv, TypeOK, ReportsReturn, StatusOfPhase, ContextOfPhase,
        MuxBelongs, StopWaits, Mutexes, Phase, Done, Labels, ApiLabels, PrepLabels, MuxLabels
  <1>1. CASE MuxSelect /\ UNCHANGED <<status, appVars>>
    BY <1>1 DEF MuxSelect
  <1>2. CASE MuxGotFrame /\ UNCHANGED <<status, appVars>>
    BY <1>2 DEF MuxGotFrame
  <1>3. CASE MuxNoFrame /\ UNCHANGED <<status, appVars>>
    BY <1>3 DEF MuxNoFrame, StreamEnds
  <1>4. CASE MuxWriteOk /\ UNCHANGED <<status, appVars>>
    BY <1>4 DEF MuxWriteOk
  <1>5. CASE MuxWriteReported /\ UNCHANGED <<status, appVars>>
    BY <1>5 DEF MuxWriteReported, sendEvent
  <1>6. CASE MuxAfterReport /\ UNCHANGED <<status, appVars>>
    BY <1>6 DEF MuxAfterReport, StreamEnds
  <1>7. CASE MuxWriteSilent /\ UNCHANGED <<status, appVars>>
    BY <1>7 DEF MuxWriteSilent, StreamEnds
  <1>8. CASE MuxCheckEnd /\ UNCHANGED <<status, appVars>>
    BY <1>8 DEF MuxCheckEnd
  <1>9. CASE MuxTrailer /\ UNCHANGED <<status, appVars>>
    BY <1>9 DEF MuxTrailer
  <1>q. QED
    BY <1>1, <1>2, <1>3, <1>4, <1>5, <1>6, <1>7, <1>8, <1>9 DEF MuxStep

\* main's steps
LEMMA ApiInv ==
  ASSUME IInv, Prepare \/ UserStops \/ mediaStreamer_setListener \/ StopCall \/ StopStep
  PROVE IInv'
  <1> USE SessionAssumption DEF IInv, TypeOK, ReportsReturn, StatusOfPhase, ContextOfPhase,
        MuxBelongs, StopWaits, Mutexes, Phase, Done, Labels, ApiLabels, PrepLabels, MuxLabels
  <1>1. CASE Prepare
    BY <1>1 DEF Prepare
  <1>2. CASE UserStops
    BY <1>2 DEF UserStops
  <1>3. CASE mediaStreamer_setListener
    BY <1>3 DEF mediaStreamer_setListener
  <1>4. CASE StopCall
    BY <1>4 DEF StopCall
  <1>5. CASE StopJoinPrep
    BY <1>5 DEF StopJoinPrep
  <1>6. CASE EndFlag("api") /\ UNCHANGED <<status, appVars>>
    BY <1>6 DEF EndFlag
  <1>7. CASE EndLock("api") /\ UNCHANGED <<status, appVars>>
    <2>1. pc["prep"] = "done"
      BY <1>7 DEF EndLock
    <2>2. TypeOK' /\ ReportsReturn' /\ StatusOfPhase' /\ ContextOfPhase'
      BY <1>7 DEF EndLock
    <2>3. MuxBelongs' /\ StopWaits'
      BY <1>7 DEF EndLock
    <2>4. Mutexes'
      BY <1>7, <2>1 DEF EndLock
    <2>q. QED
      BY <2>2, <2>3, <2>4 DEF IInv
  <1>8. CASE EndJoin("api", "close") /\ UNCHANGED <<status, appVars>>
    BY <1>8, EndJoinInv
  <1>9. CASE StopClose
    BY <1>9 DEF StopClose, koala_muxer_close
  <1>10. CASE StopReturn
    BY <1>10 DEF StopReturn
  <1>11. CASE Release
    BY <1>11 DEF Release, koala_muxer_close
  <1>q. QED
    BY <1>1, <1>2, <1>3, <1>4, <1>5, <1>6, <1>7, <1>8, <1>9, <1>10, <1>11 DEF StopStep, StopEnd
------------------------------------------------------------------------------
\* The invariant holds initially: no thread but main has started.
LEMMA InvInit == Init => IInv
<1> SUFFICES ASSUME Init PROVE IInv
  OBVIOUS
<1>1. /\ pc["api"] = "idle" /\ pc["prep"] = "off" /\ pc["mux"] = "off"
      /\ pc \in [Threads -> Labels]
  BY DEF Init, Labels, ApiLabels, PrepLabels
<1>2. TypeOK
  <2>1. event \in [Threads -> [code : Codes, back : PrepLabels \cup MuxLabels]]
    BY DEF Init, PrepLabels
  <2>2. changes \in 0..ListenerChanges /\ reported \subseteq Threads \X Codes
    BY SessionAssumption DEF Init
  <2>q. QED
    BY <1>1, <2>1, <2>2 DEF Init, TypeOK, ApiLabels, PrepLabels, MuxLabels
<1>3. Phase("prep") = "off"
  BY <1>1 DEF Phase
<1>4. ReportsReturn /\ StatusOfPhase /\ ContextOfPhase
  BY <1>1, <1>3 DEF Init, ReportsReturn, StatusOfPhase, ContextOfPhase
<1>5. MuxBelongs /\ StopWaits /\ Mutexes
  BY <1>1, <1>3, SessionAssumption DEF Init, MuxBelongs, StopWaits, Mutexes, Done
<1>q. QED
  BY <1>2, <1>4, <1>5 DEF IInv

\* Every step preserves it, one lemma per thread.
LEMMA InvStep == IInv /\ [Next]_vars => IInv'
<1> SUFFICES ASSUME IInv, [Next]_vars PROVE IInv'
  OBVIOUS
<1>1. CASE Prepare \/ UserStops \/ mediaStreamer_setListener \/ StopCall \/ StopStep
  BY <1>1, ApiInv
<1>2. CASE PrepStep
  BY <1>2, PrepInv
<1>3. CASE MuxStep
  BY <1>3, MuxInv
<1>4. CASE EventStep("mux")
  BY <1>4, EventInv
<1>5. CASE UNCHANGED vars
  BY <1>5 DEF vars, IInv, TypeOK, ReportsReturn, StatusOfPhase, ContextOfPhase,
        MuxBelongs, StopWaits, Mutexes, Phase, Done, Labels, ApiLabels, PrepLabels, MuxLabels
<1>q. QED
  BY <1>1, <1>2, <1>3, <1>4, <1>5 DEF Next, Over

\* The inductive invariant of a session.
THEOREM SessionInvariance == Spec => []IInv
BY InvInit, InvStep, PTL DEF Spec

\* Every variable keeps its type; in particular no thread is ever at a place that
\* is not its own.
THEOREM SessionTypes == Spec => []TypeOK
<1>1. IInv => TypeOK
  BY DEF IInv
<1>q. QED
  BY <1>1, SessionInvariance, PTL

\* koala_muxer_close, by stop or by release, never takes the context away from a
\* running mux thread (koala_muxer.c:348, 378 against 443).
THEOREM MuxHasContext == Spec => []ContextOutlivesMux
<1>1. IInv => ContextOutlivesMux
  BY DEF IInv, MuxBelongs, ContextOutlivesMux
<1>q. QED
  BY <1>1, SessionInvariance, PTL

\* When mediaStreamer_stop has set status stoped, the threads are gone and the
\* context and the handle are freed.
THEOREM StopLeavesNothing == Spec => []StopIsComplete
<1>1. IInv => StopIsComplete
  BY DEF IInv, MuxBelongs, ContextOfPhase, StopWaits, Done, StopIsComplete
<1>q. QED
  BY <1>1, SessionInvariance, PTL

\* Whatever survives a stop that did nothing is a prepare thread in its last
\* notification, outside of every mutex.
THEOREM OnlyNotifySurvives == Spec => []OnlyErrorOutlivesStop
<1>1. IInv => OnlyErrorOutlivesStop
  BY SessionAssumption DEF IInv, TypeOK, OnlyErrorOutlivesStop, ReportsReturn, StatusOfPhase, ContextOfPhase,
        MuxBelongs, StopWaits, Mutexes, Phase, Done, Labels, ApiLabels, PrepLabels, MuxLabels
<1>q. QED
  BY <1>1, SessionInvariance, PTL

\* end is set only when the prepare thread has returned, so encode_interrupt_cb
\* never interrupts avio_open2.
THEOREM ConnectRunsToItsEnd == Spec => []ConnectIsNeverInterrupted
<1>1. IInv => ConnectIsNeverInterrupted
  BY DEF IInv, StopWaits, ConnectIsNeverInterrupted
<1>q. QED
  BY <1>1, SessionInvariance, PTL

------------------------------------------------------------------------------
\* Whoever comes to a mutex of the session, apart from setListener's caller, finds it free.
FreeWhenAsked ==
  /\ \A t \in Threads :
       /\ pc[t] \in {"initOpen", "startMux", "endLock", "close"} => apiMutex = NoThread
       /\ pc[t] = "event" => listenerMutex = NoThread
       /\ pc[t] = "eventLock" => streamerMutex = NoThread
  /\ pc["api"] = "stopReturned" /\ handle = "open" => apiMutex = NoThread

\* The two joins in stop, one of them with apiMutex held, are no deadlock: prepare and mux
\* thread never wait for a mutex, and main waits for nothing but these two threads.  (A caller
\* of setListener may wait for streamerMutex; the thread that has it waits for nobody.)
THEOREM MutexesAreFree == Spec => []FreeWhenAsked
<1>1. IInv => FreeWhenAsked
  <2> SUFFICES ASSUME IInv PROVE FreeWhenAsked
    OBVIOUS
  <2>1. NoThread \notin Threads /\ apiMutex \in Threads \cup {NoThread}
        /\ listenerMutex \in Threads \cup {NoThread} /\ streamerMutex \in Threads \cup {NoThread}
    BY SessionAssumption DEF IInv, TypeOK
  <2>2. pc["prep"] \notin Done => pc["mux"] \in Done
    BY DEF IInv, MuxBelongs, Done
  <2>3. ASSUME apiMutex # NoThread
        PROVE  pc["api"] = "joinMux" \/ Phase("prep") \in {"opening", "openUnlock", "connecting"}
    BY <2>1, <2>3 DEF IInv, Mutexes
  <2>4. ASSUME NEW t \in Threads, pc[t] \in {"initOpen", "startMux", "endLock", "close"}
        PROVE  apiMutex = NoThread
    <3>1. CASE t = "prep"
      BY <2>3, <2>4, <3>1 DEF IInv, StopWaits, Phase
    <3>2. CASE t = "api"
      <4>1. pc["api"] \in {"endLock", "close"}
        BY <2>4, <3>2 DEF IInv, TypeOK, ApiLabels
      <4>2. Phase("prep") = "done"
        BY <4>1 DEF IInv, StopWaits, Phase
      <4>q. QED
        BY <2>3, <4>1, <4>2
    <3>3. CASE t = "mux"
      BY <2>4, <3>3 DEF IInv, TypeOK, MuxLabels
    <3>q. QED
      BY <3>1, <3>2, <3>3
  <2>5. ASSUME NEW t \in Threads, pc[t] \in {"event", "eventLock"}
        PROVE  /\ pc[t] = "event" => listenerMutex = NoThread
               /\ pc[t] = "eventLock" => streamerMutex = NoThread
    <3>1. t \in {"prep", "mux"}
      BY <2>5 DEF IInv, TypeOK, ApiLabels
    <3>2. \A u \in Threads : u # t => pc[u] \notin InEvent
      BY <2>2, <2>5, <3>1 DEF IInv, TypeOK, ApiLabels, Done
    <3>q. QED
      BY <2>1, <2>5, <3>2 DEF IInv, Mutexes
  <2>6. pc["api"] = "stopReturned" => apiMutex = NoThread
    BY <2>3 DEF IInv, StatusOfPhase, StopWaits
  <2>q. QED
    BY <2>4, <2>5, <2>6 DEF FreeWhenAsked
<1>q. QED
  BY <1>1, SessionInvariance, PTL

------------------------------------------------------------------------------
\* Who writes what: the listener is changed by setListener only,
LEMMA NextListening ==
  ASSUME [Next]_vars, ~mediaStreamer_setListener
  PROVE listening' = listening
  <1>1. CASE Prepare \/ UserStops \/ mediaStreamer_setListener \/ StopCall
    BY <1>1 DEF Prepare, UserStops, mediaStreamer_setListener, StopCall
  <1>2. CASE StopStep
    BY <1>2 DEF StopStep, StopJoinPrep, StopEnd, EndFlag, EndLock, EndJoin, StopClose,
                StopReturn, Release, koala_muxer_close
  <1>3. CASE PrepOpen \/ PrepInitOpen
    BY <1>3 DEF PrepOpen, PrepInitOpen, InitOpenLock, InitOpenContext,
                InitOpenUnlock, InitOpenConnect, Notify, sendEvent
  <1>4. CASE PrepOk \/ PrepFailed \/ PrepStart \/ PrepStartMux
    BY <1>4 DEF PrepOk, PrepFailed, PrepStart, PrepStartMux, koala_muxer_start, Notify
  <1>5. CASE NotifyCheck("prep") \/ NotifyCall("prep") \/ NotifyFreed("prep")
    BY <1>5 DEF NotifyCheck, NotifyCall, NotifyFreed, MyMediaStreamerListener
  <1>6. CASE EventStep("prep") \/ EventStep("mux")
    BY <1>6 DEF EventStep, EventLockMuxer, EventLockStreamer, EventCheck, EventCall,
                EventUnlock, MyMediaStreamerListener
  <1>7. CASE MuxStep
    BY <1>7 DEF MuxStep, MuxSelect, MuxGotFrame, MuxNoFrame, MuxWriteOk, MuxWriteReported,
                MuxAfterReport, MuxWriteSilent, MuxCheckEnd, MuxTrailer, StreamEnds, sendEvent
  <1>8. CASE UNCHANGED vars
    BY <1>8 DEF vars
  <1>q. QED
    BY <1>1, <1>2, <1>3, <1>4, <1>5, <1>6, <1>7, <1>8 DEF Next, PrepStep, Over

\* the status by five actions,
LEMMA NextStatus ==
  ASSUME [Next]_vars, status' # status
  PROVE Prepare \/ PrepOk \/ PrepFailed \/ PrepStart \/ StopReturn
  <1>1. CASE Prepare \/ UserStops \/ mediaStreamer_setListener \/ StopCall
    BY <1>1 DEF Prepare, UserStops, mediaStreamer_setListener, StopCall
  <1>2. CASE StopStep
    BY <1>2 DEF StopStep, StopJoinPrep, StopEnd, EndFlag, EndLock, EndJoin, StopClose,
                StopReturn, Release, koala_muxer_close
  <1>3. CASE PrepOpen \/ PrepInitOpen
    BY <1>3 DEF PrepOpen, PrepInitOpen, InitOpenLock, InitOpenContext,
                InitOpenUnlock, InitOpenConnect, Notify, sendEvent
  <1>4. CASE PrepOk \/ PrepFailed \/ PrepStart \/ PrepStartMux
    BY <1>4 DEF PrepOk, PrepFailed, PrepStart, PrepStartMux, koala_muxer_start, Notify
  <1>5. CASE NotifyCheck("prep") \/ NotifyCall("prep") \/ NotifyFreed("prep")
    BY <1>5 DEF NotifyCheck, NotifyCall, NotifyFreed, MyMediaStreamerListener
  <1>6. CASE EventStep("prep") \/ EventStep("mux")
    BY <1>6 DEF EventStep, EventLockMuxer, EventLockStreamer, EventCheck, EventCall,
                EventUnlock, MyMediaStreamerListener
  <1>7. CASE MuxStep
    BY <1>7 DEF MuxStep, MuxSelect, MuxGotFrame, MuxNoFrame, MuxWriteOk, MuxWriteReported,
                MuxAfterReport, MuxWriteSilent, MuxCheckEnd, MuxTrailer, StreamEnds, sendEvent
  <1>8. CASE UNCHANGED vars
    BY <1>8 DEF vars
  <1>q. QED
    BY <1>1, <1>2, <1>3, <1>4, <1>5, <1>6, <1>7, <1>8 DEF Next, PrepStep, Over

\* and a thread comes to call the listener of a muxer event from EventCheck only.
LEMMA NextCall ==
  ASSUME IInv, [Next]_vars
  PROVE \A t \in {"prep", "mux"} :
          pc'[t] = "eventCall" => pc[t] = "eventCall" \/ EventCheck(t)
  <1> USE DEF IInv, TypeOK, ReportsReturn
  <1>1. CASE Prepare \/ UserStops \/ mediaStreamer_setListener \/ StopCall
    BY <1>1 DEF Prepare, UserStops, mediaStreamer_setListener, StopCall
  <1>2. CASE StopStep
    BY <1>2 DEF StopStep, StopJoinPrep, StopEnd, EndFlag, EndLock, EndJoin, StopClose,
                StopReturn, Release, koala_muxer_close
  <1>3. CASE PrepOpen \/ PrepInitOpen
    BY <1>3 DEF PrepOpen, PrepInitOpen, InitOpenLock, InitOpenContext,
                InitOpenUnlock, InitOpenConnect, Notify, sendEvent
  <1>4. CASE PrepOk \/ PrepFailed \/ PrepStart \/ PrepStartMux
    BY <1>4 DEF PrepOk, PrepFailed, PrepStart, PrepStartMux, koala_muxer_start, Notify
  <1>5. CASE NotifyCheck("prep") \/ NotifyCall("prep") \/ NotifyFreed("prep")
    BY <1>5 DEF NotifyCheck, NotifyCall, NotifyFreed, MyMediaStreamerListener
  <1>6. CASE EventStep("prep") \/ EventStep("mux")
    BY <1>6 DEF EventStep, EventLockMuxer, EventLockStreamer, EventCheck, EventCall,
                EventUnlock, MyMediaStreamerListener
  <1>7. CASE MuxStep
    BY <1>7 DEF MuxStep, MuxSelect, MuxGotFrame, MuxNoFrame, MuxWriteOk, MuxWriteReported,
                MuxAfterReport, MuxWriteSilent, MuxCheckEnd, MuxTrailer, StreamEnds, sendEvent
  <1>8. CASE UNCHANGED vars
    BY <1>8 DEF vars
  <1>q. QED
    BY <1>1, <1>2, <1>3, <1>4, <1>5, <1>6, <1>7, <1>8 DEF Next, PrepStep, Over

\* A thread that is about to call the listener holds mediaStreamer's
\* listenerMutex, and setListener changes the listener under it.
THEOREM MuxerEventsReachListener == Spec => []EventReachesListener
<1>1. Init => EventReachesListener
  BY DEF Init, EventReachesListener
<1>2. IInv /\ EventReachesListener /\ [Next]_vars => EventReachesListener'
  <2> SUFFICES ASSUME IInv, EventReachesListener, [Next]_vars
               PROVE EventReachesListener'
    OBVIOUS
  <2>1. CASE mediaStreamer_setListener
    BY <2>1, SessionAssumption DEF mediaStreamer_setListener, EventReachesListener, IInv, Mutexes
  <2>2. ASSUME ~mediaStreamer_setListener PROVE EventReachesListener'
    <3>1. listening' = listening
      BY <2>2, NextListening
    <3>2. \A t \in {"prep", "mux"} :
            pc'[t] = "eventCall" => pc[t] = "eventCall" \/ EventCheck(t)
      BY NextCall
    <3>q. QED
      BY <3>1, <3>2 DEF EventCheck, EventReachesListener, IInv, TypeOK
  <2>q. QED
    BY <2>1, <2>2
<1>q. QED
  BY <1>1, <1>2, SessionInvariance, PTL DEF Spec

\* The status only moves forward; no stop is undone by a prepare or a start that
\* is still on its way.
THEOREM StatusNeverGoesBack == Spec => StatusMovesForward
<1> DEFINE Forward == \/ StatusOrder[status] < StatusOrder[status']
                      \/ status = "error" /\ status' = "stoped"
<1>1. ASSUME IInv, [Next]_vars, status' # status PROVE Forward
  <2>1. Prepare \/ PrepOk \/ PrepFailed \/ PrepStart \/ StopReturn
    BY <1>1, NextStatus
  <2>2. CASE Prepare
    BY <2>2 DEF Prepare, StatusOrder
  <2>3. CASE PrepOk \/ PrepFailed
    <3>1. status = "preparing"
      BY <2>3, <1>1 DEF PrepOk, PrepFailed, IInv, StatusOfPhase, Phase
    <3>q. QED
      BY <2>3, <3>1 DEF PrepOk, PrepFailed, StatusOrder
  <2>4. CASE PrepStart
    <3>1. status = "prepared"
      BY <2>4, <1>1 DEF PrepStart, IInv, StatusOfPhase, Phase
    <3>q. QED
      BY <2>4, <3>1 DEF PrepStart, StatusOrder
  <2>5. CASE StopReturn
    <3>1. status \in {"init", "preparing", "prepared", "streaming", "error"}
      BY <2>5, <1>1 DEF StopReturn, IInv, TypeOK, StopWaits
    <3>q. QED
      BY <2>5, <3>1 DEF StopReturn, StatusOrder
  <2>q. QED
    BY <2>1, <2>2, <2>3, <2>4, <2>5
<1>2. IInv /\ [Next]_vars => [status' # status => Forward]_vars
  BY <1>1
<1>q. QED
  BY <1>2, SessionInvariance, PTL DEF Spec, StatusMovesForward

------------------------------------------------------------------------------
\* The events.

\* Where the prepare thread can still be once it has reported a failure
Failing == {"openUnlock", "openFailed", "done", "crashed"}

\* What has been reported belongs to where the two threads are, for a listener that is there
\* all along; what is about to be notified says how the prepare went.
Told ==
  /\ pc["mux"] # "off" => pc["prep"] = "done"
  /\ pc["prep"] \in InNotify => event["prep"].code = IF event["prep"].back = "start" THEN "OK" ELSE "ERROR"
  /\ \A code \in Codes : <<"mux", code>> \in reported => pc["mux"] # "off"
  /\ changes = 0 =>
       /\ listening
       /\ pc["prep"] \in {"start", "startMux"} \/ pc["mux"] # "off" => <<"prep", "OK">> \in reported
       /\ \A code \in Codes \ {"OK"} :
            <<"prep", code>> \in reported => pc["mux"] = "off" /\ Phase("prep") \in Failing

\* The steps of each thread
LEMMA ToldPrep ==
  ASSUME IInv, Told, PrepStep
  PROVE  Told'
<1> USE DEF Phase
<1>1. CASE PrepOpen
  BY <1>1 DEF PrepOpen, Notify, IInv, TypeOK, Told, Failing
<1>2. CASE PrepInitOpen
  BY <1>2 DEF PrepInitOpen, InitOpenLock, InitOpenContext, InitOpenUnlock, InitOpenConnect, sendEvent,
              IInv, TypeOK, Told, Failing
<1>3. CASE PrepOk \/ PrepFailed
  BY <1>3 DEF PrepOk, PrepFailed, Notify, IInv, TypeOK, Told, Failing
<1>4. CASE PrepStart \/ PrepStartMux
  BY <1>4 DEF PrepStart, PrepStartMux, koala_muxer_start, IInv, TypeOK, Told, Failing
<1>5. CASE EventStep("prep")
  BY <1>5 DEF EventStep, EventLockMuxer, EventLockStreamer, EventCheck, EventCall, EventUnlock,
              MyMediaStreamerListener, IInv, TypeOK, ReportsReturn, Told, Failing
<1>6. CASE NotifyCheck("prep") \/ NotifyFreed("prep")
  BY <1>6 DEF NotifyCheck, NotifyFreed, IInv, TypeOK, ReportsReturn, Told, Failing
<1>7. CASE NotifyCall("prep")
  BY <1>7 DEF NotifyCall, MyMediaStreamerListener, IInv, TypeOK, ReportsReturn, Told, Failing
<1>q. QED
  BY <1>1, <1>2, <1>3, <1>4, <1>5, <1>6, <1>7 DEF PrepStep

LEMMA ToldMux ==
  ASSUME IInv, Told, MuxStep \/ EventStep("mux")
  PROVE  Told'
<1> USE DEF Phase
<1>1. CASE MuxStep
  BY <1>1 DEF MuxStep, MuxSelect, MuxGotFrame, MuxNoFrame, MuxWriteOk, MuxWriteReported,
              MuxAfterReport, MuxWriteSilent, MuxCheckEnd, MuxTrailer, StreamEnds, sendEvent,
              IInv, TypeOK, Told
<1>2. CASE EventStep("mux")
  BY <1>2 DEF EventStep, EventLockMuxer, EventLockStreamer, EventCheck, EventCall, EventUnlock,
              MyMediaStreamerListener, IInv, TypeOK, ReportsReturn, Told
<1>q. QED
  BY <1>1, <1>2

LEMMA ToldApi ==
  ASSUME IInv, Told, Prepare \/ UserStops \/ mediaStreamer_setListener \/ StopCall \/ StopStep
  PROVE  Told'
<1> USE DEF Phase
<1>1. CASE Prepare
  BY <1>1 DEF Prepare, IInv, TypeOK, StatusOfPhase, Told, Failing
<1>2. CASE UserStops \/ StopCall
  BY <1>2 DEF UserStops, StopCall, IInv, TypeOK, Told
<1>3. CASE mediaStreamer_setListener
  BY <1>3, SessionAssumption DEF mediaStreamer_setListener, IInv, TypeOK, Told
<1>4. CASE StopStep
  BY <1>4 DEF StopStep, StopJoinPrep, StopEnd, EndFlag, EndLock, EndJoin, StopClose,
              StopReturn, Release, koala_muxer_close, IInv, TypeOK, Told
<1>q. QED
  BY <1>1, <1>2, <1>3, <1>4

\* With a listener that is not changed, a failed prepare is never followed by a stream, and the
\* mux thread reports nothing before the prepare thread has reported that it is ready.
THEOREM EventsTellTheSession == Spec => []EventsAreConsistent
<1>1. Init => Told
  BY DEF Init, Told
<1>2. IInv /\ Told /\ [Next]_vars => Told'
  <2>1. ASSUME Told, UNCHANGED vars PROVE Told'
    BY <2>1 DEF vars, Told, Phase
  <2>q. QED
    BY <2>1, ToldPrep, ToldMux, ToldApi DEF Next, Over
<1>3. Told => EventsAreConsistent
  BY DEF Told, EventsAreConsistent
<1>q. QED
  BY <1>1, <1>2, <1>3, SessionInvariance, PTL DEF Spec
==============================================================================

--------------------------- MODULE AppShutdownProofs ---------------------------
(***************************************************************************)
(* What TLAPS proves about the lives of the application's objects.         *)
(*                                                                         *)
(* A step uses what exists if main has not come far enough to delete it.   *)
(* So the invariant says, for each place of main, what is deleted (Shares, *)
(* Lives) and which threads have ended before that (Joined, SessionOver).  *)
(* What a step uses and does not find is then read off its list.           *)
(***************************************************************************)
EXTENDS AppShutdown, TLAPS

\* The places of main, by what it has finished.
Tearing == {"destroy", "joinEncoder", "deleteEncoder", "deleteRaw", "deleteEs"}
AfterReader == {"streamerStop", "joinPrep", "joinMux", "release", "free", "return"}
AfterEncoders == {"joinReader"} \cup AfterReader
AfterSession == {"release", "free", "return"}

Places ==
  /\ DOMAIN pc = Threads
  /\ found \subseteq Streams
  /\ pc["main"] \in {"run"} \cup Tearing \cup AfterEncoders
  /\ pc["reader"] \in {"loop", "read", "clean", "ended"} \cup found
  /\ \A s \in Streams : pc[s] = "off" <=> s \notin found

\* What all threads hang on goes in the last two steps.
Shares ==
  /\ pc["main"] # "return" => {cont, input, stack} \subseteq alive
  /\ pc["main"] \notin {"free", "return"} => session \in alive

\* The stream that main is tearing down, at these places of main.
Torn(s, places) == pc["main"] \in places /\ s = Destroyed

\* An encoder goes with its queues, and after its thread has ended.
Life(s) ==
  /\ s \notin Left => encoder(s) \notin alive /\ raw(s) \notin alive /\ pc[s] = "ended"
  /\ s \in Left => /\ encoder(s) \in alive <=> ~Torn(s, {"deleteRaw", "deleteEs"})
                   /\ raw(s) \in alive <=> ~Torn(s, {"deleteEs"})
  /\ Torn(s, {"deleteEncoder", "deleteRaw", "deleteEs"}) => pc[s] = "ended"

Lives ==
  /\ \A s \in found : Life(s)
  /\ pc["main"] = "run" => Left = found
  /\ pc["main"] \in Tearing \ {"destroy"} => Left # {}
  /\ pc["main"] \in AfterEncoders => Left = {}

Joined ==
  /\ pc["main"] \in AfterReader => pc["reader"] = "ended"
  /\ over = "returned" => pc["main"] = "return"

\* The session's threads: the mux thread is one of a session that was started, and both have
\* ended when the session is released, unless it has failed.
SessionOver ==
  /\ pc["mux"] # "off" => pc["prep"] = "started"
  /\ flags.status = "error" => pc["prep"] \in {"notify", "ended"}
  /\ pc["main"] = "joinMux" => pc["prep"] \in {"started", "ended"}
  /\ pc["main"] \in AfterSession /\ flags.status # "error" =>
       \/ pc["prep"] = "started" /\ pc["mux"] = "ended"
       \/ pc["prep"] = "ended"

\* When main returns, no thread is at work but the prepare thread of a session that failed,
\* which is at its last report.
ReturnsLast ==
  over = "returned" =>
    /\ pc["reader"] = "ended" /\ \A s \in found : pc[s] = "ended"
    /\ pc["mux"] \in {"off", "ended"}
    /\ pc["prep"] \in {"started", "ended"} \/ (flags.status = "error" /\ pc["prep"] = "notify")

\* What the last step can have missed: see the properties.
SharedUses == \A use \in invalid : use[2] \in Shared => use[1] = "prep" /\ flags.status = "error"

UsesOK == SharedUses /\ OnlyLateUsers /\ SafeWhileRunning

IInv == TypeOK /\ Places /\ Shares /\ Lives /\ Joined /\ SessionOver /\ UsesOK

------------------------------------------------------------------------------
LEMMA Objects ==
  /\ \A s \in Streams : {encoder(s), raw(s), es(s)} \cap Shared = {}
  /\ \A s, u \in Streams : encoder(s) # raw(u) /\ encoder(s) # es(u) /\ raw(s) # es(u)
  /\ \A s, u \in Streams : encoder(s) = encoder(u) \/ raw(s) = raw(u) \/ es(s) = es(u) => s = u
  /\ {cont, input, stack} \cap {session} = {}
  /\ Shared = {cont, input, stack, session}
<1>1. \A s \in Streams : {encoder(s), raw(s), es(s)} \cap Shared = {}
  BY DEF Streams, Shared, cont, input, stack, session, encoder, raw, es
<1>2. \A s, u \in Streams : encoder(s) # raw(u) /\ encoder(s) # es(u) /\ raw(s) # es(u)
  BY DEF Streams, encoder, raw, es
<1>3. \A s, u \in Streams : encoder(s) = encoder(u) \/ raw(s) = raw(u) \/ es(s) = es(u) => s = u
  BY DEF Streams, encoder, raw, es
<1>4. {cont, input, stack} \cap {session} = {}
  BY DEF cont, input, stack, session
<1> QED  BY <1>1, <1>2, <1>3, <1>4 DEF Shared

LEMMA Names ==
  /\ Threads = {"main", "reader", "prep", "mux", "video", "audio"} /\ Streams = {"video", "audio"}
  /\ Streams \subseteq Threads
BY DEF Threads, Streams

\* What a step misses is what of its list is not there.
LEMMA UsesKeep ==
  ASSUME NEW t \in Threads, NEW from, NEW to, NEW objects, Step(t, from, to, objects),
         (objects \ alive) \cap Shared = {} \/ (t = "prep" /\ flags'.status = "error"),
         t \in Streams => objects \subseteq alive,
         t = "main" => objects \ alive \subseteq Encoders(Streams),
         t = "reader" \/ \A s \in Streams : raw(s) \notin objects \ alive,
         t \in {"reader", "mux"} \/ \A s \in Streams : es(s) \notin objects \ alive,
         pc'["main"] = "run" /\ found = Streams => objects \subseteq alive
  PROVE  UsesOK'
<1>1. invalid' = {t} \X (objects \ alive) /\ found' = found
  BY DEF Step
<1>2. \A use \in invalid' : use[1] = t /\ use[2] \in objects \ alive
  BY <1>1
<1>3. SharedUses'
  BY <1>2 DEF SharedUses, Shared
<1>4. OnlyLateUsers'
  BY <1>2 DEF OnlyLateUsers, Encoders, EsQueues
<1>5. SafeWhileRunning'
  <2>1. objects \subseteq alive => invalid' = {}
    BY <1>2
  <2> QED  BY <1>1, <2>1 DEF SafeWhileRunning
<1> QED  BY <1>3, <1>4, <1>5 DEF UsesOK

\* While main is in its loop everything is there that was made.
LEMMA AllThere ==
  ASSUME IInv, pc["main"] = "run"
  PROVE  /\ Shared \subseteq alive
         /\ \A s \in found : {encoder(s), raw(s), es(s)} \subseteq alive
<1>1. Shared \subseteq alive
  BY Objects DEF IInv, Shares
<1>2. ASSUME NEW s \in found PROVE {encoder(s), raw(s), es(s)} \subseteq alive
  <2>1. s \in Left /\ Life(s)
    BY DEF IInv, Lives
  <2>2. es(s) \in alive
    BY <2>1 DEF Left
  <2> QED  BY <2>1, <2>2 DEF Life, Torn
<1> QED  BY <1>1, <1>2

\* A step of a thread that is not main.
LEMMA OtherStep ==
  ASSUME IInv, NEW t \in Threads \ {"main"}, NEW from, NEW to, NEW objects,
         Step(t, from, to, objects), alive' = alive, from # "ended"
  PROVE  /\ pc' = [pc EXCEPT ![t] = to] /\ pc'[t] = to /\ pc[t] = from /\ DOMAIN pc' = Threads
         /\ \A u \in Threads \ {t} : pc'[u] = pc[u]
         /\ "main" \in Threads \ {t} /\ pc'["main"] = pc["main"] /\ found' = found /\ hung' = hung
         /\ Left' = Left /\ Shares' /\ Lives'
<1>1. /\ pc' = [pc EXCEPT ![t] = to] /\ pc[t] = from /\ DOMAIN pc = Threads /\ found' = found /\ hung' = hung
      /\ found \subseteq Streams /\ Streams \subseteq Threads /\ "main" \notin Streams
  BY Names DEF Step, IInv, Places
<1>2. /\ pc'[t] = to /\ DOMAIN pc' = Threads /\ \A u \in Threads \ {t} : pc'[u] = pc[u]
      /\ "main" \in Threads \ {t} /\ pc'["main"] = pc["main"]
  BY <1>1, Names
<1>3. Left' = Left /\ Destroyed' = Destroyed
  BY <1>1 DEF Left, Destroyed
<1>4. Shares'
  BY <1>2 DEF IInv, Shares
<1>5. ASSUME NEW s \in found PROVE Life(s)'
  <2>1. Life(s) /\ s \in Threads
    BY <1>1 DEF IInv, Lives
  <2>2. pc[s] = "ended" => pc'[s] = "ended"
    BY <1>1, <1>2, <2>1
  <2> QED  BY <1>2, <1>3, <2>1, <2>2 DEF Life, Torn
<1>6. Lives'
  BY <1>1, <1>2, <1>3, <1>5 DEF IInv, Lives
<1> QED  BY <1>1, <1>2, <1>3, <1>4, <1>6

------------------------------------------------------------------------------
\* The reader: main has not yet joined it.
LEMMA ReaderStep ==
  ASSUME IInv, ReaderNext
  PROVE  IInv'
<1>1. PICK from \in {"loop", "read", "clean"} \cup found,
           to \in {"loop", "read", "clean", "ended"} \cup found,
           objects \in SUBSET (Shared \cup UNION {{encoder(s), raw(s), es(s)} : s \in found}) :
        /\ Step("reader", from, to, objects)
        /\ UNCHANGED <<alive, selected, flags, over>> /\ filled' \subseteq filled
  <2>1. CASE ReaderLoop
    BY <2>1, Objects DEF ReaderLoop, Plain, data
  <2>2. CASE ReaderRead
    BY <2>2, Objects DEF ReaderRead, Plain, data
  <2>3. CASE ReaderEnqueue
    <3>1. PICK s \in found : Plain("reader", s, "clean", {cont, raw(s)})
      BY <2>3 DEF ReaderEnqueue
    <3> QED  BY <3>1, Objects DEF Plain, data
  <2>4. CASE ReaderClean
    <3>1. PICK cleaned \in SUBSET (filled \cap found), empty \in SUBSET Streams :
            /\ Step("reader", "clean", "loop", {cont, stack} \cup EsQueues(found) \cup Encoders(cleaned))
            /\ filled' = filled \ empty
            /\ UNCHANGED <<alive, selected, flags, over>>
      BY <2>4 DEF ReaderClean
    <3>2. EsQueues(found) \cup Encoders(cleaned) \subseteq UNION {{encoder(s), raw(s), es(s)} : s \in found}
      BY DEF EsQueues, Encoders
    <3> QED  BY <3>1, <3>2, Objects
  <2> QED  BY <2>1, <2>2, <2>3, <2>4 DEF ReaderNext
<1>2. "ended" \notin found /\ from # "ended" /\ "reader" \in Threads \ {"main"} /\ found \subseteq Streams
  BY Names DEF IInv, Places
<1>3. /\ pc'["reader"] = to /\ pc["reader"] = from /\ DOMAIN pc' = Threads
      /\ \A u \in Threads \ {"reader"} : pc'[u] = pc[u]
      /\ pc'["main"] = pc["main"] /\ found' = found /\ hung' = hung /\ Left' = Left
      /\ Shares' /\ Lives'
  BY <1>1, <1>2, OtherStep
<1>4. pc["main"] \notin AfterReader
  BY <1>2, <1>3 DEF IInv, Joined
<1>5. TypeOK'
  BY <1>1, <1>3, Names DEF IInv, TypeOK, Made, Flags
<1>6. Places' /\ Joined' /\ SessionOver'
  BY <1>1, <1>3, <1>4, Names DEF IInv, Places, Joined, SessionOver
<1>7. UsesOK'
  <2>1. Shared \subseteq alive
    BY <1>4, Objects DEF IInv, Shares, AfterReader
  <2>2. pc["main"] = "run" => objects \subseteq alive
    BY <1>1, AllThere
  <2> QED  BY <1>1, <1>2, <1>3, <2>1, <2>2, Names, UsesKeep
<1> QED  BY <1>3, <1>5, <1>6, <1>7 DEF IInv

\* An encoder thread: what it uses is there until main has joined it.
LEMMA EncoderStep ==
  ASSUME IInv, NEW s \in Streams, EncoderNext(s)
  PROVE  IInv'
<1>1. PICK from \in {"loop", "deal", "enqueue"}, to \in {"loop", "deal", "enqueue", "ended"},
           objects \in SUBSET {encoder(s), raw(s), es(s), cont, stack} :
        /\ Step(s, from, to, objects)
        /\ UNCHANGED <<alive, selected, flags, over>> /\ filled' \subseteq filled \cup {s}
  BY DEF EncoderNext, EncoderLoop, EncoderDeal, EncoderEnqueue, EncoderGivesUp, Plain, data
<1>2. /\ s \in Threads \ {"main"} /\ from # "ended" /\ from # "off" /\ s # "reader" /\ s # "prep" /\ s # "mux"
  BY Names
<1>3. /\ pc'[s] = to /\ pc[s] = from /\ DOMAIN pc' = Threads
      /\ \A u \in Threads \ {s} : pc'[u] = pc[u]
      /\ pc'["main"] = pc["main"] /\ found' = found /\ hung' = hung /\ Left' = Left
      /\ Shares' /\ Lives'
  BY <1>1, <1>2, OtherStep
<1>4. /\ s \in found /\ s \in Left /\ {encoder(s), raw(s), es(s)} \subseteq alive
      /\ pc["main"] \notin AfterEncoders
  <2>1. s \in found /\ Life(s)
    BY <1>2, <1>3 DEF IInv, Places, Lives
  <2>2. s \in Left /\ encoder(s) \in alive /\ raw(s) \in alive
    BY <1>2, <1>3, <2>1 DEF Life, Torn
  <2> QED  BY <2>1, <2>2 DEF IInv, Lives, Left
<1>5. TypeOK'
  BY <1>1, <1>2, <1>3, <1>4, Names DEF IInv, TypeOK, Made, Flags
<1>6. Places' /\ Joined' /\ SessionOver'
  BY <1>1, <1>2, <1>3, <1>4, Names DEF IInv, Places, Joined, SessionOver
<1>7. UsesOK'
  <2>1. {cont, stack} \subseteq alive
    BY <1>4 DEF IInv, Shares, AfterEncoders, AfterReader
  <2>2. objects \subseteq alive
    BY <1>1, <1>4, <2>1
  <2> QED  BY <1>1, <1>2, <2>2, UsesKeep
<1> QED  BY <1>3, <1>5, <1>6, <1>7 DEF IInv

\* The prepare thread: only when the session has failed does main not wait for it.
LEMMA PrepStep ==
  ASSUME IInv, PrepNext
  PROVE  IInv'
<1>1. PICK from \in {"open", "meta", "connect", "failed", "start", "notify"},
           to \in {"meta", "connect", "failed", "start", "notify", "started", "ended"},
           objects \in SUBSET ({session, cont, input} \cup Encoders(Streams)) :
        /\ Step("prep", from, to, objects) /\ UNCHANGED <<alive, filled, selected>>
        /\ \/ from \in {"open", "meta"} /\ to \in {"meta", "connect", "notify"} /\ flags' = flags
           \/ from = "connect" /\ to = "start" /\ flags' = [flags EXCEPT !.status = "prepared"]
           \/ from = "failed" /\ to = "notify" /\ flags' = [flags EXCEPT !.status = "error"]
           \/ /\ from \in {"meta", "connect"} /\ to = "failed"
              /\ \E stop \in {flags.stop, TRUE} : flags' = [flags EXCEPT !.stop = stop]
           \/ from = "start" /\ to = "started" /\ flags' = [flags EXCEPT !.status = "streaming"]
           \/ from = "notify" /\ to = "ended" /\ flags' = [flags EXCEPT !.stop = TRUE]
        /\ over' \in {"no", "crashed"}
  <2>1. CASE PrepOpen
    BY <2>1 DEF PrepOpen, Plain, Step, data
  <2>2. CASE PrepMeta
    BY <2>2 DEF PrepMeta, InitOpenFails, Flag, Step
  <2>3. CASE PrepConnect
    BY <2>3 DEF PrepConnect, InitOpenFails, Flag, Step
  <2>4. CASE PrepNotify
    BY <2>4 DEF PrepNotify, Flag, Step
  <2>5. CASE PrepStart
    BY <2>5 DEF PrepStart, Flag, Step
  <2>6. CASE PrepFailed
    BY <2>6 DEF PrepFailed, Flag, Step
  <2> QED  BY <2>1, <2>2, <2>3, <2>4, <2>5, <2>6 DEF PrepNext
<1>2. /\ "prep" \in Threads \ {"main"} /\ from # "ended" /\ "prep" \notin Streams
      /\ \A s \in Streams : raw(s) \notin objects /\ es(s) \notin objects
  <2>1. \A s \in Streams : /\ raw(s) \notin Shared /\ raw(s) \notin Encoders(Streams)
                           /\ es(s) \notin Shared /\ es(s) \notin Encoders(Streams)
    BY Objects DEF Encoders
  <2> QED  BY <1>1, <2>1, Names, Objects
<1>3. /\ pc'["prep"] = to /\ pc["prep"] = from /\ DOMAIN pc' = Threads
      /\ \A u \in Threads \ {"prep"} : pc'[u] = pc[u]
      /\ pc'["main"] = pc["main"] /\ found' = found /\ hung' = hung /\ Left' = Left
      /\ Shares' /\ Lives'
  BY <1>1, <1>2, OtherStep
<1>4. /\ pc["mux"] = "off" /\ pc["main"] # "joinMux" /\ (flags.status = "error" => from = "notify")
      /\ pc["main"] \in AfterSession => flags.status = "error"
  BY <1>3 DEF IInv, SessionOver
<1>5. flags' \in Flags
      /\ (flags'.status = "error" => to \in {"notify", "ended"})
      /\ (flags.status = "error" => flags'.status = "error")
  <2>1. flags \in Flags
    BY DEF IInv, TypeOK
  <2>2. \/ flags' = flags
        \/ flags' = [flags EXCEPT !.stop = TRUE] /\ to = "ended"
        \/ /\ \E stop \in {flags.stop, TRUE} : flags' = [flags EXCEPT !.stop = stop]
           /\ from # "notify"
        \/ /\ \E status \in {"prepared", "streaming"} : flags' = [flags EXCEPT !.status = status]
           /\ from # "notify"
        \/ flags' = [flags EXCEPT !.status = "error"] /\ to = "notify"
    BY <1>1
  <2>3. CASE flags' = flags
    BY <1>1, <1>4, <2>1, <2>3
  <2>4. CASE flags' = [flags EXCEPT !.stop = TRUE] /\ to = "ended"
    BY <2>1, <2>4 DEF Flags
  <2>5. CASE flags' = [flags EXCEPT !.status = "error"] /\ to = "notify"
    BY <2>1, <2>5 DEF Flags
  <2>6. ASSUME NEW status \in {"prepared", "streaming"}, flags' = [flags EXCEPT !.status = status],
               from # "notify"
        PROVE  flags'.status = status /\ flags.status # "error" /\
               flags' \in Flags
    BY <1>4, <2>1, <2>6 DEF Flags
  <2>7. ASSUME NEW stop \in {flags.stop, TRUE}, flags' = [flags EXCEPT !.stop = stop], from # "notify"
        PROVE  flags'.status = flags.status /\ flags.status # "error" /\ flags' \in Flags
    BY <1>4, <2>1, <2>7 DEF Flags
  <2> QED  BY <2>2, <2>3, <2>4, <2>5, <2>6, <2>7
<1>6. TypeOK'
  BY <1>1, <1>3, <1>5, Names DEF IInv, TypeOK, Made, Flags
<1>7. Places' /\ Joined' /\ SessionOver'
  BY <1>1, <1>3, <1>4, <1>5, Names DEF IInv, Places, Joined, SessionOver
<1>8. UsesOK'
  <2>1. Shared \subseteq alive \/ flags'.status = "error"
    BY <1>4, <1>5, Objects DEF IInv, Shares, AfterSession
  <2>2. ASSUME pc["main"] = "run", found = Streams PROVE objects \subseteq alive
    BY <1>1, <2>2, AllThere DEF Encoders, Shared
  <2> QED  BY <1>1, <1>2, <1>3, <2>1, <2>2, UsesKeep
<1> QED  BY <1>3, <1>6, <1>7, <1>8 DEF IInv

\* The mux thread: the session and what all share is there as long as it runs.
LEMMA MuxStep ==
  ASSUME IInv, MuxNext
  PROVE  IInv'
<1>1. PICK from \in {"off", "select", "get", "again", "write", "check"},
           to \in {"select", "get", "again", "write", "check", "ended"},
           objects \in SUBSET {session, cont, stack, es(selected), encoder(selected)} :
        /\ Step("mux", from, to, objects) /\ UNCHANGED <<alive, over>>
        /\ filled' \subseteq filled /\ selected' \in Streams \cup {selected}
        /\ flags' = flags \/ flags' = [flags EXCEPT !.stop = TRUE]
        /\ from = "off" => pc["prep"] = "started"
  <2>1. CASE MuxStart
    BY <2>1 DEF MuxStart, Plain, data
  <2>2. CASE MuxSelect
    BY <2>2 DEF MuxSelect, Plain, data
  <2>3. CASE MuxFirst
    BY <2>3 DEF MuxFirst, MuxGet, TakesFrame, Plain, data
  <2>4. CASE MuxAgain
    BY <2>4 DEF MuxAgain, MuxGet, TakesFrame, Plain, data
  <2>5. CASE MuxWrite
    BY <2>5 DEF MuxWrite, Plain, Flag, data
  <2>6. CASE MuxCheck
    BY <2>6 DEF MuxCheck, Plain, data
  <2> QED  BY <2>1, <2>2, <2>3, <2>4, <2>5, <2>6 DEF MuxNext
<1>2. /\ "mux" \in Threads \ {"main"} /\ from # "ended" /\ "mux" \notin Streams /\ selected \in Streams
      /\ \A s \in Streams : raw(s) \notin objects
  BY Names, Objects DEF IInv, TypeOK
<1>3. /\ pc'["mux"] = to /\ pc["mux"] = from /\ DOMAIN pc' = Threads
      /\ \A u \in Threads \ {"mux"} : pc'[u] = pc[u]
      /\ pc'["main"] = pc["main"] /\ found' = found /\ hung' = hung /\ Left' = Left
      /\ Shares' /\ Lives'
  BY <1>1, <1>2, OtherStep
<1>4. pc["prep"] = "started" /\ flags.status # "error" /\ pc["main"] \notin AfterSession
  BY <1>1, <1>3 DEF IInv, SessionOver
<1>5. flags' \in Flags
      /\ flags'.status = flags.status
  BY <1>1 DEF IInv, TypeOK, Flags
<1>6. TypeOK'
  BY <1>1, <1>2, <1>3, <1>5, Names DEF IInv, TypeOK, Made, Flags
<1>7. Places' /\ Joined' /\ SessionOver'
  BY <1>1, <1>3, <1>4, <1>5, Names DEF IInv, Places, Joined, SessionOver
<1>8. UsesOK'
  <2>1. Shared \subseteq alive
    BY <1>4, Objects DEF IInv, Shares, AfterSession
  <2>2. ASSUME pc["main"] = "run", found = Streams PROVE objects \subseteq alive
    BY <1>1, <1>2, <2>1, <2>2, AllThere DEF Shared
  <2> QED  BY <1>1, <1>2, <1>3, <2>1, <2>2, UsesKeep
<1> QED  BY <1>3, <1>6, <1>7, <1>8 DEF IInv

------------------------------------------------------------------------------
\* A step of main.
LEMMA MainStep ==
  ASSUME IInv, NEW from, NEW to, NEW objects, Step("main", from, to, objects)
  PROVE  /\ pc'["main"] = to /\ pc["main"] = from /\ DOMAIN pc' = Threads
         /\ \A u \in Threads \ {"main"} : pc'[u] = pc[u]
         /\ pc'["reader"] = pc["reader"] /\ pc'["prep"] = pc["prep"] /\ pc'["mux"] = pc["mux"]
         /\ \A s \in Streams : pc'[s] = pc[s]
         /\ found' = found /\ hung' = hung /\ found \subseteq Streams /\ over = "no"
BY Names DEF Step, IInv, Places

\* What main misses: nothing, or the encoder of frames that it left in a queue.
LEMMA MainUses ==
  ASSUME NEW from, NEW to, NEW objects, Step("main", from, to, objects),
         objects \ alive \subseteq Encoders(Streams), to = "run" => objects \subseteq alive,
         pc'["main"] = to
  PROVE  UsesOK'
<1>1. \A s \in Streams : raw(s) \notin objects \ alive /\ es(s) \notin objects \ alive
  BY Objects DEF Encoders
<1>2. (objects \ alive) \cap Shared = {}
  BY Objects DEF Encoders
<1> QED  BY <1>1, <1>2, Names, UsesKeep

\* main in its loop
LEMMA LoopStep ==
  ASSUME IInv, UserStops \/ ShowState \/ LeaveLoop
  PROVE  IInv'
<1>1. PICK to \in {"run", "destroy"}, objects \in SUBSET (Shared \cup EsQueues(found)) :
        /\ Step("main", "run", to, objects) /\ UNCHANGED <<alive, filled, selected, over>>
        /\ flags' = flags \/ flags' = [flags EXCEPT !.stop = TRUE]
  BY Objects DEF UserStops, ShowState, LeaveLoop, Plain, Flag, data
<1>2. /\ pc'["main"] = to /\ pc["main"] = "run" /\ DOMAIN pc' = Threads
      /\ \A u \in Threads \ {"main"} : pc'[u] = pc[u]
      /\ pc'["reader"] = pc["reader"] /\ pc'["prep"] = pc["prep"] /\ pc'["mux"] = pc["mux"]
      /\ \A s \in Streams : pc'[s] = pc[s]
      /\ found' = found /\ hung' = hung /\ found \subseteq Streams /\ over = "no"
  BY <1>1, MainStep
<1>3. Left' = Left /\ Destroyed' = Destroyed
  BY <1>1, <1>2 DEF Left, Destroyed
<1>4. flags' \in Flags
      /\ flags'.status = flags.status
  BY <1>1 DEF IInv, TypeOK, Flags
<1>5. TypeOK'
  BY <1>1, <1>2, <1>3, <1>4 DEF IInv, TypeOK, Made, Flags
<1>6. Places' /\ Shares' /\ Joined' /\ SessionOver'
  BY <1>1, <1>2, <1>4 DEF IInv, Places, Shares, Joined, SessionOver, Tearing, AfterReader, AfterSession
<1>7. Lives'
  <2>1. ASSUME NEW s \in found PROVE Life(s)'
    BY <1>1, <1>2, <1>3 DEF IInv, Lives, Life, Torn
  <2> QED  BY <1>1, <1>2, <1>3, <2>1 DEF IInv, Lives, Tearing, AfterEncoders, AfterReader
<1>8. UsesOK'
  <2>1. objects \subseteq alive
    BY <1>1, <1>2, AllThere DEF EsQueues
  <2> QED  BY <1>1, <1>2, <2>1, MainUses
<1> QED  BY <1>5, <1>6, <1>7, <1>8 DEF IInv

\* The stream that is torn down.
LEMMA TornDown ==
  ASSUME IInv, pc["main"] \in Tearing, Left # {}
  PROVE  /\ Destroyed \in Left /\ Destroyed \in found /\ Destroyed \in Streams
         /\ es(Destroyed) \in alive /\ Shared \subseteq alive
         /\ encoder(Destroyed) \in alive <=> pc["main"] \notin {"deleteRaw", "deleteEs"}
         /\ raw(Destroyed) \in alive <=> pc["main"] # "deleteEs"
         /\ pc["main"] \in {"deleteEncoder", "deleteRaw", "deleteEs"} => pc[Destroyed] = "ended"
<1>1. Destroyed \in Left /\ Left \subseteq found /\ found \subseteq Streams
  BY Names DEF IInv, Places, Left, Destroyed
<1>2. es(Destroyed) \in alive /\ Life(Destroyed)
  BY <1>1 DEF IInv, Lives, Left
<1>3. Shared \subseteq alive
  BY Objects DEF IInv, Shares, Tearing
<1> QED  BY <1>1, <1>2, <1>3 DEF Life, Torn

\* What every step of destroyMediaThread leaves alone; what is left to show is Lives.
LEMMA TearingStep ==
  ASSUME IInv, NEW from \in Tearing, NEW to \in Tearing, NEW objects, Step("main", from, to, objects),
         objects \ alive \subseteq Encoders(Streams), UNCHANGED <<selected, over>>,
         alive' \subseteq alive, Shared \subseteq alive', filled' \subseteq Left',
         flags' \in Flags,
         flags'.status = flags.status, Lives'
  PROVE  IInv'
<1>1. /\ pc'["main"] = to /\ pc["main"] = from /\ DOMAIN pc' = Threads
      /\ \A u \in Threads \ {"main"} : pc'[u] = pc[u]
      /\ pc'["reader"] = pc["reader"] /\ pc'["prep"] = pc["prep"] /\ pc'["mux"] = pc["mux"]
      /\ \A s \in Streams : pc'[s] = pc[s]
      /\ found' = found /\ hung' = hung /\ found \subseteq Streams /\ over = "no"
  BY MainStep
<1>2. TypeOK'
  BY <1>1 DEF IInv, TypeOK, Made, Tearing, Flags
<1>3. Places' /\ Joined' /\ SessionOver'
  BY <1>1 DEF IInv, Places, Joined, SessionOver, Tearing, AfterReader, AfterSession
<1>4. Shares'
  BY Objects DEF Shares
<1>5. UsesOK'
  BY <1>1, MainUses DEF Tearing
<1> QED  BY <1>2, <1>3, <1>4, <1>5 DEF IInv

LEMMA DestroyStep ==
  ASSUME IInv, StopEncoder \/ JoinEncoder \/ DeleteEncoder \/ DeleteRaw \/ DeleteEs
  PROVE  IInv'
<1> DEFINE d == Destroyed
<1>1. PICK from, to, objects : from \in Tearing /\ to \in Tearing /\ Step("main", from, to, objects)
  BY DEF StopEncoder, JoinEncoder, DeleteEncoder, DeleteRaw, DeleteEs, Flag, Plain, Delete, Tearing
<1>2. /\ pc'["main"] = to /\ pc["main"] = from
      /\ \A s \in Streams : pc'[s] = pc[s]
      /\ found' = found /\ found \subseteq Streams
  BY <1>1, MainStep
<1>3. Left # {}
  BY <1>1, <1>2 DEF StopEncoder, JoinEncoder, DeleteEncoder, DeleteRaw, DeleteEs, Flag, Plain, Delete, Step,
                    IInv, Lives, Tearing
<1>4. /\ d \in Left /\ d \in found /\ d \in Streams /\ es(d) \in alive /\ Shared \subseteq alive
      /\ encoder(d) \in alive <=> from \notin {"deleteRaw", "deleteEs"}
      /\ raw(d) \in alive <=> from # "deleteEs"
      /\ from \in {"deleteEncoder", "deleteRaw", "deleteEs"} => pc[d] = "ended"
  BY <1>1, <1>2, <1>3, TornDown
<1>5. /\ flags \in Flags
      /\ filled \subseteq Left /\ encoder(d) \in Encoders(Streams)
      /\ {cont, input, stack, session} \subseteq alive
  BY <1>4, Objects DEF IInv, TypeOK, Encoders
<1>6. \A s \in found : Life(s)
  BY DEF IInv, Lives
<1> HIDE DEF d
\* es(d) is there before and after the steps that do not delete it.
<1>7. ASSUME alive' = alive \/ alive' = alive \ {encoder(d)} \/ alive' = alive \ {raw(d)}
      PROVE  Left' = Left /\ Destroyed' = d
  <2>1. \A s \in Streams : es(s) # encoder(d) /\ es(s) # raw(d)
    BY <1>4, Objects
  <2>2. Left' = Left
    BY <1>2, <1>7, <2>1 DEF Left
  <2> QED  BY <2>2 DEF Destroyed, d
<1>8. ASSUME Left' = Left, Destroyed' = d, to # "destroy", from # "destroy" \/ alive' = alive,
             alive' \subseteq alive,
             \A s \in found : s # d => {encoder(s), raw(s)} \cap alive' = {encoder(s), raw(s)} \cap alive,
             encoder(d) \in alive' <=> to \notin {"deleteRaw", "deleteEs"},
             raw(d) \in alive' <=> to # "deleteEs",
             to \in {"deleteEncoder", "deleteRaw", "deleteEs"} => pc[d] = "ended"
      PROVE  Lives'
  <2>1. ASSUME NEW s \in found PROVE Life(s)'
    <3>1. CASE s = d
      BY <1>2, <1>4, <1>8, <3>1 DEF Life, Torn
    <3>2. CASE s # d
      <4>1. encoder(s) \in alive' <=> encoder(s) \in alive
        BY <1>8, <3>2
      <4>2. raw(s) \in alive' <=> raw(s) \in alive
        BY <1>8, <3>2
      <4>3. pc'[s] = pc[s] /\ Life(s)
        BY <1>2, <1>6
      <4> QED  BY <1>8, <3>2, <4>1, <4>2, <4>3 DEF Life, Torn, d
    <3> QED  BY <3>1, <3>2
  <2> QED  BY <1>1, <1>2, <1>3, <1>8, <2>1 DEF Lives, Tearing, AfterEncoders, AfterReader
<1>9. CASE StopEncoder
  <2>1. /\ Step("main", "destroy", "joinEncoder", {cont, encoder(d)}) /\ alive' = alive
        /\ UNCHANGED <<filled, selected, over>> /\ flags' = [flags EXCEPT !.stopping = @ \cup {d}]
    BY <1>9 DEF StopEncoder, Flag, d
  <2>2. from = "destroy" /\ to = "joinEncoder"
    BY <1>2, <2>1, MainStep
  <2>3. Lives'
    BY <1>4, <1>7, <1>8, <2>1, <2>2
  <2>4. flags' \in Flags
        /\ flags'.status = flags.status
    BY <1>4, <1>5, <2>1 DEF Flags
  <2> QED  BY <1>1, <1>4, <1>5, <1>7, <2>1, <2>2, <2>3, <2>4, TearingStep
<1>10. CASE JoinEncoder
  <2>1. /\ Step("main", "joinEncoder", "deleteEncoder", {encoder(d)}) /\ pc[d] = "ended" /\ alive' = alive
        /\ UNCHANGED <<filled, selected, over, flags>>
    BY <1>10 DEF JoinEncoder, Plain, data, d
  <2>2. from = "joinEncoder" /\ to = "deleteEncoder"
    BY <1>2, <2>1, MainStep
  <2>3. Lives'
    BY <1>4, <1>7, <1>8, <2>1, <2>2
  <2> QED  BY <1>1, <1>4, <1>5, <1>7, <2>1, <2>2, <2>3, TearingStep
<1>11. CASE DeleteEncoder
  <2>1. /\ Step("main", "deleteEncoder", "deleteRaw", {cont, encoder(d)}) /\ alive' = alive \ {encoder(d)}
        /\ UNCHANGED <<filled, selected, over, flags>>
    BY <1>11 DEF DeleteEncoder, Delete, d
  <2>2. from = "deleteEncoder" /\ to = "deleteRaw"
    BY <1>2, <2>1, MainStep
  <2>3. /\ \A s \in found : s # d => encoder(s) # encoder(d) /\ raw(s) # encoder(d)
        /\ raw(d) # encoder(d) /\ encoder(d) \notin Shared
    BY <1>2, <1>4, Objects
  <2>4. Lives'
    BY <1>4, <1>7, <1>8, <2>1, <2>2, <2>3
  <2> QED  BY <1>1, <1>4, <1>5, <1>7, <2>1, <2>2, <2>3, <2>4, TearingStep
<1>12. CASE DeleteRaw
  <2>1. /\ Step("main", "deleteRaw", "deleteEs", {cont, raw(d), stack}) /\ alive' = alive \ {raw(d)}
        /\ UNCHANGED <<filled, selected, over, flags>>
    BY <1>12 DEF DeleteRaw, Delete, d
  <2>2. from = "deleteRaw" /\ to = "deleteEs"
    BY <1>2, <2>1, MainStep
  <2>3. /\ \A s \in found : s # d => encoder(s) # raw(d) /\ raw(s) # raw(d)
        /\ raw(d) # encoder(d) /\ raw(d) \notin Shared
    BY <1>2, <1>4, Objects
  <2>4. Lives'
    BY <1>4, <1>7, <1>8, <2>1, <2>2, <2>3
  <2> QED  BY <1>1, <1>4, <1>5, <1>7, <2>1, <2>2, <2>3, <2>4, TearingStep
<1>13. CASE DeleteEs
  <2>1. /\ Step("main", "deleteEs", "destroy", {cont, es(d)} \cup Encoders(filled \cap {d}))
        /\ alive' = alive \ {es(d)} /\ filled' = filled \ {d}
        /\ UNCHANGED <<selected, over, flags>>
    BY <1>13 DEF DeleteEs, d
  <2>2. from = "deleteEs" /\ to = "destroy"
    BY <1>2, <2>1, MainStep
  <2>3. /\ \A s \in Streams : encoder(s) # es(d) /\ raw(s) # es(d) /\ (s # d => es(s) # es(d))
        /\ es(d) \notin Shared
    BY <1>4, Objects
  <2>4. Left' = Left \ {d}
    BY <1>2, <1>4, <2>1, <2>3 DEF Left
  <2>5. ASSUME NEW s \in found PROVE Life(s)'
    <3>1. /\ ~Torn(s, {"deleteRaw", "deleteEs"})' /\ ~Torn(s, {"deleteEs"})'
          /\ ~Torn(s, {"deleteEncoder", "deleteRaw", "deleteEs"})'
      BY <1>2, <2>2 DEF Torn
    <3>2. /\ pc'[s] = pc[s] /\ Life(s)
          /\ (encoder(s) \in alive' <=> encoder(s) \in alive) /\ (raw(s) \in alive' <=> raw(s) \in alive)
      BY <1>2, <1>6, <2>1, <2>3
    <3>3. CASE s = d
      BY <1>4, <2>2, <2>4, <3>1, <3>2, <3>3 DEF Life
    <3>4. CASE s # d
      BY <2>4, <3>1, <3>2, <3>4 DEF Life, Torn, d
    <3> QED  BY <3>3, <3>4
  <2>6. Lives'
    BY <1>2, <2>2, <2>5 DEF Lives, AfterEncoders, AfterReader
  <2>7. ({cont, es(d)} \cup Encoders(filled \cap {d})) \ alive \subseteq Encoders(Streams)
    BY <1>4, <1>5 DEF Encoders
  <2> QED  BY <1>1, <1>4, <1>5, <2>1, <2>2, <2>3, <2>4, <2>6, <2>7, TearingStep
<1> QED  BY <1>9, <1>10, <1>11, <1>12, <1>13

\* A step of main from the last encoder on: what it keeps, and what it has waited for.
EndMove(from, to, objects) ==
  /\ from \in {"destroy", "joinReader", "streamerStop", "joinPrep", "joinMux", "release", "free"}
  /\ to \in AfterEncoders /\ objects \subseteq Shared
  /\ Step("main", from, to, objects) /\ UNCHANGED <<filled, selected, over>>
  /\ alive' \subseteq alive /\ alive \ Shared \subseteq alive'
  /\ to # "return" => {cont, input, stack} \cap alive \subseteq alive'
  /\ to \notin {"free", "return"} => session \in alive' \/ session \notin alive
  /\ from = "free" => objects = {cont, input, stack} /\ to = "return"
  /\ from = "destroy" => Left = {}
  /\ to \in AfterReader => from \in AfterReader \/ pc["reader"] = "ended"
  /\ \/ flags' = flags
     \/ from = "joinPrep" /\ flags' = [flags EXCEPT !.end = TRUE]
     \/ from = "joinMux" /\ flags' = [flags EXCEPT !.status = "stoped"]
  /\ to = "joinMux" => pc["prep"] \in {"started", "ended"}
  /\ to \in AfterSession => \/ from \in AfterSession
                            \/ from = "streamerStop" /\ flags.status = "error"
                            \/ from = "joinMux" /\ (pc["prep"] = "started" => pc["mux"] = "ended")
                               /\ flags'.status = "stoped"

\* The joins that follow, and the end of the session and of what is shared.
LEMMA EndStep ==
  ASSUME IInv, DestroyDone \/ JoinReader \/ StreamerStop \/ JoinPrep \/ JoinMux \/ ReleaseSession \/ Free
  PROVE  IInv'
<1>1. PICK from, to, objects : EndMove(from, to, objects)
  <2> DEFINE After == /\ AfterEncoders = {"joinReader", "streamerStop", "joinPrep", "joinMux",
                                          "release", "free", "return"}
                     /\ AfterReader = AfterEncoders \ {"joinReader"}
                     /\ AfterSession = {"release", "free", "return"}
             Uses == /\ {cont} \subseteq Shared /\ {session} \subseteq Shared
                     /\ {cont, session} \subseteq Shared /\ {cont, input, stack} \subseteq Shared
                     /\ {cont, input, stack} \cap {session} = {}
  <2>a. After
    BY DEF AfterEncoders, AfterReader, AfterSession
  <2>b. Uses
    BY Objects
  <2>1. CASE DestroyDone
    <3>1. Step("main", "destroy", "joinReader", {cont}) /\ UNCHANGED data /\ Left = {}
      BY <2>1 DEF DestroyDone, Plain
    <3>2. EndMove("destroy", "joinReader", {cont})
      BY <3>1, <2>a, <2>b DEF EndMove, data
    <3> QED  BY <3>2
  <2>2. CASE JoinReader
    <3>1. Step("main", "joinReader", "streamerStop", {cont}) /\ UNCHANGED data /\ pc["reader"] = "ended"
      BY <2>2 DEF JoinReader, Plain
    <3>2. EndMove("joinReader", "streamerStop", {cont})
      BY <3>1, <2>a, <2>b DEF EndMove, data
    <3> QED  BY <3>2
  <2>3. CASE StreamerStop
    <3>1. CASE flags.status = "error"
      <4>1. Step("main", "streamerStop", "release", {cont, session}) /\ UNCHANGED data
        BY <2>3, <3>1 DEF StreamerStop, Plain
      <4>2. EndMove("streamerStop", "release", {cont, session})
        BY <3>1, <4>1, <2>a, <2>b DEF EndMove, data
      <4> QED  BY <4>2
    <3>2. CASE flags.status # "error"
      <4>1. Step("main", "streamerStop", "joinPrep", {cont, session}) /\ UNCHANGED data
        BY <2>3, <3>2 DEF StreamerStop, Plain
      <4>2. EndMove("streamerStop", "joinPrep", {cont, session})
        BY <4>1, <2>a, <2>b DEF EndMove, data
      <4> QED  BY <4>2
    <3> QED  BY <3>1, <3>2
  <2>4. CASE JoinPrep
    <3>1. /\ Step("main", "joinPrep", "joinMux", {session}) /\ UNCHANGED <<alive, filled, selected, over>>
          /\ flags' = [flags EXCEPT !.end = TRUE] /\ pc["prep"] \in {"started", "ended"}
      BY <2>4 DEF JoinPrep, Flag
    <3>2. EndMove("joinPrep", "joinMux", {session})
      BY <3>1, <2>a, <2>b DEF EndMove
    <3> QED  BY <3>2
  <2>5. CASE JoinMux
    <3>1. /\ Step("main", "joinMux", "release", {session}) /\ UNCHANGED <<alive, filled, selected, over>>
          /\ flags' = [flags EXCEPT !.status = "stoped"] /\ (pc["prep"] = "started" => pc["mux"] = "ended")
      BY <2>5 DEF JoinMux, Flag
    <3>2. flags \in Flags
      BY DEF IInv, TypeOK
    <3>3. flags'.status = "stoped"
      BY <3>1, <3>2 DEF Flags
    <3>4. EndMove("joinMux", "release", {session})
      BY <3>1, <3>3, <2>a, <2>b DEF EndMove
    <3> QED  BY <3>4
  <2>6. CASE ReleaseSession
    <3>1. /\ Step("main", "release", "free", {cont, session}) /\ alive' = alive \ {session}
          /\ UNCHANGED <<filled, selected, flags, over>>
      BY <2>6 DEF ReleaseSession, Delete
    <3>2. /\ alive' \subseteq alive /\ alive \ Shared \subseteq alive'
          /\ {cont, input, stack} \cap alive \subseteq alive'
      BY <3>1, <2>b
    <3>3. EndMove("release", "free", {cont, session})
      BY <3>1, <3>2, <2>a, <2>b DEF EndMove
    <3> QED  BY <3>3
  <2>7. CASE Free
    <3>1. /\ Step("main", "free", "return", {cont, input, stack}) /\ alive' = alive \ {cont, input, stack}
          /\ UNCHANGED <<filled, selected, flags, over>>
      BY <2>7 DEF Free, Delete
    <3>2. alive' \subseteq alive /\ alive \ Shared \subseteq alive'
      BY <3>1, <2>b
    <3>3. EndMove("free", "return", {cont, input, stack})
      BY <3>1, <3>2, <2>a, <2>b DEF EndMove
    <3> QED  BY <3>3
  <2> QED  BY <2>1, <2>2, <2>3, <2>4, <2>5, <2>6, <2>7
<1> USE DEF EndMove
<1>2. /\ pc'["main"] = to /\ pc["main"] = from /\ DOMAIN pc' = Threads
      /\ \A u \in Threads \ {"main"} : pc'[u] = pc[u]
      /\ pc'["reader"] = pc["reader"] /\ pc'["prep"] = pc["prep"] /\ pc'["mux"] = pc["mux"]
      /\ \A s \in Streams : pc'[s] = pc[s]
      /\ found' = found /\ hung' = hung /\ found \subseteq Streams /\ over = "no"
  BY <1>1, MainStep
<1>3. Left = {}
  BY <1>1, <1>2 DEF IInv, Lives, AfterEncoders, AfterReader
<1>4. Left' = {}
  BY <1>1, <1>2, <1>3 DEF Left
<1>5. /\ flags' \in Flags
      /\ flags'.status = flags.status \/ flags'.status = "stoped"
      /\ flags'.status = "error" => flags.status = "error"
  <2>1. flags \in Flags
    BY DEF IInv, TypeOK
  <2>2. CASE flags' = [flags EXCEPT !.end = TRUE]
    BY <2>1, <2>2 DEF Flags
  <2>3. CASE flags' = [flags EXCEPT !.status = "stoped"]
    BY <2>1, <2>3 DEF Flags
  <2>4. CASE flags' = flags
    BY <1>2, <2>1, <2>4 DEF Flags
  <2>5. \/ flags' = flags
        \/ flags' = [flags EXCEPT !.end = TRUE]
        \/ flags' = [flags EXCEPT !.status = "stoped"]
    BY <1>1
  <2> QED  BY <2>2, <2>3, <2>4, <2>5
<1>6. TypeOK'
  <2>1. /\ TypeOK /\ Made' = Made /\ flags' \in Flags'
        /\ to \in {"joinReader", "streamerStop", "joinPrep", "joinMux", "release", "free", "return"}
        /\ UNCHANGED <<filled, selected, over>> /\ alive' \subseteq alive
    BY <1>1, <1>2, <1>5 DEF IInv, Made, Flags, AfterEncoders, AfterReader
  <2>2. filled' \subseteq Left'
    BY <1>3, <1>4, <2>1 DEF TypeOK
  <2>3. /\ pc'["reader"] \in {"loop", "read", "clean", "ended"} \cup found'
        /\ \A s \in Streams : pc'[s] \in {"off", "loop", "deal", "enqueue", "ended"}
    BY <1>2, <2>1 DEF TypeOK
  <2> HIDE DEF EndMove
  <2> QED  BY <1>2, <2>1, <2>2, <2>3 DEF TypeOK
<1>7. Places'
  BY <1>1, <1>2 DEF IInv, Places
<1>8. Shares'
  <2>1. {cont, input, stack} \subseteq alive /\ (from # "free" => session \in alive)
    <3>1. from \notin {"free", "return"} => session \in alive
      BY <1>2 DEF IInv, Shares
    <3>2. from \in {"destroy", "joinReader", "streamerStop", "joinPrep", "joinMux", "release", "free"}
      BY <1>1
    <3> QED  BY <1>2, <3>1, <3>2 DEF IInv, Shares
  <2>2. to \notin {"free", "return"} => from # "free"
    BY <1>1
  <2> QED  BY <1>1, <1>2, <2>1, <2>2 DEF Shares
<1>9. Lives'
  <2>1. ASSUME NEW s \in found PROVE Life(s)'
    <3>1. encoder(s) \notin alive /\ raw(s) \notin alive /\ pc[s] = "ended" /\ pc'[s] = pc[s]
      BY <1>2, <1>3 DEF IInv, Lives, Life
    <3> QED  BY <1>1, <1>2, <1>4, <3>1 DEF Life, Torn, AfterEncoders, AfterReader
  <2> QED  BY <1>1, <1>2, <1>4, <2>1 DEF Lives, Tearing, AfterEncoders, AfterReader
<1>10. Joined'
  BY <1>1, <1>2 DEF IInv, Joined
<1>11. SessionOver'
  BY <1>1, <1>2, <1>5 DEF IInv, SessionOver, Flags
<1>12. UsesOK'
  <2>1. objects \subseteq alive
    BY <1>1, <1>2, Objects DEF IInv, Shares
  <2> QED  BY <1>1, <1>2, <2>1, MainUses DEF AfterEncoders, AfterReader
<1> QED  BY <1>6, <1>7, <1>8, <1>9, <1>10, <1>11, <1>12 DEF IInv

\* The process ends or has ended, or a thread hangs.
LEMMA OverStep ==
  ASSUME IInv, Return \/ Crash \/ Hang \/ UNCHANGED vars
  PROVE  IInv'
<1>1. /\ UNCHANGED <<pc, found, alive, filled, selected, flags>>
      /\ over' \in {"no", "returned", "crashed"} /\ (invalid' = {} \/ invalid' = invalid)
      /\ over' = "returned" => over = "returned" \/ pc["main"] = "return"
      /\ hung' \subseteq Threads \ Streams
  <2>1. CASE Hang
    <3>1. PICK use \in invalid : hung' = hung \cup {use[1]}
      BY <2>1 DEF Hang
    <3>2. use[1] \in Threads \ Streams
      BY DEF IInv, UsesOK, OnlyLateUsers, TypeOK
    <3> QED  BY <2>1, <3>1, <3>2 DEF Hang, data, IInv, TypeOK
  <2>2. CASE Return \/ Crash \/ UNCHANGED vars
    BY <2>2 DEF Return, Crash, Ends, vars, data, IInv, TypeOK
  <2> QED  BY <2>1, <2>2
<1>2. Left' = Left /\ Destroyed' = Destroyed /\ Made' = Made
  BY <1>1 DEF Left, Destroyed, Made
<1>3. TypeOK' /\ Places' /\ Shares' /\ Joined' /\ SessionOver'
  BY <1>1, <1>2 DEF IInv, TypeOK, Places, Shares, Joined, SessionOver, Flags
<1>4. Lives'
  BY <1>1, <1>2 DEF IInv, Lives, Life, Torn
<1>5. UsesOK'
  BY <1>1 DEF IInv, UsesOK, SharedUses, OnlyLateUsers, SafeWhileRunning
<1> QED  BY <1>3, <1>4, <1>5 DEF IInv

LEMMA InitInv ==
  ASSUME Init
  PROVE  IInv
<1>1. /\ DOMAIN pc = Threads /\ found \subseteq Streams
      /\ pc["main"] = "run" /\ pc["reader"] = "loop" /\ pc["prep"] = "open" /\ pc["mux"] = "off"
      /\ \A s \in Streams : pc[s] = IF s \in found THEN "loop" ELSE "off"
  BY Names DEF Init, Devices
<1>2. Left = found
  BY DEF Init, Made, Left
<1>3. TypeOK
  BY <1>1, <1>2, Names DEF Init, TypeOK, Flags
<1>4. Places /\ Joined /\ SessionOver
  BY <1>1 DEF Init, Places, Joined, SessionOver, AfterReader, AfterSession
<1>5. Shares
  BY Objects DEF Init, Made, Shares
<1>6. Lives
  BY <1>1, <1>2 DEF Init, Made, Lives, Life, Torn, Tearing, AfterEncoders, AfterReader
<1>7. UsesOK
  BY DEF Init, UsesOK, SharedUses, OnlyLateUsers, SafeWhileRunning
<1> QED  BY <1>3, <1>4, <1>5, <1>6, <1>7 DEF IInv

LEMMA NextInv ==
  ASSUME IInv, [Next]_vars
  PROVE  IInv'
<1>1. CASE ReaderNext
  BY <1>1, ReaderStep
<1>2. CASE \E s \in Streams : EncoderNext(s)
  BY <1>2, EncoderStep
<1>3. CASE PrepNext
  BY <1>3, PrepStep
<1>4. CASE MuxNext
  BY <1>4, MuxStep
<1>5. CASE UserStops \/ ShowState \/ LeaveLoop
  BY <1>5, LoopStep
<1>6. CASE ShutdownNext
  BY <1>6, DestroyStep, EndStep, OverStep DEF ShutdownNext
<1>7. CASE Crash \/ Hang \/ Over \/ UNCHANGED vars
  BY <1>7, OverStep DEF Over
<1> QED  BY <1>1, <1>2, <1>3, <1>4, <1>5, <1>6, <1>7 DEF Next
------------------------------------------------------------------------------
THEOREM Invariance == Spec => []IInv
<1>1. IInv /\ [Next]_vars => IInv'
  BY NextInv
<1> QED  BY <1>1, InitInv, PTL DEF Spec

\* No thread uses streamer_cont, the device, the stack of descriptors or the session after main
\* has deleted it, but for the prepare thread of a session that has failed.
THEOREM SharedOutlives == Spec => []SharedOutlivesThreads
<1>1. IInv => SharedOutlivesThreads
  BY DEF IInv, UsesOK, SharedUses, SharedOutlivesThreads
<1> QED  BY <1>1, Invariance, PTL

\* A raw queue is touched late by the reader alone, an ES queue by the reader and the mux thread,
\* and a deleted encoder by these two, the prepare thread and main, which frees the frames of the
\* ES queues through it; an encoder thread meets nothing that is deleted.
THEOREM LateUsers == Spec => []OnlyLateUsers
<1>1. IInv => OnlyLateUsers
  BY DEF IInv, UsesOK
<1> QED  BY <1>1, Invariance, PTL

\* While main is in its loop, everything that a thread uses is there, if the device has both
\* streams.
THEOREM RunsSafely == Spec => []SafeWhileRunning
<1>1. IInv => SafeWhileRunning
  BY DEF IInv, UsesOK
<1> QED  BY <1>1, Invariance, PTL

\* main returns last: after the reader, both encoders and the mux thread, and after the prepare
\* thread too, unless the session has failed.
THEOREM MainReturnsLast == Spec => []ReturnsLast
<1>1. IInv => ReturnsLast
  <2> SUFFICES ASSUME IInv, over = "returned" PROVE ReturnsLast
    BY DEF ReturnsLast
  <2>1. pc["main"] = "return"
    BY DEF IInv, Joined
  <2>2. pc["reader"] = "ended"
    BY <2>1 DEF IInv, Joined, AfterReader
  <2>3. \A s \in found : pc[s] = "ended"
    BY <2>1 DEF IInv, Lives, Life, AfterEncoders, AfterReader
  <2>4. /\ pc["mux"] \in {"off", "ended"}
        /\ pc["prep"] \in {"started", "ended"} \/ (flags.status = "error" /\ pc["prep"] = "notify")
    BY <2>1 DEF IInv, SessionOver, AfterSession
  <2> QED  BY <2>2, <2>3, <2>4 DEF ReturnsLast
<1> QED  BY <1>1, Invariance, PTL
==============================================================================

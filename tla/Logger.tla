-------------------------------- MODULE Logger --------------------------------
(***************************************************************************)
(* Log messages of several threads (utils/logger.c), and the ways that     *)
(* lead there: the LOG macros, koala_log, and libav's own messages through *)
(* log_back (koala_common.c) and the delegate's callback.                  *)
(*                                                                         *)
(* One mutex guards the two static buffers of _log_print.  The first       *)
(* message initialises it.  The static line of log_back has none.          *)
(***************************************************************************)
EXTENDS Integers, Sequences

CONSTANTS
  Threads, Main, \* of them, main comes first
  NoOne,
  Names,         \* the names of the levels of messages
  SetLevels,     \* what log_set_level is called with
  MaxMessages    \* bound on the messages

\* Three scales.  They differ in their direction, too.
LOG == [debug |-> 1, info |-> 2, warning |-> 4, error |-> 8, fatal |-> 16]
KOALA == [fatal |-> 1, error |-> 2, warning |-> 4, info |-> 8, debug |-> 16, trace |-> 32]
AV == [fatal |-> 8, error |-> 16, warning |-> 24, info |-> 32, verbose |-> 40, debug |-> 48, trace |-> 56]
Levels(scale) == {scale[name] : name \in Names \cap DOMAIN scale}

ASSUME LoggerAssumption ==
  /\ Main \in Threads /\ NoOne \notin Threads
  /\ SetLevels \subseteq {LOG[name] : name \in DOMAIN LOG}
  /\ MaxMessages \in Nat

\* The delegate's callback takes the level for one of libav's.
callback(level) ==
  CASE level \in {AV.trace, AV.debug, AV.verbose} -> LOG.debug
    [] level = AV.info -> LOG.info
    [] level = AV.warning -> LOG.warning
    [] OTHER -> LOG.error

levelKoala2av(level) ==
  LET same == {name \in DOMAIN KOALA : KOALA[name] = level}
  IN  IF same = {} THEN AV.info ELSE AV[CHOOSE name \in same : TRUE]

VARIABLES
  app,        \* this is the application: main logs before it creates the others, and
              \* nobody sets the level
  pc,         \* where each thread is
  message,    \* its message: where it comes from, its level there and for the logger
  sent,       \* messages so far
  started,    \* main has created the other threads
  av_log_callback, koala_log_level, \* what probe sets
  inited, log_level, owner, \* the logger; owner of log_mutex
  line,       \* log_back's buffer, as the threads that wrote its parts
  printf_buf, \* _log_print's, likewise
  printed,    \* the last line that went out, and whose it should have been
  raced,      \* history: the mutex was initialised twice,
  overlapped, \* two threads were in log_back,
  asked       \* the level that log_set_level left after a first line was out

probed == <<av_log_callback, koala_log_level>>
logger == <<inited, log_level, owner>>
history == <<raced, overlapped, asked>>
vars == <<app, pc, message, sent, started, probed, logger, line, printf_buf, printed, history>>

NoMessage == [from |-> "LOG", level |-> 0, prio |-> 0]

Init ==
  /\ app \in BOOLEAN
  /\ pc = [t \in Threads |-> "idle"]
  /\ message = [t \in Threads |-> NoMessage]
  /\ sent = 0
  /\ started = ~app
  /\ av_log_callback = FALSE
  /\ koala_log_level = KOALA.info
  /\ inited = FALSE
  /\ log_level = 0
  /\ owner = NoOne
  /\ line = << >>
  /\ printf_buf = << >>
  /\ printed = [by |-> NoOne, line |-> << >>]
  /\ raced = FALSE
  /\ overlapped = FALSE
  /\ asked = 0

Step(t, from, to) ==
  /\ pc[t] = from
  /\ pc' = [pc EXCEPT ![t] = to]
  /\ UNCHANGED <<app, started, probed>>
------------------------------------------------------------------------------
\* A thread has something to say.
Begin(t, from, level, prio, to) ==
  /\ started \/ t = Main
  /\ sent < MaxMessages
  /\ Step(t, "idle", to)
  /\ sent' = sent + 1
  /\ message' = [message EXCEPT ![t] = [from |-> from, level |-> level, prio |-> prio]]
  /\ UNCHANGED <<logger, printf_buf, printed, raced, asked>>

LOGx(t, prio) == Begin(t, "LOG", prio, prio, "filter") /\ UNCHANGED <<line, overlapped>>

koala_log(t, level) ==
  /\ av_log_callback
  /\ level <= koala_log_level
  /\ Begin(t, "KOALA", level, callback(level), "filter")
  /\ UNCHANGED <<line, overlapped>>

\* Threads whose message is, or shall be, in log_back's line.
InLine == {t \in Threads : message[t].from = "AV" /\ pc[t] \notin {"idle", "print", "unlock"}}

log_back(t, level) ==
  /\ av_log_callback
  /\ level <= levelKoala2av(koala_log_level)
  /\ Begin(t, "AV", level, callback(level), "prefix")
  /\ line' = << >>
  /\ overlapped' = (overlapped \/ InLine # {})

\* snprintf of the name of libav's object, vsnprintf of the text, both behind what is there
LogBackAppend(t) ==
  /\ Step(t, "prefix", "text") \/ Step(t, "text", "filter")
  /\ line' = Append(line, t)
  /\ UNCHANGED <<message, sent, logger, printf_buf, printed, history>>
------------------------------------------------------------------------------
\* _log_print
LogStep(t, from, to) ==
  /\ Step(t, from, to)
  /\ message' = IF to = "idle" THEN [message EXCEPT ![t] = NoMessage] ELSE message
  /\ UNCHANGED <<sent, line, overlapped, asked>>

Filter(t) ==
  /\ LET prio == message[t].prio
     IN  LogStep(t, "filter", IF prio < LOG.error /\ prio < log_level THEN "idle" ELSE "check")
  /\ UNCHANGED <<logger, printf_buf, printed, raced>>

Check(t) ==
  /\ LogStep(t, "check", IF inited THEN "lock" ELSE "init")
  /\ UNCHANGED <<logger, printf_buf, printed, raced>>

\* pthread_mutex_init: whoever holds the mutex, it is free now.
InitMutex(t) ==
  /\ LogStep(t, "init", "initLevel")
  /\ owner' = NoOne
  /\ raced' = (raced \/ \E u \in Threads \ {t} : pc[u] \in {"init", "initLevel"} \/ inited)
  /\ UNCHANGED <<inited, log_level, printf_buf, printed>>

InitLevel_slipNotInited(t) ==
  /\ LogStep(t, "initLevel", "lock")
  /\ log_level' = LOG.debug
  /\ UNCHANGED <<inited, owner, printf_buf, printed, raced>>

InitLevel(t) ==
  /\ LogStep(t, "initLevel", "lock")
  /\ log_level' = LOG.debug
  /\ inited' = TRUE
  /\ UNCHANGED <<owner, printf_buf, printed, raced>>

Lock_slipNone(t) ==
  /\ LogStep(t, "lock", "format")
  /\ UNCHANGED <<logger, printf_buf, printed, raced>>

Lock(t) ==
  /\ LogStep(t, "lock", "format")
  /\ owner = NoOne
  /\ owner' = t
  /\ UNCHANGED <<inited, log_level, printf_buf, printed, raced>>

\* vsnprintf: of the thread's own arguments, or of log_back's line as it is by now
Format(t) ==
  /\ LogStep(t, "format", "print")
  /\ printf_buf' = IF message[t].from = "AV" THEN line ELSE <<t>>
  /\ UNCHANGED <<logger, printed, raced>>

\* format_log, linux_print
PrintLine_slipReturns(t) ==
  /\ LogStep(t, "print", "idle")
  /\ printed' = [by |-> t, line |-> printf_buf]
  /\ UNCHANGED <<logger, printf_buf, raced>>

PrintLine(t) ==
  /\ LogStep(t, "print", "unlock")
  /\ printed' = [by |-> t, line |-> printf_buf]
  /\ UNCHANGED <<logger, printf_buf, raced>>

Unlock(t) ==
  /\ LogStep(t, "unlock", "idle")
  /\ owner' = NoOne
  /\ UNCHANGED <<inited, log_level, printf_buf, printed, raced>>
------------------------------------------------------------------------------
\* pthread_create, after initThread has logged
Start ==
  /\ ~started
  /\ pc[Main] = "idle"
  /\ sent > 0
  /\ started' = TRUE
  /\ UNCHANGED <<app, pc, message, sent, probed, logger, line, printf_buf, printed, history>>

\* probe, on the prepare thread, while others log
regist_log_call_back ==
  /\ started
  /\ av_log_callback' = TRUE
  /\ UNCHANGED <<app, pc, message, sent, started, koala_log_level, logger, line, printf_buf, printed, history>>

koala_set_log_level ==
  /\ av_log_callback
  /\ koala_log_level' = KOALA.trace
  /\ UNCHANGED <<app, pc, message, sent, started, av_log_callback, logger, line, printf_buf, printed, history>>

\* A level that is set before the first message is over is overwritten.
log_set_level(level) ==
  /\ ~app
  /\ log_level' = level
  /\ asked' = IF printed.by # NoOne THEN level ELSE asked
  /\ UNCHANGED <<app, pc, message, sent, started, probed, inited, owner, line, printf_buf, printed, raced, overlapped>>

Message(t) ==
  \/ \E prio \in Levels(LOG) : LOGx(t, prio)
  \/ \E level \in Levels(KOALA) : koala_log(t, level)
  \/ \E level \in Levels(AV) : log_back(t, level)

Work(t) ==
  \/ LogBackAppend(t) \/ Filter(t) \/ Check(t) \/ InitMutex(t) \/ InitLevel(t)
  \/ Lock(t) \/ Format(t) \/ PrintLine(t) \/ Unlock(t)

Next ==
  \/ \E t \in Threads : Message(t) \/ Work(t)
  \/ Start \/ regist_log_call_back \/ koala_set_log_level
  \/ \E level \in SetLevels : log_set_level(level)

Spec == Init /\ [][Next]_vars

\* A thread runs on; the lock is free often enough, since messages are.
FairSpec == Spec /\ \A t \in Threads : WF_vars(Work(t))
------------------------------------------------------------------------------
TypeOK ==
  /\ pc \in [Threads -> {"idle", "prefix", "text", "filter", "check", "init", "initLevel",
                         "lock", "format", "print", "unlock"}]
  /\ message \in [Threads -> [from : {"LOG", "KOALA", "AV"}, level : Nat, prio : Nat]]
  /\ sent \in 0 .. MaxMessages
  /\ {app, started, av_log_callback, inited, raced, overlapped} \subseteq BOOLEAN
  /\ koala_log_level \in {KOALA.info, KOALA.trace}
  /\ {log_level, asked} \subseteq {0, LOG.debug} \cup SetLevels
  /\ owner \in Threads \cup {NoOne}
  /\ {line, printf_buf, printed.line} \subseteq Seq(Threads)
  /\ printed.by \in Threads \cup {NoOne}

\* The application logs on its main thread before it creates another, so its mutex is
\* initialised once: neither by two threads at a time nor under a thread that holds it.
\* (With the types.)
InitialisedOnce ==
  /\ TypeOK
  /\ app => ~raced

\* A line that goes out is one message's, and all of it.  The two exceptions: the
\* initialisation that two threads made at once, and log_back's line, written by two
\* threads at once.
WholeLines ==
  ~raced /\ ~overlapped /\ printed.by # NoOne =>
    printed.line \in {<<printed.by>>, <<printed.by, printed.by>>}

\* log_set_level holds for good once a first message is out, although _log_print sets
\* the level itself.
LevelHolds == ~raced /\ asked # 0 => log_level = asked

\* Whoever logs comes back from the logger: nobody leaves with the lock.
MessageEnds == \A t \in Threads : pc[t] # "idle" ~> pc[t] = "idle"

\* koala_logd: what the muxer logs as debug is debug for the logger, which could filter it.
DebugStaysDebug ==
  \A t \in Threads :
    message[t].from = "KOALA" /\ message[t].level = KOALA.debug => message[t].prio = LOG.debug
==============================================================================

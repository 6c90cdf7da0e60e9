------------------------------ MODULE LoggerProofs ------------------------------
(***************************************************************************)
(* What TLAPS proves about the logger, for any threads, levels and number  *)
(* of messages.                                                            *)
(*                                                                         *)
(* The mutex protects whoever formats and prints (Exclusion) as long as no *)
(* two threads initialise it.  In the application main's first message is  *)
(* never filtered, for log_level is still 0, so that the mutex exists      *)
(* before main creates a thread (MainFirst).                               *)
(***************************************************************************)
EXTENDS Logger, SequenceTheorems, TLAPS

Writing == {"format", "print", "unlock"}

\* What a thread's place says about its message.
Messages ==
  \A t \in Threads :
    /\ pc[t] = "idle" => message[t].from = "LOG"
    /\ pc[t] \in {"prefix", "text"} => message[t].from = "AV"

\* Nobody is past the check of a mutex that nobody has initialised.
Initialised ==
  /\ \A t \in Threads : pc[t] \in {"lock"} \cup Writing => inited
  /\ \A t \in Threads : pc[t] = "init" /\ inited => Threads # {t}
  /\ printed.by # NoOne => inited
  /\ asked # 0 => printed.by # NoOne

\* Main's first message is over before there are other threads.
MainFirst ==
  app =>
    /\ ~raced
    /\ ~started => ~av_log_callback /\ \A t \in Threads \ {Main} : pc[t] = "idle"
    /\ ~inited => ~started /\ log_level = 0 /\ (pc[Main] = "idle" => sent = 0)
    /\ inited => \A t \in Threads : pc[t] \notin {"init", "initLevel"}

\* One thread writes, and one thread initialises, if no two did.
Exclusion ==
  ~raced =>
    /\ \A t \in Threads : pc[t] \in Writing => owner = t
    /\ \A t \in Threads : pc[t] = "initLevel" => ~inited /\ \A u \in Threads \ {t} : pc[u] # "initLevel"

\* log_back's line is that of the one thread that is in it, as far as that has come.
LineOfOne ==
  ~overlapped =>
    \A t \in InLine :
      /\ InLine = {t}
      /\ line = IF pc[t] = "prefix" THEN << >> ELSE IF pc[t] = "text" THEN <<t>> ELSE <<t, t>>

\* What is about to be printed.
Formatted ==
  ~raced /\ ~overlapped =>
    \A t \in Threads : pc[t] = "print" => printf_buf \in {<<t>>, <<t, t>>}

IInv ==
  /\ TypeOK /\ Messages /\ Initialised /\ MainFirst
  /\ Exclusion /\ LineOfOne /\ Formatted /\ WholeLines /\ LevelHolds

------------------------------------------------------------------------------
LEMMA AppendToOne ==
  ASSUME NEW s \in Seq(Threads), Len(s) = 1, NEW t \in Threads, s[1] = t
  PROVE  Append(s, t) = <<t, t>>
<1> DEFINE a == Append(s, t)
<1>1. a \in Seq(Threads) /\ Len(a) = Len(s) + 1
  BY AppendProperties
<1>2. \A i \in 1..Len(s) : a[i] = s[i]
  BY AppendProperties
<1>3. a[Len(s) + 1] = t
  BY AppendProperties
<1> HIDE DEF a
<1>4. Len(a) = 2 /\ a[1] = t /\ a[2] = t
  BY <1>1, <1>2, <1>3
<1>6. \A i \in 1..Len(a) : a[i] = <<t, t>>[i]
  BY <1>4
<1>7. a = <<t, t>>
  BY <1>1, <1>6
<1> QED  BY <1>7 DEF a

LEMMA SequencesOfOne ==
  ASSUME NEW t \in Threads
  PROVE  /\ << >> \in Seq(Threads) /\ <<t>> \in Seq(Threads) /\ <<t, t>> \in Seq(Threads)
         /\ Append(<< >>, t) = <<t>> /\ Append(<<t>>, t) = <<t, t>>
<1>1. << >> \in Seq(Threads) /\ <<t>> \in Seq(Threads) /\ <<t, t>> \in Seq(Threads)
  OBVIOUS
<1>4. Append(<<t>>, t) = <<t, t>>
  BY <1>1, AppendToOne
<1> QED  BY <1>4

LEMMA LevelsAreNumbers ==
  ASSUME NEW scale \in {LOG, KOALA, AV}
  PROVE  Levels(scale) \subseteq Nat
  BY DEF Levels, LOG, KOALA, AV

LEMMA InitInv == Init => IInv
<1> SUFFICES ASSUME Init PROVE IInv
  OBVIOUS
<1>1. TypeOK
  <2>1. << >> \in Seq(Threads)
    OBVIOUS
  <2>2. NoMessage \in [from : {"LOG", "KOALA", "AV"}, level : Nat, prio : Nat]
    BY DEF NoMessage
  <2>3. koala_log_level \in {KOALA.info, KOALA.trace} /\ sent \in 0..MaxMessages
    BY LoggerAssumption DEF Init
  <2> QED  BY <2>1, <2>2, <2>3 DEF Init, TypeOK
<1>2. Messages /\ Initialised /\ MainFirst
  BY DEF Init, Messages, Initialised, MainFirst, NoMessage, Writing
<1>3. Exclusion /\ LineOfOne /\ Formatted
  BY DEF Init, Exclusion, LineOfOne, Formatted, InLine, Writing
<1>4. WholeLines /\ LevelHolds
  BY DEF Init, WholeLines, LevelHolds
<1> QED  BY <1>1, <1>2, <1>3, <1>4 DEF IInv

LEMMA LogBackAppendStep ==
  ASSUME IInv, NEW t \in Threads, LogBackAppend(t)
  PROVE  IInv'
<1>1. TypeOK'
  <2>1. Append(line, t) \in Seq(Threads)
    BY DEF IInv, TypeOK
  <2> QED  BY <2>1 DEF IInv, TypeOK, LogBackAppend, Step, logger, probed, history
<1>2. Messages'
  BY DEF IInv, Messages, TypeOK, LogBackAppend, Step
<1>3. Initialised'
  BY DEF IInv, Initialised, Writing, TypeOK, LogBackAppend, Step, logger, history
<1>4. MainFirst'
  BY DEF IInv, MainFirst, TypeOK, LogBackAppend, Step, logger, probed, history
<1>5. Exclusion'
  <2>1. /\ pc \in [Threads -> {"idle", "prefix", "text", "filter", "check", "init", "initLevel",
                               "lock", "format", "print", "unlock"}]
        /\ \E to \in {"text", "filter"} : pc' = [pc EXCEPT ![t] = to]
        /\ raced' = raced /\ owner' = owner /\ inited' = inited
    BY DEF IInv, TypeOK, LogBackAppend, Step, logger, history
  <2>2. pc'[t] \in {"text", "filter"} /\ \A u \in Threads \ {t} : pc'[u] = pc[u]
    BY <2>1
  <2>3. {"text", "filter"} \cap (Writing \cup {"initLevel"}) = {}
    BY DEF Writing
  <2>4. \A u \in Threads : pc'[u] \in Writing \cup {"initLevel"} => pc'[u] = pc[u]
    BY <2>2, <2>3
  <2> QED  BY <2>1, <2>4 DEF IInv, Exclusion
<1>6. LineOfOne'
  <2>1. t \in InLine /\ InLine' = InLine
    BY DEF IInv, Messages, TypeOK, InLine, LogBackAppend, Step
  <2>2. CASE pc[t] = "prefix"
    <3>1. ~overlapped => InLine = {t} /\ line = << >>
      BY <2>1, <2>2 DEF IInv, LineOfOne
    <3> QED  BY <2>1, <3>1 DEF LineOfOne, IInv, TypeOK, LogBackAppend, Step, history
  <2>3. CASE pc[t] = "text"
    <3>1. ~overlapped => InLine = {t} /\ line = <<t>>
      BY <2>1, <2>3 DEF IInv, LineOfOne
    <3> QED  BY <2>1, <3>1, SequencesOfOne DEF LineOfOne, IInv, TypeOK, LogBackAppend, Step, history
  <2> QED  BY <2>2, <2>3 DEF LogBackAppend, Step
<1>7. Formatted'
  BY DEF IInv, Formatted, TypeOK, LogBackAppend, Step, history
<1>8. WholeLines' /\ LevelHolds'
  BY DEF IInv, WholeLines, LevelHolds, LogBackAppend, logger, history
<1> QED  BY <1>1, <1>2, <1>3, <1>4, <1>5, <1>6, <1>7, <1>8 DEF IInv

LEMMA FilterStep ==
  ASSUME IInv, NEW t \in Threads, Filter(t)
  PROVE  IInv'
<1>1. TypeOK'
  BY DEF IInv, TypeOK, NoMessage, Filter, LogStep, Step, logger, probed
<1>2. Messages'
  BY DEF IInv, Messages, NoMessage, TypeOK, Filter, LogStep, Step
<1>3. Initialised'
  BY DEF IInv, Initialised, Writing, Filter, LogStep, Step, logger
<1>4. MainFirst'
  BY DEF IInv, MainFirst, TypeOK, Filter, LogStep, Step, logger, probed
<1>5. Exclusion'
  BY DEF IInv, Exclusion, Writing, Filter, LogStep, Step, logger
<1>6. LineOfOne'
  BY SequencesOfOne, LoggerAssumption, SMTT(30)
     DEF IInv, LineOfOne, InLine, Messages, TypeOK, NoMessage, Filter, LogStep, Step, logger, probed, history
<1>7. Formatted'
  BY DEF IInv, Formatted, Filter, LogStep, Step
<1>8. WholeLines' /\ LevelHolds'
  BY DEF IInv, WholeLines, LevelHolds, Filter, LogStep, logger
<1> QED  BY <1>1, <1>2, <1>3, <1>4, <1>5, <1>6, <1>7, <1>8 DEF IInv

LEMMA CheckStep ==
  ASSUME IInv, NEW t \in Threads, Check(t)
  PROVE  IInv'
<1>1. TypeOK'
  BY DEF IInv, TypeOK, Check, LogStep, Step, logger, probed
<1>2. Messages'
  BY DEF IInv, Messages, Check, LogStep, Step
<1>3. Initialised'
  BY DEF IInv, Initialised, Writing, Check, LogStep, Step, logger
<1>4. MainFirst'
  BY DEF IInv, MainFirst, Check, LogStep, Step, logger, probed
<1>5. Exclusion'
  BY DEF IInv, Exclusion, Writing, Check, LogStep, Step, logger
<1>6. LineOfOne'
  BY DEF IInv, LineOfOne, InLine, Messages, Check, LogStep, Step
<1>7. Formatted'
  BY DEF IInv, Formatted, Check, LogStep, Step
<1>8. WholeLines' /\ LevelHolds'
  BY DEF IInv, WholeLines, LevelHolds, Check, LogStep, logger
<1> QED  BY <1>1, <1>2, <1>3, <1>4, <1>5, <1>6, <1>7, <1>8 DEF IInv

LEMMA InitMutexStep ==
  ASSUME IInv, NEW t \in Threads, InitMutex(t)
  PROVE  IInv'
<1>1. TypeOK'
  BY DEF IInv, TypeOK, InitMutex, LogStep, Step, probed
<1>2. Messages'
  BY DEF IInv, Messages, InitMutex, LogStep, Step
<1>3. Initialised'
  BY DEF IInv, Initialised, Writing, InitMutex, LogStep, Step
<1>4. MainFirst'
  BY DEF IInv, MainFirst, TypeOK, InitMutex, LogStep, Step, probed
<1>5. Exclusion'
  <2>1. /\ pc[t] = "init" /\ pc \in [Threads -> {"idle", "prefix", "text", "filter", "check", "init",
                                               "initLevel", "lock", "format", "print", "unlock"}]
        /\ pc' = [pc EXCEPT ![t] = "initLevel"] /\ inited' = inited
    BY DEF IInv, TypeOK, InitMutex, LogStep, Step
  <2>2. pc'[t] = "initLevel" /\ \A u \in Threads \ {t} : pc'[u] = pc[u]
    BY <2>1
  <2>3. ASSUME ~raced' PROVE \A u \in Threads \ {t} : pc[u] \notin {"init", "initLevel"} /\ ~inited
    BY <2>3 DEF InitMutex
  <2>4. ASSUME ~raced' PROVE ~inited
    BY <2>1, <2>3, <2>4 DEF IInv, Initialised
  <2>5. ~inited => \A u \in Threads : pc[u] \notin Writing
    BY DEF IInv, Initialised
  <2>6. "initLevel" \notin Writing
    BY DEF Writing
  <2>7. ASSUME ~raced', NEW u \in Threads PROVE pc'[u] \notin Writing /\ (pc'[u] = "initLevel" => u = t)
    BY <2>2, <2>3, <2>4, <2>5, <2>6, <2>7
  <2> QED  BY <2>1, <2>4, <2>7 DEF Exclusion
<1>6. LineOfOne'
  BY DEF IInv, LineOfOne, InLine, Messages, InitMutex, LogStep, Step
<1>7. Formatted'
  BY DEF IInv, Formatted, TypeOK, InitMutex, LogStep, Step
<1>8. WholeLines' /\ LevelHolds'
  BY DEF IInv, WholeLines, LevelHolds, InitMutex, LogStep
<1> QED  BY <1>1, <1>2, <1>3, <1>4, <1>5, <1>6, <1>7, <1>8 DEF IInv

LEMMA InitLevelStep ==
  ASSUME IInv, NEW t \in Threads, InitLevel(t)
  PROVE  IInv'
<1>1. TypeOK'
  BY DEF IInv, TypeOK, InitLevel, LogStep, Step, probed
<1>2. Messages'
  BY DEF IInv, Messages, InitLevel, LogStep, Step
<1>3. Initialised'
  BY DEF IInv, Initialised, InitLevel, LogStep, Step
<1>4. MainFirst'
  BY DEF IInv, MainFirst, TypeOK, InitLevel, LogStep, Step, probed
<1>5. Exclusion'
  BY DEF IInv, Exclusion, Writing, TypeOK, InitLevel, LogStep, Step
<1>6. LineOfOne'
  BY DEF IInv, LineOfOne, InLine, Messages, InitLevel, LogStep, Step
<1>7. Formatted'
  BY DEF IInv, Formatted, InitLevel, LogStep, Step
<1>8. WholeLines' /\ LevelHolds'
  BY DEF IInv, WholeLines, LevelHolds, Exclusion, Initialised, InitLevel, LogStep, Step
<1> QED  BY <1>1, <1>2, <1>3, <1>4, <1>5, <1>6, <1>7, <1>8 DEF IInv

LEMMA LockStep ==
  ASSUME IInv, NEW t \in Threads, Lock(t)
  PROVE  IInv'
<1>1. TypeOK'
  BY DEF IInv, TypeOK, Lock, LogStep, Step, probed
<1>2. Messages'
  BY DEF IInv, Messages, Lock, LogStep, Step
<1>3. Initialised'
  BY DEF IInv, Initialised, Lock, LogStep, Step
<1>4. MainFirst'
  BY DEF IInv, MainFirst, Lock, LogStep, Step, probed
<1>5. Exclusion'
  BY LoggerAssumption DEF IInv, Exclusion, Lock, LogStep, Step
<1>6. LineOfOne'
  BY DEF IInv, LineOfOne, InLine, Lock, LogStep, Step
<1>7. Formatted'
  BY DEF IInv, Formatted, Lock, LogStep, Step
<1>8. WholeLines' /\ LevelHolds'
  BY DEF IInv, WholeLines, LevelHolds, Lock, LogStep
<1> QED  BY <1>1, <1>2, <1>3, <1>4, <1>5, <1>6, <1>7, <1>8 DEF IInv

LEMMA FormatStep ==
  ASSUME IInv, NEW t \in Threads, Format(t)
  PROVE  IInv'
<1>1. TypeOK'
  BY DEF IInv, TypeOK, Format, LogStep, Step, logger, probed
<1>2. Messages'
  BY DEF IInv, Messages, Format, LogStep, Step
<1>3. Initialised'
  BY DEF IInv, Initialised, Writing, Format, LogStep, Step, logger
<1>4. MainFirst'
  BY DEF IInv, MainFirst, Format, LogStep, Step, logger, probed
<1>5. Exclusion'
  BY DEF IInv, Exclusion, Writing, Format, LogStep, Step, logger
<1>6. LineOfOne'
  BY DEF IInv, LineOfOne, InLine, Format, LogStep, Step
<1>7. Formatted'
  BY DEF IInv, Formatted, Exclusion, Writing, LineOfOne, InLine, Format, LogStep, Step
<1>8. WholeLines' /\ LevelHolds'
  BY DEF IInv, WholeLines, LevelHolds, Format, LogStep, logger
<1> QED  BY <1>1, <1>2, <1>3, <1>4, <1>5, <1>6, <1>7, <1>8 DEF IInv

LEMMA PrintLineStep ==
  ASSUME IInv, NEW t \in Threads, PrintLine(t)
  PROVE  IInv'
<1>1. TypeOK'
  BY DEF IInv, TypeOK, PrintLine, LogStep, Step, logger, probed
<1>2. Messages'
  BY DEF IInv, Messages, PrintLine, LogStep, Step
<1>3. Initialised'
  BY LoggerAssumption DEF IInv, Initialised, Writing, PrintLine, LogStep, Step, logger
<1>4. MainFirst'
  BY DEF IInv, MainFirst, PrintLine, LogStep, Step, logger, probed
<1>5. Exclusion'
  BY DEF IInv, Exclusion, Writing, PrintLine, LogStep, Step, logger
<1>6. LineOfOne'
  BY DEF IInv, LineOfOne, InLine, PrintLine, LogStep, Step
<1>7. Formatted'
  BY DEF IInv, Formatted, PrintLine, LogStep, Step
<1>8. WholeLines' /\ LevelHolds'
  BY DEF IInv, WholeLines, LevelHolds, Formatted, PrintLine, LogStep, Step, logger
<1> QED  BY <1>1, <1>2, <1>3, <1>4, <1>5, <1>6, <1>7, <1>8 DEF IInv

LEMMA UnlockStep ==
  ASSUME IInv, NEW t \in Threads, Unlock(t)
  PROVE  IInv'
<1>1. TypeOK'
  BY DEF IInv, TypeOK, NoMessage, Unlock, LogStep, Step, probed
<1>2. Messages'
  BY DEF IInv, Messages, NoMessage, TypeOK, Unlock, LogStep, Step
<1>3. Initialised'
  BY DEF IInv, Initialised, Writing, Unlock, LogStep, Step
<1>4. MainFirst'
  BY DEF IInv, MainFirst, Initialised, Writing, Unlock, LogStep, Step, probed
<1>5. Exclusion'
  BY DEF IInv, Exclusion, Writing, TypeOK, Unlock, LogStep, Step
<1>6. LineOfOne'
  BY DEF IInv, LineOfOne, InLine, Unlock, LogStep, Step
<1>7. Formatted'
  BY DEF IInv, Formatted, Unlock, LogStep, Step
<1>8. WholeLines' /\ LevelHolds'
  BY DEF IInv, WholeLines, LevelHolds, Unlock, LogStep
<1> QED  BY <1>1, <1>2, <1>3, <1>4, <1>5, <1>6, <1>7, <1>8 DEF IInv

\* What the three ways into the logger share: an idle thread has a message, and the level is
\* a number.
LEMMA BeginStep ==
  ASSUME IInv, NEW t \in Threads, NEW from \in {"LOG", "KOALA", "AV"}, NEW level \in Nat, NEW prio \in Nat,
         NEW to \in {"filter", "prefix"}, Begin(t, from, level, prio, to), to = "prefix" <=> from = "AV",
         from = "AV" => av_log_callback,
         IF from = "AV" THEN line' = << >> /\ overlapped' = (overlapped \/ InLine # {})
                        ELSE UNCHANGED <<line, overlapped>>
  PROVE  IInv' 
<1>1. TypeOK'
  <2>2. line' \in Seq(Threads)
    BY SequencesOfOne DEF IInv, TypeOK
  <2>3. sent' \in 0..MaxMessages
    BY LoggerAssumption DEF IInv, TypeOK, Begin
  <2> QED  BY <2>2, <2>3 DEF IInv, TypeOK, Begin, Step, logger, probed
<1>2. Messages'
  BY DEF IInv, Messages, TypeOK, Begin, Step
<1>3. Initialised'
  BY DEF IInv, Initialised, Writing, Begin, Step, logger
<1>4. MainFirst'
  BY DEF IInv, MainFirst, TypeOK, Begin, Step, logger, probed
<1>5. Exclusion'
  BY DEF IInv, Exclusion, Writing, Begin, Step, logger
<1>6. LineOfOne'
  BY DEF IInv, LineOfOne, InLine, TypeOK, Begin, Step
<1>7. Formatted'
  BY DEF IInv, Formatted, TypeOK, Begin, Step
<1>8. WholeLines' /\ LevelHolds'
  BY DEF IInv, WholeLines, LevelHolds, Begin, logger
<1> QED  BY <1>1, <1>2, <1>3, <1>4, <1>5, <1>6, <1>7, <1>8 DEF IInv

LEMMA callbackIsANumber ==
  ASSUME NEW level
  PROVE  callback(level) \in Nat
  BY DEF callback, LOG

LEMMA MessageStep ==
  ASSUME IInv, NEW t \in Threads, Message(t)
  PROVE  IInv'
<1>1. ASSUME NEW prio \in Levels(LOG), LOGx(t, prio)
      PROVE  IInv'
  <2>1. prio \in Nat
    BY LevelsAreNumbers
  <2> QED  BY <1>1, <2>1, BeginStep DEF LOGx
<1>2. ASSUME NEW level \in Levels(KOALA), koala_log(t, level)
      PROVE  IInv'
  <2>1. level \in Nat /\ callback(level) \in Nat
    BY LevelsAreNumbers, callbackIsANumber
  <2> QED  BY <1>2, <2>1, BeginStep DEF koala_log
<1>3. ASSUME NEW level \in Levels(AV), log_back(t, level)
      PROVE  IInv'
  <2>1. level \in Nat /\ callback(level) \in Nat
    BY LevelsAreNumbers, callbackIsANumber
  <2> QED  BY <1>3, <2>1, BeginStep DEF log_back
<1> QED  BY <1>1, <1>2, <1>3 DEF Message

LEMMA StartStep ==
  ASSUME IInv, Start
  PROVE  IInv'
<1>1. TypeOK'
  BY DEF IInv, TypeOK, Start, logger, probed, history
<1>2. Messages'
  BY DEF IInv, Messages, Start
<1>3. Initialised'
  BY DEF IInv, Initialised, Start, logger, history
<1>4. MainFirst'
  BY DEF IInv, MainFirst, Start, logger, history
<1>5. Exclusion'
  BY DEF IInv, Exclusion, Start, logger, history
<1>6. LineOfOne'
  BY DEF IInv, LineOfOne, InLine, Start, history
<1>7. Formatted'
  BY DEF IInv, Formatted, Start, history
<1>8. WholeLines' /\ LevelHolds'
  BY DEF IInv, WholeLines, LevelHolds, Start, logger, history
<1> QED  BY <1>1, <1>2, <1>3, <1>4, <1>5, <1>6, <1>7, <1>8 DEF IInv

LEMMA regist_log_call_backStep ==
  ASSUME IInv, regist_log_call_back
  PROVE  IInv'
<1>1. TypeOK'
  BY DEF IInv, TypeOK, regist_log_call_back, logger, history
<1>2. Messages'
  BY DEF IInv, Messages, regist_log_call_back
<1>3. Initialised'
  BY DEF IInv, Initialised, regist_log_call_back, logger, history
<1>4. MainFirst'
  BY DEF IInv, MainFirst, regist_log_call_back, logger, history
<1>5. Exclusion'
  BY DEF IInv, Exclusion, regist_log_call_back, logger, history
<1>6. LineOfOne'
  BY DEF IInv, LineOfOne, InLine, regist_log_call_back, history
<1>7. Formatted'
  BY DEF IInv, Formatted, regist_log_call_back, history
<1>8. WholeLines' /\ LevelHolds'
  BY DEF IInv, WholeLines, LevelHolds, regist_log_call_back, logger, history
<1> QED  BY <1>1, <1>2, <1>3, <1>4, <1>5, <1>6, <1>7, <1>8 DEF IInv

LEMMA koala_set_log_levelStep ==
  ASSUME IInv, koala_set_log_level
  PROVE  IInv'
<1>1. TypeOK'
  BY DEF IInv, TypeOK, koala_set_log_level, logger, history
<1>2. Messages'
  BY DEF IInv, Messages, koala_set_log_level
<1>3. Initialised'
  BY DEF IInv, Initialised, koala_set_log_level, logger, history
<1>4. MainFirst'
  BY DEF IInv, MainFirst, koala_set_log_level, logger, history
<1>5. Exclusion'
  BY DEF IInv, Exclusion, koala_set_log_level, logger, history
<1>6. LineOfOne'
  BY DEF IInv, LineOfOne, InLine, koala_set_log_level, history
<1>7. Formatted'
  BY DEF IInv, Formatted, koala_set_log_level, history
<1>8. WholeLines' /\ LevelHolds'
  BY DEF IInv, WholeLines, LevelHolds, koala_set_log_level, logger, history
<1> QED  BY <1>1, <1>2, <1>3, <1>4, <1>5, <1>6, <1>7, <1>8 DEF IInv

LEMMA log_set_levelStep ==
  ASSUME IInv, NEW level \in SetLevels, log_set_level(level)
  PROVE  IInv'
<1>1. TypeOK'
  BY DEF IInv, TypeOK, log_set_level, probed
<1>2. Messages'
  BY DEF IInv, Messages, log_set_level
<1>3. Initialised'
  BY DEF IInv, Initialised, log_set_level
<1>4. MainFirst'
  BY DEF MainFirst, log_set_level
<1>5. Exclusion'
  BY DEF IInv, Exclusion, log_set_level
<1>6. LineOfOne'
  BY DEF IInv, LineOfOne, InLine, log_set_level
<1>7. Formatted'
  BY DEF IInv, Formatted, log_set_level
<1>8. WholeLines' /\ LevelHolds'
  BY DEF IInv, WholeLines, LevelHolds, Initialised, log_set_level
<1> QED  BY <1>1, <1>2, <1>3, <1>4, <1>5, <1>6, <1>7, <1>8 DEF IInv

LEMMA StutterStep ==
  ASSUME IInv, UNCHANGED vars
  PROVE  IInv'
<1>1. TypeOK'
  BY DEF IInv, TypeOK, vars, logger, probed, history
<1>2. Messages'
  BY DEF IInv, Messages, vars
<1>3. Initialised'
  BY DEF IInv, Initialised, vars, logger, history
<1>4. MainFirst'
  BY DEF IInv, MainFirst, vars, logger, probed, history
<1>5. Exclusion'
  BY DEF IInv, Exclusion, vars, logger, history
<1>6. LineOfOne'
  BY DEF IInv, LineOfOne, InLine, vars, history
<1>7. Formatted'
  BY DEF IInv, Formatted, vars, history
<1>8. WholeLines' /\ LevelHolds'
  BY DEF IInv, WholeLines, LevelHolds, vars, logger, history
<1> QED  BY <1>1, <1>2, <1>3, <1>4, <1>5, <1>6, <1>7, <1>8 DEF IInv

------------------------------------------------------------------------------
LEMMA NextInv ==
  ASSUME IInv, [Next]_vars
  PROVE  IInv'
<1>1. ASSUME NEW t \in Threads, Message(t) PROVE IInv'
  BY <1>1, MessageStep
<1>2. ASSUME NEW t \in Threads, Work(t) PROVE IInv'
  BY <1>2, LogBackAppendStep, FilterStep, CheckStep, InitMutexStep, InitLevelStep, LockStep,
     FormatStep, PrintLineStep, UnlockStep DEF Work
<1>3. CASE Start \/ regist_log_call_back \/ koala_set_log_level
  BY <1>3, StartStep, regist_log_call_backStep, koala_set_log_levelStep
<1>4. ASSUME NEW level \in SetLevels, log_set_level(level) PROVE IInv'
  BY <1>4, log_set_levelStep
<1>5. CASE UNCHANGED vars
  BY <1>5, StutterStep
<1> QED  BY <1>1, <1>2, <1>3, <1>4, <1>5 DEF Next

\* The inductive invariant holds in every behaviour of the logger and its callers.
THEOREM Invariance == Spec => []IInv
  BY InitInv, NextInv, PTL DEF Spec

\* The application's threads initialise the mutex once, however many there are: main's first
\* message does, before it creates the others (_log_print).  With the types.
THEOREM MutexInitialisedOnce == Spec => []InitialisedOnce
<1>1. IInv => InitialisedOnce
  BY DEF IInv, MainFirst, InitialisedOnce
<1> QED  BY <1>1, Invariance, PTL

\* What linux_print gets is one message's line, and all of it, whichever threads log at
\* once, unless two of them initialised the mutex or wrote log_back's line together.
THEOREM LinesAreWhole == Spec => []WholeLines
<1>1. IInv => WholeLines
  BY DEF IInv
<1> QED  BY <1>1, Invariance, PTL

\* _log_print does not take back the level that log_set_level set after the first line.
THEOREM SetLevelStays == Spec => []LevelHolds
<1>1. IInv => LevelHolds
  BY DEF IInv
<1> QED  BY <1>1, Invariance, PTL
==============================================================================

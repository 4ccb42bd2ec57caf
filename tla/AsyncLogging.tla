--------------------------- MODULE AsyncLogging ---------------------------
(***************************************************************************)
(* AsyncLogging: threads hand log lines to one logger thread through a     *)
(* queue, a mutex and a condition variable; stop() ends that thread and    *)
(* joins it.  The logger thread is itself a client: a failed write to the  *)
(* log file is logged (FileOper.cpp:29).                                   *)
(***************************************************************************)
EXTENDS Integers, Sequences, FiniteSets

CONSTANTS Callers,      \* the threads that log
          Logger,       \* the logger thread
          QueueCap,     \* log()'s bound on the queue, 10000 in the code
          MaxMsgs,      \* lines each caller logs (bound)
          MaxFails,     \* writes to the log file that fail (bound)
          MaxSpurious   \* spurious wake-ups of the condition variable (bound)

NoOne == "no one"

ASSUME CallersAssumption == Logger \notin Callers /\ NoOne \notin Callers \cup {Logger}
ASSUME BoundsAssumption ==
  /\ QueueCap \in Nat /\ MaxMsgs \in Nat /\ MaxFails \in Nat /\ MaxSpurious \in Nat

VARIABLES
  queue,     \* m_shareQueue
  mutex,     \* who holds m_MutexQueue
  waiting,   \* is the logger thread blocked in m_condQueue.wait?
  isStop,    \* m_isStop
  wpc,       \* where the logger thread is
  last,      \* is it in the block after the loop?
  batch,     \* its logQ
  drained,   \* lines of the last logQ handled so far (i)
  attempts,  \* every line whose write was attempted, in order
  cpc,       \* where each caller is in log()
  sent,      \* lines each caller has logged
  spc,       \* where the owner is in stop()
  fails,     \* failed writes so far
  spurious,  \* spurious wake-ups so far
  pushed     \* every line that entered the queue, in order

logger == <<wpc, last, batch, drained, attempts, fails>>
callers == <<cpc, sent>>
vars == <<queue, mutex, waiting, isStop, logger, callers, spc, spurious, pushed>>

Init == /\ queue = <<>> /\ batch = <<>> /\ attempts = <<>> /\ pushed = <<>>
        /\ mutex = NoOne
        /\ waiting = FALSE /\ isStop = FALSE /\ last = FALSE
        /\ wpc = "loop"
        /\ drained = 0 /\ fails = 0 /\ spurious = 0
        /\ cpc = [c \in Callers |-> "idle"]
        /\ sent = [c \in Callers |-> 0]
        /\ spc = "running"

(* m_shareQueue.size() is read without the mutex.  While another thread is *)
(* changing the queue the read is a data race and may give any answer.     *)
LooksShort == Len(queue) <= QueueCap \/ mutex # NoOne
LooksLong == Len(queue) > QueueCap \/ mutex # NoOne

Enqueue(msg) == /\ queue' = Append(queue, msg)
                /\ pushed' = Append(pushed, msg)
                /\ mutex' = NoOne
---------------------------------------------------------------------------
(* log() of a caller                                                       *)
LogCheck(c) ==
  /\ cpc[c] = "idle" /\ sent[c] < MaxMsgs /\ spc = "running"
  /\ sent' = [sent EXCEPT ![c] = @ + 1]
  /\ \/ LooksLong /\ UNCHANGED cpc
     \/ LooksShort /\ cpc' = [cpc EXCEPT ![c] = "lock"]
  /\ UNCHANGED <<queue, mutex, waiting, isStop, logger, spc, spurious, pushed>>

LogLock(c) ==
  /\ cpc[c] = "lock" /\ mutex = NoOne
  /\ mutex' = c
  /\ cpc' = [cpc EXCEPT ![c] = "push"]
  /\ UNCHANGED <<queue, waiting, isStop, logger, sent, spc, spurious, pushed>>

LogPush(c) ==
  /\ cpc[c] = "push"
  /\ Enqueue(<<c, sent[c]>>)
  /\ cpc' = [cpc EXCEPT ![c] = "notify"]
  /\ UNCHANGED <<waiting, isStop, logger, sent, spc, spurious>>

LogNotifyWhenLong(c) ==               \* mutant: the thread is woken for a long queue only
  /\ cpc[c] = "notify"
  /\ waiting' = (waiting /\ Len(queue) <= QueueCap)
  /\ cpc' = [cpc EXCEPT ![c] = "idle"]
  /\ UNCHANGED <<queue, mutex, isStop, logger, sent, spc, spurious, pushed>>

LogNotify(c) ==
  /\ cpc[c] = "notify"
  /\ waiting' = FALSE
  /\ cpc' = [cpc EXCEPT ![c] = "idle"]
  /\ UNCHANGED <<queue, mutex, isStop, logger, sent, spc, spurious, pushed>>
---------------------------------------------------------------------------
(* logOutput() of the logger thread                                        *)
LoopTest ==
  /\ wpc = "loop"
  /\ last' = isStop
  /\ wpc' = "lock"
  /\ UNCHANGED <<queue, mutex, waiting, isStop, batch, drained, attempts, fails,
                 callers, spc, spurious, pushed>>

Acquire ==
  /\ wpc = "lock" /\ mutex = NoOne
  /\ mutex' = Logger
  /\ wpc' = "test"
  /\ UNCHANGED <<queue, waiting, isStop, last, batch, drained, attempts, fails,
                 callers, spc, spurious, pushed>>

(* if (m_shareQueue.empty()) wait: in the loop and, the same, after it     *)
WaitInLast ==                         \* mutant: the last block waits without the test
  /\ wpc = "test"
  /\ IF queue = <<>> \/ last
     THEN wpc' = "waiting" /\ waiting' = TRUE /\ mutex' = NoOne
     ELSE wpc' = "swap" /\ UNCHANGED <<waiting, mutex>>
  /\ UNCHANGED <<queue, isStop, last, batch, drained, attempts, fails,
                 callers, spc, spurious, pushed>>

WaitIfEmpty ==
  /\ wpc = "test"
  /\ IF queue = <<>>
     THEN wpc' = "waiting" /\ waiting' = TRUE /\ mutex' = NoOne
     ELSE wpc' = "swap" /\ UNCHANGED <<waiting, mutex>>
  /\ UNCHANGED <<queue, isStop, last, batch, drained, attempts, fails,
                 callers, spc, spurious, pushed>>

(* wait() returns with the mutex; the queue is not tested again            *)
WakeUpUnlocked ==                     \* mutant: wait() returns without the mutex
  /\ wpc = "waiting" /\ ~waiting
  /\ mutex' = Logger
  /\ wpc' = "swap"
  /\ UNCHANGED <<queue, waiting, isStop, last, batch, drained, attempts, fails,
                 callers, spc, spurious, pushed>>

WakeUp ==
  /\ wpc = "waiting" /\ ~waiting /\ mutex = NoOne
  /\ mutex' = Logger
  /\ wpc' = "swap"
  /\ UNCHANGED <<queue, waiting, isStop, last, batch, drained, attempts, fails,
                 callers, spc, spurious, pushed>>

SpuriousWakeUp ==
  /\ waiting /\ spurious < MaxSpurious
  /\ waiting' = FALSE
  /\ spurious' = spurious + 1
  /\ UNCHANGED <<queue, mutex, isStop, logger, callers, spc, pushed>>

SwapCopies ==                         \* mutant: the shared queue is copied, not taken
  /\ wpc = "swap"
  /\ batch' = queue /\ mutex' = NoOne
  /\ drained' = 0
  /\ wpc' = "write"
  /\ UNCHANGED <<queue, waiting, isStop, last, attempts, fails, callers, spc, spurious, pushed>>

Swap ==
  /\ wpc = "swap"
  /\ batch' = queue /\ queue' = <<>> /\ mutex' = NoOne
  /\ drained' = 0
  /\ wpc' = "write"
  /\ UNCHANGED <<waiting, isStop, last, attempts, fails, callers, spc, spurious, pushed>>

(* i++ > 10000: the last block gives up after QueueCap + 1 lines           *)
GivesUpEarly == last /\ drained >= QueueCap      \* mutant
GivesUpNever == FALSE                            \* mutant
GivesUp == last /\ drained > QueueCap

(* One line is written; a failure is reported through log().               *)
WriteLine ==
  /\ wpc = "write" /\ batch # <<>> /\ ~GivesUp
  /\ batch' = Tail(batch)
  /\ drained' = drained + 1
  /\ attempts' = Append(attempts, Head(batch))
  /\ \/ UNCHANGED <<wpc, fails>>
     \/ fails < MaxFails /\ fails' = fails + 1 /\ wpc' = "report"
  /\ UNCHANGED <<queue, mutex, waiting, isStop, last, callers, spc, spurious, pushed>>

ReportCheck ==
  /\ wpc = "report"
  /\ \/ LooksLong /\ wpc' = "write"
     \/ LooksShort /\ wpc' = "reportlock"
  /\ UNCHANGED <<queue, mutex, waiting, isStop, last, batch, drained, attempts, fails,
                 callers, spc, spurious, pushed>>

ReportLock ==
  /\ wpc = "reportlock" /\ mutex = NoOne
  /\ mutex' = Logger
  /\ wpc' = "reportpush"
  /\ UNCHANGED <<queue, waiting, isStop, last, batch, drained, attempts, fails,
                 callers, spc, spurious, pushed>>

(* its notify_one finds nobody waiting                                     *)
ReportPush ==
  /\ wpc = "reportpush"
  /\ Enqueue(<<Logger, fails>>)
  /\ wpc' = "write"
  /\ UNCHANGED <<waiting, isStop, last, batch, drained, attempts, fails,
                 callers, spc, spurious>>

BatchDone ==
  /\ wpc = "write"
  /\ batch = <<>> \/ GivesUp
  /\ wpc' = IF last THEN "exit" ELSE "loop"
  /\ UNCHANGED <<queue, mutex, waiting, isStop, last, batch, drained, attempts, fails,
                 callers, spc, spurious, pushed>>
---------------------------------------------------------------------------
(* stop(), called by the owner when its threads no longer log              *)
SetStop ==
  /\ spc = "running" /\ \A c \in Callers : cpc[c] = "idle"
  /\ isStop' = TRUE
  /\ spc' = "notify"
  /\ UNCHANGED <<queue, mutex, waiting, logger, callers, spurious, pushed>>

StopNotify ==
  /\ spc = "notify"
  /\ waiting' = FALSE
  /\ spc' = "join"
  /\ UNCHANGED <<queue, mutex, isStop, logger, callers, spurious, pushed>>

Join ==
  /\ spc = "join" /\ wpc = "exit"
  /\ spc' = "joined"
  /\ UNCHANGED <<queue, mutex, waiting, isStop, logger, callers, spurious, pushed>>
---------------------------------------------------------------------------
CallerStep(c) == LogLock(c) \/ LogPush(c) \/ LogNotify(c)

LoggerStep == \/ LoopTest \/ Acquire \/ WaitIfEmpty \/ WakeUp \/ Swap \/ WriteLine
              \/ ReportCheck \/ ReportLock \/ ReportPush \/ BatchDone

StopStep == StopNotify \/ Join

Next == \/ \E c \in Callers : LogCheck(c) \/ CallerStep(c)
        \/ LoggerStep
        \/ SpuriousWakeUp
        \/ SetStop
        \/ StopStep

(* Running threads run and the mutex is handed to each in turn; nobody is  *)
(* obliged to log, to stop or to wake spuriously.                          *)
Fairness == /\ WF_vars(LoggerStep) /\ SF_vars(Acquire) /\ SF_vars(WakeUp) /\ SF_vars(ReportLock)
            /\ WF_vars(StopStep)
            /\ \A c \in Callers : SF_vars(CallerStep(c))

Spec == Init /\ [][Next]_vars /\ Fairness
---------------------------------------------------------------------------
(* Types of the variables.                                                 *)
Lines == (Callers \X (1..MaxMsgs)) \cup ({Logger} \X (1..MaxFails))

TypeOK ==
  /\ queue \in Seq(Lines) /\ batch \in Seq(Lines)
  /\ attempts \in Seq(Lines) /\ pushed \in Seq(Lines)
  /\ mutex \in Callers \cup {Logger, NoOne}
  /\ waiting \in BOOLEAN /\ isStop \in BOOLEAN /\ last \in BOOLEAN
  /\ wpc \in {"loop", "lock", "test", "waiting", "swap", "write",
              "report", "reportlock", "reportpush", "exit"}
  /\ cpc \in [Callers -> {"idle", "lock", "push", "notify"}]
  /\ sent \in [Callers -> 0..MaxMsgs]
  /\ spc \in {"running", "notify", "join", "joined"}
  /\ drained \in Nat /\ (last => drained <= QueueCap + 1 \/ wpc \in {"lock", "test", "waiting", "swap"})
  /\ fails \in 0..MaxFails /\ spurious \in 0..MaxSpurious

(* The threads that hold the mutex by their own account.                   *)
InSection == {c \in Callers : cpc[c] = "push"} \cup
             (IF wpc \in {"test", "swap", "reportpush"} THEN {Logger} ELSE {})

(* The two places that change the queue exclude each other, also across    *)
(* the release and return of the condition variable's wait.                *)
MutualExclusion == InSection = IF mutex = NoOne THEN {} ELSE {mutex}

(* No line that entered the queue is lost, written twice or overtaken on   *)
(* its way through the swap to the file.                                   *)
InOrder == attempts \o batch \o queue = pushed

(* A line that enters the queue reaches the write to the log file in the   *)
(* end, whatever moment the wake-up or stop() falls into.  Only the end of *)
(* the last block may leave one: any line when the block has reached its   *)
(* limit, otherwise only the report of a failed write, come too late.      *)
EventuallyTried ==
  \A n \in 1 .. MaxMsgs * Cardinality(Callers) + MaxFails :
    Len(pushed) >= n ~>
      \/ Len(attempts) >= n
      \/ /\ wpc = "exit" /\ n \in DOMAIN pushed
         /\ drained > QueueCap \/ pushed[n][1] = Logger

(* When stop() has returned, what is missing from the file is charged to   *)
(* failed writes, which leave a report behind the last block.  With one    *)
(* calling thread that is so even at the last block's limit: each report   *)
(* costs itself and lets at most one line past the bound that log() reads  *)
(* without the mutex.                                                      *)
OneCaller == \A c, d \in Callers : c = d

JoinDrains ==
  spc = "joined" =>
    /\ drained <= QueueCap => Len(batch) + Len(queue) <= fails
    /\ OneCaller => Len(batch) + Len(queue) <= 2 * fails

(* stop() returns, or it starves in one way only: the logger thread waits  *)
(* on an empty queue, in the loop because the notify came before the wait, *)
(* or in the block after it (AsyncLogging.cpp:116), and nobody is left to  *)
(* wake it.                                                                *)
StopReturnsOrStarves ==
  isStop ~> (spc = "joined" \/ [](waiting /\ queue = <<>>))
===========================================================================

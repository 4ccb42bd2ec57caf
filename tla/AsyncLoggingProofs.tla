------------------------ MODULE AsyncLoggingProofs ------------------------
(***************************************************************************)
(* Proofs about AsyncLogging, for every set of calling threads, every      *)
(* bound on the queue and any number of lines, failed writes and spurious  *)
(* wake-ups.  Nothing here uses the fairness in Spec.                      *)
(***************************************************************************)
EXTENDS AsyncLogging, SequenceTheorems, TLAPS

(* Where the logger thread has swapped the queue into its logQ and not yet *)
(* gone back to the loop.                                                  *)
Handling == {"write", "report", "reportlock", "reportpush", "exit"}
InReport == {"report", "reportlock", "reportpush"}

(* A line is numbered from 1: the count is raised before the line exists.  *)
Numbered == /\ \A c \in Callers : cpc[c] \in {"lock", "push"} => sent[c] > 0
            /\ wpc \in InReport => fails > 0

(* The mutex is held exactly by the thread that is in a section.           *)
Holds == /\ \A c \in Callers : cpc[c] = "push" <=> mutex = c
         /\ wpc \in {"test", "swap", "reportpush"} <=> mutex = Logger

(* A swap finds the logger thread's own queue empty.                       *)
BatchTaken == wpc \notin Handling => batch = <<>>

(* After stop() was called nobody logs but the logger thread itself, and   *)
(* the block after the loop is entered for that reason only.               *)
StopOrder == /\ spc # "running" => \A c \in Callers : cpc[c] = "idle"
             /\ isStop => spc # "running"
             /\ last => isStop
             /\ wpc = "exit" => last /\ (batch = <<>> \/ drained > QueueCap)
             /\ spc = "joined" => wpc = "exit"

(* A failed write whose report is not in the queue yet.                    *)
Unreported == IF wpc \in InReport THEN 1 ELSE 0

(* In the block after the loop only reports of failed writes arrive.       *)
OnlyReports == last /\ wpc \in Handling => Len(queue) + Unreported <= fails

(* A caller that has passed log()'s test of the queue's length.            *)
Passed == IF \E c \in Callers : cpc[c] \in {"lock", "push"} THEN 1 ELSE 0

(* One caller can pass the bound only by a test that races with the push   *)
(* of a report: one that races with a swap is answered too long, but the   *)
(* queue is empty by the time the caller has the mutex.                    *)
QueueBounded ==
  OneCaller =>
    Len(queue) + (IF mutex = Logger THEN 0 ELSE Passed)
      <= QueueCap + 1 + 2 * (fails - Unreported)

(* What the last block has handled and has still to handle.                *)
LastBounded ==
  OneCaller /\ last /\ wpc \in Handling =>
    Len(batch) + drained + Len(queue) + Unreported <= QueueCap + 1 + 2 * fails

(* The inductive invariant.                                                *)
IInv == /\ TypeOK /\ Numbered /\ Holds /\ BatchTaken /\ InOrder /\ StopOrder
        /\ OnlyReports /\ QueueBounded /\ LastBounded
---------------------------------------------------------------------------
(* What a step does to the lines: nothing, one enters the queue, the queue *)
(* becomes the logger thread's batch, or the batch's first is tried.       *)
LinesKept == UNCHANGED <<queue, batch, attempts, pushed>>

LineEnters == \E l \in Lines : /\ queue' = Append(queue, l) /\ pushed' = Append(pushed, l)
                             /\ UNCHANGED <<batch, attempts>>

QueueTaken == /\ batch = <<>> /\ batch' = queue /\ queue' = <<>>
              /\ UNCHANGED <<attempts, pushed>>

LineTried == /\ batch # <<>> /\ batch' = Tail(batch)
             /\ attempts' = Append(attempts, Head(batch))
             /\ UNCHANGED <<queue, pushed>>

(* A caller's line and a report are lines.                                 *)
LEMMA LogPushEnters ==
  ASSUME TypeOK, Numbered, NEW c \in Callers, LogPush(c)
  PROVE  LineEnters
<1>1. <<c, sent[c]>> \in Callers \X (1..MaxMsgs)
  BY BoundsAssumption DEF TypeOK, Numbered, LogPush
<1>2. <<c, sent[c]>> \in Lines
  BY <1>1 DEF Lines
<1> QED BY <1>2 DEF LogPush, Enqueue, logger, LineEnters

LEMMA ReportPushEnters ==
  ASSUME TypeOK, Numbered, ReportPush
  PROVE  LineEnters
<1>1. <<Logger, fails>> \in {Logger} \X (1..MaxFails)
  BY BoundsAssumption DEF TypeOK, Numbered, ReportPush, InReport
<1>2. <<Logger, fails>> \in Lines
  BY <1>1 DEF Lines
<1> QED BY <1>2 DEF ReportPush, Enqueue, LineEnters

(* No step does anything else to the lines.                                *)
LEMMA LinesMove ==
  ASSUME TypeOK, Numbered, BatchTaken, [Next]_vars
  PROVE  LinesKept \/ LineEnters \/ QueueTaken \/ LineTried
<1>1. ASSUME NEW c \in Callers, LogCheck(c) \/ LogLock(c) \/ LogNotify(c)
      PROVE  LinesKept
  BY <1>1 DEF LogCheck, LogLock, LogNotify, logger, LinesKept
<1>2. CASE LoopTest \/ Acquire \/ WaitIfEmpty \/ WakeUp
  BY <1>2 DEF LoopTest, Acquire, WaitIfEmpty, WakeUp, LinesKept
<1>3. CASE ReportCheck \/ ReportLock \/ BatchDone
  BY <1>3 DEF ReportCheck, ReportLock, BatchDone, LinesKept
<1>4. CASE SpuriousWakeUp \/ SetStop \/ StopStep \/ UNCHANGED vars
  BY <1>4 DEF SpuriousWakeUp, SetStop, StopStep, StopNotify, Join, vars, logger, LinesKept
<1>5. CASE Swap
  BY <1>5 DEF Swap, BatchTaken, Handling, QueueTaken
<1>6. CASE WriteLine
  BY <1>6 DEF WriteLine, LineTried
<1> QED BY <1>1, <1>2, <1>3, <1>4, <1>5, <1>6, LogPushEnters, ReportPushEnters
        DEF Next, CallerStep, LoggerStep

(* The lengths that result.                                                *)
LEMMA LengthsMove ==
  ASSUME TypeOK
  PROVE  /\ Len(queue) \in Nat /\ Len(batch) \in Nat
         /\ LinesKept => Len(queue') = Len(queue) /\ Len(batch') = Len(batch)
         /\ LineEnters => Len(queue') = Len(queue) + 1 /\ Len(batch') = Len(batch)
         /\ QueueTaken => Len(queue') = 0 /\ Len(batch') = Len(queue)
         /\ LineTried => Len(queue') = Len(queue) /\ Len(batch') = Len(batch) - 1
<1>1. queue \in Seq(Lines) /\ batch \in Seq(Lines)
  BY DEF TypeOK
<1>2. Len(queue) \in Nat /\ Len(batch) \in Nat
  BY <1>1, LenProperties
<1>3. LinesKept => Len(queue') = Len(queue) /\ Len(batch') = Len(batch)
  BY DEF LinesKept
<1>4. LineEnters => Len(queue') = Len(queue) + 1 /\ Len(batch') = Len(batch)
  BY <1>1, AppendProperties DEF LineEnters
<1>5. QueueTaken => Len(queue') = 0 /\ Len(batch') = Len(queue)
  BY EmptySeq DEF QueueTaken
<1>6. LineTried => Len(queue') = Len(queue) /\ Len(batch') = Len(batch) - 1
  BY <1>1, HeadTailProperties DEF LineTried
<1> QED BY <1>2, <1>3, <1>4, <1>5, <1>6

(* Lines stay lines.                                                       *)
LEMMA LinesTyped ==
  ASSUME TypeOK, LinesKept \/ LineEnters \/ QueueTaken \/ LineTried
  PROVE  /\ queue' \in Seq(Lines) /\ batch' \in Seq(Lines)
         /\ attempts' \in Seq(Lines) /\ pushed' \in Seq(Lines)
<1>1. /\ queue \in Seq(Lines) /\ batch \in Seq(Lines)
      /\ attempts \in Seq(Lines) /\ pushed \in Seq(Lines)
  BY DEF TypeOK
<1>2. CASE LinesKept
  BY <1>1, <1>2 DEF LinesKept
<1>3. CASE LineEnters
  <2>1. PICK l \in Lines : /\ queue' = Append(queue, l) /\ pushed' = Append(pushed, l)
                           /\ UNCHANGED <<batch, attempts>>
    BY <1>3 DEF LineEnters
  <2>2. Append(queue, l) \in Seq(Lines) /\ Append(pushed, l) \in Seq(Lines)
    BY <1>1, AppendProperties
  <2> QED BY <2>1, <2>2, <1>1
<1>4. CASE QueueTaken
  BY <1>1, <1>4, EmptySeq, Zenon DEF QueueTaken
<1>5. CASE LineTried
  <2>1. Head(batch) \in Lines /\ Tail(batch) \in Seq(Lines)
    BY <1>1, <1>5, HeadTailProperties DEF LineTried
  <2> QED BY <2>1, <1>1, <1>5, AppendProperties, Zenon DEF LineTried
<1> QED BY <1>2, <1>3, <1>4, <1>5

(* A line appended to the queue comes after all others; one moved from the *)
(* front of the batch to the attempts keeps its place.                     *)
LEMMA EnterOrder ==
  ASSUME NEW S, NEW a \in Seq(S), NEW b \in Seq(S), NEW q \in Seq(S), NEW l \in S
  PROVE  a \o b \o Append(q, l) = Append(a \o b \o q, l)
<1>1. a \o b \in Seq(S) /\ (a \o b) \o q \in Seq(S) /\ <<l>> \in Seq(S)
  BY ConcatProperties
<1>2. Append(q, l) = q \o <<l>> /\ Append((a \o b) \o q, l) = ((a \o b) \o q) \o <<l>>
  BY <1>1, AppendIsConcat
<1>3. ((a \o b) \o q) \o <<l>> = (a \o b) \o (q \o <<l>>)
  BY <1>1, ConcatAssociative
<1> QED BY <1>2, <1>3

LEMMA TryOrder ==
  ASSUME NEW S, NEW a \in Seq(S), NEW b \in Seq(S), b # <<>>
  PROVE  Append(a, Head(b)) \o Tail(b) = a \o b
<1>1. Head(b) \in S /\ Tail(b) \in Seq(S)
  BY HeadTailProperties
<1>2. <<Head(b)>> \in Seq(S) /\ Append(a, Head(b)) = a \o <<Head(b)>>
  BY <1>1, AppendIsConcat
<1>3. b = <<Head(b)>> \o Tail(b)
  BY <1>1
<1>4. (a \o <<Head(b)>>) \o Tail(b) = a \o (<<Head(b)>> \o Tail(b))
  BY <1>1, <1>2, ConcatAssociative
<1> QED BY <1>2, <1>3, <1>4

(* Their order is the order in which they entered the queue.               *)
LEMMA InOrderStep ==
  ASSUME TypeOK, InOrder, LinesKept \/ LineEnters \/ QueueTaken \/ LineTried
  PROVE  InOrder'
<1>1. /\ queue \in Seq(Lines) /\ batch \in Seq(Lines)
      /\ attempts \in Seq(Lines) /\ pushed \in Seq(Lines)
      /\ attempts \o batch \o queue = pushed
  BY DEF TypeOK, InOrder
<1>2. CASE LinesKept
  BY <1>1, <1>2 DEF LinesKept, InOrder
<1>3. CASE LineEnters
  <2>1. PICK l \in Lines : queue' = Append(queue, l) /\ pushed' = Append(pushed, l)
                            /\ UNCHANGED <<batch, attempts>>
    BY <1>3 DEF LineEnters
  <2>2. attempts \o batch \o Append(queue, l) = Append(attempts \o batch \o queue, l)
    <3>1. PICK S : S = Lines
      OBVIOUS
    <3>2. attempts \in Seq(S) /\ batch \in Seq(S) /\ queue \in Seq(S) /\ l \in S
      BY <1>1, <3>1
    <3> QED BY <3>2, EnterOrder
  <2>3. attempts \o batch \o Append(queue, l) = Append(pushed, l)
    BY <1>1, <2>2, Zenon
  <2>4. attempts' \o batch' \o queue' = attempts \o batch \o Append(queue, l)
    BY <2>1, Zenon
  <2> QED BY <2>1, <2>3, <2>4, Zenon DEF InOrder
<1>4. CASE QueueTaken
  <2>1. attempts \o <<>> = attempts /\ (attempts \o queue) \o <<>> = attempts \o queue
    BY <1>1, ConcatProperties, ConcatEmptySeq
  <2> QED BY <1>1, <1>4, <2>1 DEF QueueTaken, InOrder
<1>5. CASE LineTried
  <2>1. Append(attempts, Head(batch)) \o Tail(batch) = attempts \o batch
    BY <1>1, <1>5, TryOrder DEF LineTried
  <2> QED BY <1>1, <1>5, <2>1 DEF LineTried, InOrder
<1> QED BY <1>2, <1>3, <1>4, <1>5
---------------------------------------------------------------------------
(* The types of everything but the lines.                                  *)
ControlTyped ==
  /\ mutex \in Callers \cup {Logger, NoOne}
  /\ waiting \in BOOLEAN /\ isStop \in BOOLEAN /\ last \in BOOLEAN
  /\ wpc \in {"loop", "lock", "test", "waiting", "swap", "write",
              "report", "reportlock", "reportpush", "exit"}
  /\ cpc \in [Callers -> {"idle", "lock", "push", "notify"}]
  /\ sent \in [Callers -> 0..MaxMsgs]
  /\ spc \in {"running", "notify", "join", "joined"}
  /\ drained \in Nat /\ (last => drained <= QueueCap + 1 \/ wpc \in {"lock", "test", "waiting", "swap"})
  /\ fails \in 0..MaxFails /\ spurious \in 0..MaxSpurious

LEMMA ControlStep ==
  ASSUME ControlTyped, [Next]_vars
  PROVE  ControlTyped'
<1> USE BoundsAssumption DEF ControlTyped
<1>1. ASSUME NEW c \in Callers, LogCheck(c) PROVE ControlTyped'
  BY <1>1 DEF LogCheck, logger
<1>2. ASSUME NEW c \in Callers, CallerStep(c) PROVE ControlTyped'
  <2>1. /\ mutex' \in {mutex, c, NoOne} /\ waiting' \in {waiting, FALSE}
        /\ \E p \in {"push", "notify", "idle"} : cpc' = [cpc EXCEPT ![c] = p]
        /\ UNCHANGED <<isStop, last, wpc, sent, spc, drained, fails, spurious>>
    BY <1>2 DEF CallerStep, LogLock, LogPush, LogNotify, Enqueue, logger
  <2>2. cpc' \in [Callers -> {"idle", "lock", "push", "notify"}]
    BY <2>1
  <2>3. mutex' \in Callers \cup {Logger, NoOne} /\ waiting' \in BOOLEAN
    BY <2>1
  <2> QED BY <2>1, <2>2, <2>3
<1>3. CASE LoopTest \/ Acquire \/ WaitIfEmpty \/ WakeUp
  BY <1>3 DEF LoopTest, Acquire, WaitIfEmpty, WakeUp, callers
<1>4. CASE Swap \/ ReportCheck \/ ReportLock \/ ReportPush \/ BatchDone
  BY <1>4 DEF Swap, ReportCheck, ReportLock, ReportPush, BatchDone, Enqueue, callers
<1>5. CASE WriteLine
  <2>1. /\ drained' = drained + 1 /\ (last => drained <= QueueCap)
        /\ \/ UNCHANGED <<wpc, fails>>
           \/ fails < MaxFails /\ fails' = fails + 1 /\ wpc' = "report"
        /\ UNCHANGED <<mutex, waiting, isStop, last, cpc, sent, spc, spurious>>
    BY <1>5 DEF WriteLine, GivesUp, callers
  <2> QED BY <2>1
<1>6. CASE SpuriousWakeUp \/ SetStop \/ StopStep \/ UNCHANGED vars
  <2>1. /\ waiting' \in {waiting, FALSE} /\ isStop' \in {isStop, TRUE}
        /\ spc' \in {spc, "notify", "join", "joined"}
        /\ spurious' = spurious \/ (spurious < MaxSpurious /\ spurious' = spurious + 1)
        /\ UNCHANGED <<mutex, last, wpc, cpc, sent, drained, fails>>
    BY <1>6 DEF SpuriousWakeUp, SetStop, StopStep, StopNotify, Join, vars, logger, callers
  <2>2. spurious' \in 0..MaxSpurious
    BY <2>1
  <2>3. waiting' \in BOOLEAN /\ isStop' \in BOOLEAN
    BY <2>1
  <2>4. spc' \in {"running", "notify", "join", "joined"}
    BY <2>1
  <2> QED BY <2>1, <2>2, <2>3, <2>4
<1> QED BY <1>1, <1>2, <1>3, <1>4, <1>5, <1>6 DEF Next, LoggerStep

LEMMA TypeStep ==
  ASSUME TypeOK, Numbered, BatchTaken, [Next]_vars
  PROVE  TypeOK'
<1>1. ControlTyped'
  BY ControlStep DEF TypeOK, ControlTyped
<1>2. /\ queue' \in Seq(Lines) /\ batch' \in Seq(Lines)
      /\ attempts' \in Seq(Lines) /\ pushed' \in Seq(Lines)
  BY LinesMove, LinesTyped
<1> QED BY <1>1, <1>2 DEF TypeOK, ControlTyped

(* The counts are raised before the lines that carry them.                 *)
LEMMA NumberedStep ==
  ASSUME ControlTyped, Numbered, [Next]_vars
  PROVE  Numbered'
<1> USE DEF ControlTyped, Numbered, InReport
<1>1. ASSUME NEW c \in Callers, LogCheck(c) PROVE Numbered'
  BY <1>1 DEF LogCheck, logger
<1>2. ASSUME NEW c \in Callers, CallerStep(c) PROVE Numbered'
  BY <1>2 DEF CallerStep, LogLock, LogPush, LogNotify, Enqueue, logger
<1>3. CASE LoggerStep
  BY <1>3 DEF LoggerStep, LoopTest, Acquire, WaitIfEmpty, WakeUp, Swap, WriteLine, ReportCheck,
              ReportLock, ReportPush, BatchDone, Enqueue, callers
<1>4. CASE SpuriousWakeUp \/ SetStop \/ StopStep \/ UNCHANGED vars
  BY <1>4 DEF SpuriousWakeUp, SetStop, StopStep, StopNotify, Join, vars, logger, callers
<1> QED BY <1>1, <1>2, <1>3, <1>4 DEF Next

(* The mutex goes with the sections, also through the wait.                *)
LEMMA HoldsStep ==
  ASSUME ControlTyped, Holds, [Next]_vars
  PROVE  Holds'
<1> USE CallersAssumption DEF ControlTyped, Holds
<1>1. ASSUME NEW c \in Callers, LogCheck(c) PROVE Holds'
  BY <1>1 DEF LogCheck, logger
<1>2. ASSUME NEW c \in Callers, CallerStep(c) PROVE Holds'
  BY <1>2 DEF CallerStep, LogLock, LogPush, LogNotify, Enqueue, logger
<1>3. CASE LoggerStep
  BY <1>3 DEF LoggerStep, LoopTest, Acquire, WaitIfEmpty, WakeUp, Swap, WriteLine, ReportCheck,
              ReportLock, ReportPush, BatchDone, Enqueue, callers
<1>4. CASE SpuriousWakeUp \/ SetStop \/ StopStep \/ UNCHANGED vars
  BY <1>4 DEF SpuriousWakeUp, SetStop, StopStep, StopNotify, Join, vars, logger, callers
<1> QED BY <1>1, <1>2, <1>3, <1>4 DEF Next

(* The batch is used up before the next swap: only the last block leaves   *)
(* lines in it, and nothing follows that block.                            *)
LEMMA BatchStep ==
  ASSUME BatchTaken, [Next]_vars
  PROVE  BatchTaken'
<1> USE DEF BatchTaken, Handling
<1>1. ASSUME NEW c \in Callers, LogCheck(c) \/ CallerStep(c) PROVE BatchTaken'
  BY <1>1 DEF LogCheck, CallerStep, LogLock, LogPush, LogNotify, Enqueue, logger
<1>2. CASE LoggerStep
  BY <1>2 DEF LoggerStep, LoopTest, Acquire, WaitIfEmpty, WakeUp, Swap, WriteLine, ReportCheck,
              ReportLock, ReportPush, BatchDone, GivesUp, Enqueue, callers
<1>3. CASE SpuriousWakeUp \/ SetStop \/ StopStep \/ UNCHANGED vars
  BY <1>3 DEF SpuriousWakeUp, SetStop, StopStep, StopNotify, Join, vars, logger, callers
<1> QED BY <1>1, <1>2, <1>3 DEF Next

(* What happens after stop() happens in its order.                         *)
LEMMA StopOrderStep ==
  ASSUME ControlTyped, StopOrder, [Next]_vars
  PROVE  StopOrder'
<1> USE DEF ControlTyped, StopOrder
<1>1. ASSUME NEW c \in Callers, LogCheck(c) \/ CallerStep(c) PROVE StopOrder'
  BY <1>1 DEF LogCheck, CallerStep, LogLock, LogPush, LogNotify, Enqueue, logger
<1>2. CASE LoggerStep
  BY <1>2 DEF LoggerStep, LoopTest, Acquire, WaitIfEmpty, WakeUp, Swap, WriteLine, ReportCheck,
              ReportLock, ReportPush, BatchDone, GivesUp, Enqueue, callers
<1>3. CASE SpuriousWakeUp \/ SetStop \/ StopStep \/ UNCHANGED vars
  BY <1>3 DEF SpuriousWakeUp, SetStop, StopStep, StopNotify, Join, vars, logger, callers
<1> QED BY <1>1, <1>2, <1>3 DEF Next
---------------------------------------------------------------------------
(* After stop() only the logger thread adds to the queue, one report for   *)
(* each failed write.                                                      *)
LEMMA OnlyReportsStep ==
  ASSUME TypeOK, Numbered, BatchTaken, StopOrder, OnlyReports, [Next]_vars
  PROVE  OnlyReports'
<1> DEFINE q == Len(queue)
           r == Len(queue')
<1>1. q \in Nat /\ fails \in Nat
  BY LengthsMove DEF TypeOK
<1>3. OnlyReports' <=> (last' /\ wpc' \in Handling => r + Unreported' <= fails')
  BY DEF OnlyReports
<1>4. last /\ wpc \in Handling => q + Unreported <= fails
  BY DEF OnlyReports
<1>5. last => \A c \in Callers : cpc[c] = "idle"
  BY DEF StopOrder, TypeOK
<1> USE DEF Handling, Unreported, InReport
<1>6. ASSUME NEW c \in Callers, LogCheck(c) PROVE OnlyReports'
  <2>1. r = q
    BY <1>6 DEF LogCheck
  <2> HIDE DEF q, r
  <2> QED BY <1>6, <2>1, <1>3, <1>4 DEF LogCheck, logger
<1>7. ASSUME NEW c \in Callers, CallerStep(c) PROVE OnlyReports'
  <2>1. ~last /\ last' = last
    BY <1>5, <1>7 DEF CallerStep, LogLock, LogPush, LogNotify, logger
  <2> QED BY <2>1, <1>3
<1>8. CASE LoopTest \/ Acquire \/ WaitIfEmpty \/ WakeUp
  <2>1. wpc' \notin Handling
    BY <1>8 DEF LoopTest, Acquire, WaitIfEmpty, WakeUp
  <2> QED BY <2>1, <1>3
<1>9. CASE Swap
  <2>1. r = 0 /\ fails' = fails /\ wpc' = "write"
    BY <1>9, EmptySeq DEF Swap
  <2> HIDE DEF q, r
  <2> QED BY <2>1, <1>1, <1>3
<1>10. CASE WriteLine
  <2>1. /\ r = q /\ wpc = "write" /\ last' = last
        /\ \/ UNCHANGED <<wpc, fails>>
           \/ fails' = fails + 1 /\ wpc' = "report"
    BY <1>10 DEF WriteLine
  <2> HIDE DEF q, r
  <2> QED BY <2>1, <1>1, <1>3, <1>4
<1>11. CASE ReportCheck \/ ReportLock \/ BatchDone
  <2>1. r = q /\ last' = last /\ fails' = fails
    BY <1>11 DEF ReportCheck, ReportLock, BatchDone
  <2> DEFINE u == Unreported
             v == Unreported'
  <2>2. u \in {0, 1} /\ v \in {0, 1} /\ v <= u /\ wpc \in Handling
    BY <1>11 DEF ReportCheck, ReportLock, BatchDone
  <2>3. /\ last => q + u <= fails
        /\ OnlyReports' <=> (last' /\ wpc' \in Handling => r + v <= fails')
    BY <2>2, <1>3, <1>4
  <2> HIDE DEF q, r, u, v
  <2> QED BY <2>1, <2>2, <2>3, <1>1
<1>12. CASE ReportPush
  <2>1. /\ r = q + 1 /\ wpc = "reportpush" /\ wpc' = "write"
        /\ last' = last /\ fails' = fails
    BY <1>12, ReportPushEnters, LengthsMove DEF ReportPush
  <2> HIDE DEF q, r
  <2> QED BY <2>1, <1>1, <1>3, <1>4
<1>13. CASE SpuriousWakeUp \/ SetStop \/ StopStep \/ UNCHANGED vars
  <2>1. r = q /\ last' = last /\ fails' = fails /\ wpc' = wpc
    BY <1>13 DEF SpuriousWakeUp, SetStop, StopStep, StopNotify, Join, vars, logger
  <2> HIDE DEF q, r
  <2> QED BY <2>1, <1>1, <1>3, <1>4
<1> QED BY <1>6, <1>7, <1>8, <1>9, <1>10, <1>11, <1>12, <1>13 DEF Next, LoggerStep

(* With one caller, Passed says where that caller is.                      *)
LEMMA PassedOfCaller ==
  ASSUME OneCaller, NEW c \in Callers
  PROVE  /\ Passed = IF cpc[c] \in {"lock", "push"} THEN 1 ELSE 0
         /\ Passed' = IF cpc'[c] \in {"lock", "push"} THEN 1 ELSE 0
BY DEF OneCaller, Passed

(* With one caller the queue outgrows its bound only by failed writes.     *)
LEMMA QueueBoundedStep ==
  ASSUME TypeOK, Numbered, Holds, BatchTaken, QueueBounded, [Next]_vars
  PROVE  QueueBounded'
<1> SUFFICES ASSUME OneCaller PROVE QueueBounded'
  BY DEF QueueBounded, OneCaller
<1> DEFINE q == Len(queue)
           r == Len(queue')
           u == Unreported
           v == Unreported'
           n == IF mutex = Logger THEN 0 ELSE Passed
           m == IF mutex' = Logger THEN 0 ELSE Passed'
           k == QueueCap
           B == q + n <= k + 1 + 2 * (fails - u)
           C == r + m <= k + 1 + 2 * (fails' - v)
<1>1. /\ q \in Nat /\ k \in Nat /\ fails \in Nat
      /\ u \in {0, 1} /\ v \in {0, 1} /\ n \in {0, 1} /\ m \in {0, 1}
      /\ u <= fails
  <2>1. q \in Nat /\ k \in Nat /\ fails \in Nat
    BY LengthsMove, BoundsAssumption DEF TypeOK
  <2>2. u \in {0, 1} /\ v \in {0, 1} /\ u <= fails
    BY <2>1 DEF Unreported, Numbered
  <2>3. n \in {0, 1} /\ m \in {0, 1}
    BY DEF Passed
  <2> QED BY <2>1, <2>2, <2>3
<1>2. B /\ (QueueBounded' <=> C)
  BY DEF QueueBounded, OneCaller
<1>3. ASSUME NEW c \in Callers, LogCheck(c) PROVE C
  <2>1. r = q /\ v = u /\ fails' = fails /\ mutex' = mutex
    BY <1>3 DEF LogCheck, logger, Unreported
  <2>2. q <= k \/ mutex # NoOne \/ m <= n
    BY <1>3 DEF LogCheck, LooksShort, LooksLong, Passed
  <2>3. mutex # NoOne => mutex = Logger
    BY <1>3, PassedOfCaller DEF LogCheck, Holds, TypeOK, OneCaller
  <2>4. mutex = Logger => n = 0 /\ m = 0
    BY <2>1
  <2> HIDE DEF q, r, u, v, n, m, k
  <2> QED BY <2>1, <2>2, <2>3, <2>4, <1>1, <1>2
<1>4. ASSUME NEW c \in Callers, LogLock(c) \/ LogNotify(c) PROVE C
  <2>1. r = q /\ v = u /\ fails' = fails
    BY <1>4 DEF LogLock, LogNotify, logger, Unreported
  <2>2. Passed' <= Passed
    <3>1. cpc'[c] \in {"lock", "push"} => cpc[c] \in {"lock", "push"}
      BY <1>4 DEF LogLock, LogNotify, TypeOK
    <3> QED BY <3>1, PassedOfCaller
  <2>3. mutex = Logger => mutex' = Logger
    BY <1>4, CallersAssumption DEF LogLock, LogNotify
  <2>4. m <= n
    BY <2>2, <2>3 DEF Passed
  <2> HIDE DEF q, r, u, v, n, m, k
  <2> QED BY <2>1, <2>4, <1>1, <1>2
<1>5. ASSUME NEW c \in Callers, LogPush(c) PROVE C
  <2>1. r = q + 1 /\ v = u /\ fails' = fails
    BY <1>5, LogPushEnters, LengthsMove DEF LogPush, logger, Unreported
  <2>2. mutex = c /\ mutex' = NoOne /\ cpc[c] = "push" /\ cpc'[c] = "notify"
    BY <1>5 DEF LogPush, Holds, Enqueue, TypeOK
  <2>3. n = 1 /\ m = 0
    BY <2>2, PassedOfCaller, CallersAssumption
  <2> HIDE DEF q, r, u, v, n, m, k
  <2> QED BY <2>1, <2>3, <1>1, <1>2
<1>6. CASE LoopTest \/ Acquire \/ ReportCheck \/ ReportLock \/ BatchDone
  <2>1. /\ r = q /\ v <= u /\ fails' = fails
        /\ cpc' = cpc /\ mutex' \in {mutex, Logger}
    BY <1>6 DEF LoopTest, Acquire, ReportCheck, ReportLock, BatchDone, callers, Unreported, InReport
  <2>2. m <= n
    BY <2>1 DEF Passed
  <2> HIDE DEF q, r, u, v, n, m, k
  <2> QED BY <2>1, <2>2, <1>1, <1>2
<1>7. CASE WaitIfEmpty \/ WakeUp
  <2>1. /\ r = q /\ v = u /\ fails' = fails
        /\ q = 0 \/ (mutex' \in {mutex, Logger} /\ cpc' = cpc)
    BY <1>7, EmptySeq DEF WaitIfEmpty, WakeUp, callers, Unreported, InReport
  <2>2. q = 0 \/ m <= n
    BY <2>1 DEF Passed
  <2> HIDE DEF q, r, u, v, n, m, k
  <2> QED BY <2>1, <2>2, <1>1, <1>2
<1>8. CASE Swap
  <2>1. r = 0 /\ v = u /\ fails' = fails
    BY <1>8, EmptySeq DEF Swap, Unreported, InReport
  <2> HIDE DEF q, r, u, v, n, m, k
  <2> QED BY <2>1, <1>1, <1>2
<1>9. CASE WriteLine
  <2>1. /\ r = q /\ u = 0 /\ mutex' = mutex /\ cpc' = cpc
        /\ \/ fails' = fails /\ v = 0
           \/ fails' = fails + 1 /\ v = 1
    BY <1>9 DEF WriteLine, callers, Unreported, InReport
  <2>2. m = n
    BY <2>1 DEF Passed
  <2> HIDE DEF q, r, u, v, n, m, k
  <2> QED BY <2>1, <2>2, <1>1, <1>2
<1>10. CASE ReportPush
  <2>1. r = q + 1 /\ u = 1 /\ v = 0 /\ fails' = fails
    BY <1>10, ReportPushEnters, LengthsMove DEF ReportPush, Unreported, InReport
  <2> HIDE DEF q, r, u, v, n, m, k
  <2> QED BY <2>1, <1>1, <1>2
<1>11. CASE SpuriousWakeUp \/ SetStop \/ StopStep \/ UNCHANGED vars
  <2>1. r = q /\ fails' = fails /\ wpc' = wpc /\ mutex' = mutex /\ cpc' = cpc
    BY <1>11 DEF SpuriousWakeUp, SetStop, StopStep, StopNotify, Join, vars, logger, callers
  <2>2. v = u /\ m = n
    BY <2>1 DEF Unreported, Passed
  <2> HIDE DEF q, r, u, v, n, m, k
  <2> QED BY <2>1, <2>2, <1>1, <1>2
<1> QED BY <1>2, <1>3, <1>4, <1>5, <1>6, <1>7, <1>8, <1>9, <1>10, <1>11
        DEF Next, CallerStep, LoggerStep

(* With one caller the last block, which handles QueueCap + 1 lines, finds *)
(* no more than two lines beyond that for each failed write.               *)
LEMMA LastBoundedStep ==
  ASSUME TypeOK, Numbered, Holds, BatchTaken, StopOrder, QueueBounded, LastBounded, [Next]_vars
  PROVE  LastBounded'
<1> SUFFICES ASSUME OneCaller PROVE LastBounded'
  BY DEF LastBounded, OneCaller
<1> DEFINE q == Len(queue)
           r == Len(queue')
           b == Len(batch)
           d == Len(batch')
           u == Unreported
           v == Unreported'
           k == QueueCap
           B == b + drained + q + u <= k + 1 + 2 * fails
           C == d + drained' + r + v <= k + 1 + 2 * fails'
<1>1. /\ q \in Nat /\ b \in Nat /\ k \in Nat /\ fails \in Nat /\ drained \in Nat
      /\ u \in {0, 1} /\ v \in {0, 1}
  <2>1. q \in Nat /\ b \in Nat /\ k \in Nat /\ fails \in Nat /\ drained \in Nat
    BY LengthsMove, BoundsAssumption DEF TypeOK
  <2> QED BY <2>1 DEF Unreported
<1>2. /\ last /\ wpc \in Handling => B
      /\ LastBounded' <=> (last' /\ wpc' \in Handling => C)
  BY DEF LastBounded, OneCaller
<1>3. ASSUME NEW c \in Callers, LogCheck(c) PROVE LastBounded'
  <2>1. UNCHANGED <<queue, batch, drained, fails, wpc, last>>
    BY <1>3 DEF LogCheck, logger
  <2> QED BY <2>1, <1>2 DEF Unreported
<1>4. ASSUME NEW c \in Callers, CallerStep(c) PROVE LastBounded'
  <2>1. last => cpc[c] = "idle"
    BY DEF StopOrder, TypeOK
  <2>2. ~last /\ last' = last
    BY <1>4, <2>1 DEF CallerStep, LogLock, LogPush, LogNotify, logger
  <2> QED BY <2>2, <1>2
<1>5. CASE LoopTest \/ Acquire \/ WaitIfEmpty \/ WakeUp
  <2>1. wpc' \notin Handling
    BY <1>5 DEF LoopTest, Acquire, WaitIfEmpty, WakeUp, Handling
  <2> QED BY <2>1, <1>2
<1>6. CASE Swap
  <2>1. /\ r = 0 /\ d = q /\ drained' = 0 /\ fails' = fails /\ v = 0 /\ u = 0
    BY <1>6, EmptySeq DEF Swap, Unreported, InReport
  <2>2. mutex = Logger
    BY <1>6 DEF Swap, Holds
  <2>3. q <= k + 1 + 2 * (fails - u)
    BY <1>1, <2>2 DEF QueueBounded
  <2> HIDE DEF q, r, b, d, u, v, k
  <2> QED BY <2>1, <2>3, <1>1, <1>2
<1>7. CASE WriteLine
  <2>1. /\ r = q /\ d = b - 1 /\ drained' = drained + 1 /\ last' = last /\ u = 0
        /\ wpc \in Handling
        /\ \/ fails' = fails /\ v = 0
           \/ fails' = fails + 1 /\ v = 1
    <3>1. LineTried
      BY <1>7 DEF WriteLine, LineTried
    <3>2. r = q /\ d = b - 1
      BY <3>1, LengthsMove
    <3> QED BY <1>7, <3>2 DEF WriteLine, Unreported, InReport, Handling
  <2> HIDE DEF q, r, b, d, u, v, k
  <2> QED BY <2>1, <1>1, <1>2
<1>8. CASE ReportCheck \/ ReportLock \/ BatchDone
  <2>1. /\ r = q /\ d = b /\ drained' = drained /\ last' = last /\ fails' = fails
        /\ v <= u /\ wpc \in Handling
    BY <1>8 DEF ReportCheck, ReportLock, BatchDone, Unreported, InReport, Handling
  <2> HIDE DEF q, r, b, d, u, v, k
  <2> QED BY <2>1, <1>1, <1>2
<1>9. CASE ReportPush
  <2>1. /\ r = q + 1 /\ d = b /\ u = 1 /\ v = 0 /\ drained' = drained /\ fails' = fails
        /\ last' = last /\ wpc \in Handling
    BY <1>9, ReportPushEnters, LengthsMove DEF ReportPush, Unreported, InReport, Handling
  <2> HIDE DEF q, r, b, d, u, v, k
  <2> QED BY <2>1, <1>1, <1>2
<1>10. CASE SpuriousWakeUp \/ SetStop \/ StopStep \/ UNCHANGED vars
  <2>1. UNCHANGED <<queue, batch, drained, fails, wpc, last>>
    BY <1>10 DEF SpuriousWakeUp, SetStop, StopStep, StopNotify, Join, vars, logger
  <2> QED BY <2>1, <1>2 DEF Unreported
<1> QED BY <1>3, <1>4, <1>5, <1>6, <1>7, <1>8, <1>9, <1>10 DEF Next, LoggerStep
---------------------------------------------------------------------------
(* The logger thread starts with nothing.                                  *)
LEMMA InitInv == Init => IInv
<1> SUFFICES ASSUME Init PROVE IInv
  OBVIOUS
<1> USE DEF Init
<1>1. <<>> \in Seq(Lines) /\ Len(<<>>) = 0 /\ <<>> \o <<>> \o <<>> = <<>>
  BY EmptySeq
<1>2. TypeOK
  <2>1. 0 \in 0..MaxMsgs /\ 0 \in 0..MaxFails /\ 0 \in 0..MaxSpurious /\ 0 <= QueueCap + 1
    BY BoundsAssumption
  <2>2. /\ cpc \in [Callers -> {"idle", "lock", "push", "notify"}]
        /\ sent \in [Callers -> 0..MaxMsgs]
    BY <2>1
  <2> QED BY <1>1, <2>1, <2>2 DEF TypeOK
<1>3. Numbered /\ Holds /\ BatchTaken /\ StopOrder
  BY CallersAssumption DEF Numbered, Holds, BatchTaken, StopOrder, InReport
<1>4. InOrder /\ OnlyReports /\ LastBounded
  BY <1>1 DEF InOrder, OnlyReports, LastBounded
<1>5. QueueBounded
  BY <1>1, BoundsAssumption DEF QueueBounded, Passed, Unreported, InReport
<1> QED BY <1>2, <1>3, <1>4, <1>5 DEF IInv

(* The inductive invariant holds in every reachable state.                 *)
THEOREM LoggingInvariance == Spec => []IInv
<1>1. IInv /\ [Next]_vars => IInv'
  <2> SUFFICES ASSUME IInv, [Next]_vars PROVE IInv'
    OBVIOUS
  <2>1. /\ TypeOK /\ Numbered /\ Holds /\ BatchTaken /\ InOrder /\ StopOrder
        /\ OnlyReports /\ QueueBounded /\ LastBounded
    BY DEF IInv
  <2>2. ControlTyped
    BY <2>1 DEF TypeOK, ControlTyped
  <2>3. TypeOK' /\ Numbered' /\ Holds' /\ BatchTaken' /\ StopOrder'
    BY <2>1, <2>2, TypeStep, NumberedStep, HoldsStep, BatchStep, StopOrderStep
  <2>4. InOrder'
    BY <2>1, LinesMove, InOrderStep
  <2>5. OnlyReports' /\ QueueBounded' /\ LastBounded'
    BY <2>1, OnlyReportsStep, QueueBoundedStep, LastBoundedStep
  <2> QED BY <2>3, <2>4, <2>5 DEF IInv
<1> QED BY InitInv, <1>1, PTL DEF Spec

(* The types of the queue, of both threads' positions and of the counts;   *)
(* the count of the last block never exceeds its limit by more than one.   *)
THEOREM LoggingTypeCorrect == Spec => []TypeOK
<1>1. IInv => TypeOK
  BY DEF IInv
<1> QED BY <1>1, LoggingInvariance, PTL

(* At most one thread is where the queue is changed or tested under the    *)
(* mutex, and it is the one that holds it, for any number of callers.      *)
THEOREM QueueExclusion == Spec => []MutualExclusion
<1>1. IInv => MutualExclusion
  <2> SUFFICES ASSUME IInv PROVE MutualExclusion
    OBVIOUS
  <2>1. /\ \A c \in Callers : cpc[c] = "push" <=> mutex = c
        /\ wpc \in {"test", "swap", "reportpush"} <=> mutex = Logger
        /\ mutex \in Callers \cup {Logger, NoOne}
    BY DEF IInv, Holds, TypeOK
  <2>2. {c \in Callers : cpc[c] = "push"} = {c \in Callers : mutex = c}
    BY <2>1
  <2>3. InSection = {c \in Callers : mutex = c} \cup (IF mutex = Logger THEN {Logger} ELSE {})
    BY <2>1, <2>2 DEF InSection
  <2> QED BY <2>1, <2>3, CallersAssumption DEF MutualExclusion
<1> QED BY <1>1, LoggingInvariance, PTL

(* Every line that entered the queue is tried exactly once and in the      *)
(* order of entry, whatever the interleaving of callers, wake-ups, swaps,  *)
(* failed writes and stop().                                               *)
THEOREM LinesInOrder == Spec => []InOrder
<1>1. IInv => InOrder
  BY DEF IInv
<1> QED BY <1>1, LoggingInvariance, PTL

(* What stop() leaves behind is charged to failed writes: one line to each *)
(* while the last block stays below its limit and, with one calling        *)
(* thread, two to each wherever that block ends.                           *)
THEOREM StopDrains == Spec => []JoinDrains
<1>1. IInv => JoinDrains
  <2> SUFFICES ASSUME IInv, spc = "joined"
               PROVE  /\ drained <= QueueCap => Len(batch) + Len(queue) <= fails
                      /\ OneCaller => Len(batch) + Len(queue) <= 2 * fails
    BY DEF JoinDrains
  <2> DEFINE q == Len(queue)
             b == Len(batch)
             k == QueueCap
  <2>1. q \in Nat /\ b \in Nat /\ k \in Nat /\ fails \in Nat /\ drained \in Nat
    BY LengthsMove, BoundsAssumption DEF IInv, TypeOK
  <2>2. wpc = "exit" /\ last /\ (b = 0 \/ drained > k)
    BY EmptySeq DEF IInv, StopOrder
  <2>3. Unreported = 0 /\ wpc \in Handling
    BY <2>2 DEF Unreported, InReport, Handling
  <2>4. q <= fails
    BY <2>1, <2>2, <2>3 DEF IInv, OnlyReports
  <2>5. OneCaller => b + drained + q <= k + 1 + 2 * fails
    BY <2>1, <2>2, <2>3 DEF IInv, LastBounded
  <2> HIDE DEF q, b, k
  <2>6. drained <= k => b + q <= fails
    BY <2>1, <2>2, <2>4
  <2>7. OneCaller => b + q <= 2 * fails
    BY <2>1, <2>2, <2>4, <2>5
  <2> QED BY <2>6, <2>7 DEF q, b, k
<1> QED BY <1>1, LoggingInvariance, PTL
===========================================================================

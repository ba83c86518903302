--------------------------- MODULE BenchEnd_proofs ----------------------------
(***************************************************************************)
(* The end of a run: the final report is complete, the window of the       *)
(* charts is consistent, Bench implements BenchPromise, and exactly -n     *)
(* requests are made.                                                      *)
(***************************************************************************)
EXTENDS Bench_proofs

(***************************************************************************)
(* DoneInv: doneChan is closed only after the last record was collected,   *)
(* and the final echo comes after that.                                    *)
(***************************************************************************)
DoneInv ==
    /\ DoneClosed => Drained
    /\ main \in {"final", "formatFinal", "wait", "exited"} => DoneClosed
    /\ main \in {"formatFinal", "wait", "exited"} /\ ~NoReport => shown.count = count

LEMMA DoneNext == TypeOK /\ WgInv /\ DoneInv /\ [Next]_vars => DoneInv'
<1> SUFFICES ASSUME TypeOK, WgInv, DoneInv, [Next]_vars PROVE DoneInv'
  OBVIOUS
<1> USE DEF DoneInv, DoneClosed, Drained
<1>1. CASE UNCHANGED vars
  BY <1>1 DEF vars, chanVars, reportVars, collectVars, mainVars
<1>2. CASE Main \/ Chart
  <2>1. CASE MainStart
    BY <2>1 DEF MainStart
  <2>2. CASE FinalEcho \/ Echo
    BY <2>2 DEF FinalEcho, Echo, Snapshot, TypeOK, MainTypeOK, chanVars, reportVars, collectVars
  <2>3. CASE FinalFormat \/ EchoFormat
    BY <2>3 DEF FinalFormat, EchoFormat, Format, TypeOK, MainTypeOK, chanVars, reportVars,
                collectVars
  <2>4. CASE PrintDone \/ MainExit \/ Chart
    BY <2>4 DEF PrintDone, MainExit, Chart, ChartTick, ChartWrite, ChartDone, DoneClosed,
                chanVars, reportVars, collectVars
  <2>5. QED
    BY <1>2, <2>1, <2>2, <2>3, <2>4 DEF Main
<1>3. CASE RunStep \/ TimerStep \/ GenStep \/ SecondsStep
  <2>1. UNCHANGED <<collect, recordChan, count, main, shown>> /\ (closed => closed')
    BY <1>3
    DEF RunStep, Run, RunBegin, RunSpawn, RunSpawned, RunWait, RunCancel, RunClose, CloseChan,
        TimerStep, TimerFires, GenStep, GenerateTokens, GenSpawn, GenUpTick, GenKeep, GenDown,
        GenLast, SecondsStep, Seconds, SecondTick, SecondsOver, chanVars, reportVars,
        collectVars, mainVars
  <2>2. QED
    BY <2>1
<1>4. ASSUME NEW w \in Workers, Worker(w) PROVE DoneInv'
  <2>1. UNCHANGED <<collect, closed, count, main, shown>> /\ (closed => UNCHANGED recordChan)
    BY <1>4
    DEF Worker, LoopWork, Enter, Acquire, Begin, Stop, Invoked, SendRecord, Send, CanSend,
        WgDone, Leave, chanVars, reportVars, collectVars, mainVars
  <2>2. QED
    BY <2>1
<1>5. CASE CollectStep
  <2>1. UNCHANGED <<closed, main, shown>> /\ collect # "done"
    BY <1>5
    DEF CollectStep, Collect, CollectBegin, CollectReceive, CollectUpdate, CollectDone, Receive,
        Put, chanVars, mainVars
  <2>2. collect' = "done" => Drained'
    BY <1>5
    DEF CollectStep, Collect, CollectBegin, CollectReceive, CollectUpdate, CollectDone, chanVars
  <2>3. QED
    BY <2>1, <2>2
<1>6. CASE Signal \/ SignalCancels \/ SignalExits
  BY <1>6
  DEF Signal, SignalCancels, SignalExits, ReceiveSignal, HandleFirstSignal, HandleLaterSignal,
      chanVars, reportVars, collectVars, mainVars
<1>7. QED
  BY <1>1, <1>2, <1>3, <1>4, <1>5, <1>6 DEF Next, Ended, Step

LEMMA DoneCorrect == Spec => []DoneInv
<1>1. Init => DoneInv
  BY DEF Init, ReportInit, DoneInv, DoneClosed
<1>2. TypeOK /\ WgInv /\ DoneInv /\ [Next]_vars => DoneInv'
  BY DoneNext
<1>3. QED
  BY <1>1, <1>2, TypeCorrect, WgCorrect, PTL DEF Spec

\* When doneChan is closed no record is in flight and no request is pending.
LEMMA NothingLeft ==
  ASSUME TypeOK, WgInv, RecordInv, DoneInv, DoneClosed
  PROVE  /\ run = "over"
         /\ InLoop = {}
         /\ \A q \in 1 .. started : answer[q] # Pending
         /\ reported = Answered
<1>1. closed /\ recordChan = <<>> /\ ~Updating
  BY DEF DoneInv, DoneClosed, Drained, Updating
<1>2. run = "over" /\ Cardinality(InLoop) = 0
  BY <1>1 DEF WgInv
<1>3. InLoop = {}
  BY <1>2, InLoopFinite, FS_EmptySet
<1>4. Sending = {} /\ Invoking = {}
  BY <1>3 DEF InLoop, Sending, Invoking
<1>5. InFlight = {}
  BY <1>1, <1>4 DEF InFlight
<1>6. reported = Answered
  BY <1>5 DEF RecordInv, EachOnce
<1>7. \A q \in 1 .. started : answer[q] # Pending
  BY <1>4 DEF RecordInv, InvokeInv
<1>8. QED
  BY <1>2, <1>3, <1>6, <1>7

\* Closing doneChan, which ends PrintLoop, comes after the last answer was
\* counted, and the final echo shows every answer there was.
THEOREM FinalReport == Spec => []FinalReportComplete
<1>1. TypeOK /\ WgInv /\ RecordInv /\ DoneInv => FinalReportComplete
  BY NothingLeft DEF FinalReportComplete, DoneInv, RecordInv, TalliesTrue
<1>2. QED
  BY <1>1, TypeCorrect, WgCorrect, RecordCorrect, DoneCorrect, PTL

-----------------------------------------------------------------------------
(* The window of the charts *)

\* A window is closed in one section: what it holds, what it says and what the
\* next one starts from agree at every moment.
THEOREM Window == Spec => []WindowConsistent
<1> USE DEF WindowConsistent
<1>1. Init => WindowConsistent
  BY DEF Init, ReportInit
<1>2. TypeOK /\ WindowConsistent /\ [Next]_vars => WindowConsistent'
  <2> SUFFICES ASSUME TypeOK, WindowConsistent, [Next]_vars PROVE WindowConsistent'
    OBVIOUS
  <2> USE DEF TypeOK, ReportTypeOK
  <2>1. CASE UNCHANGED vars
    BY <2>1 DEF vars, reportVars, collectVars, secVars
  <2>2. CASE Step /\ ~CollectStep /\ ~SecondsStep
    <3>1. UNCHANGED <<temp, count, lastCount, latencyWithinSec, rpsWithinSec>>
      BY <2>2
      DEF Step, Main, MainStart, Echo, EchoFormat, PrintDone, FinalEcho, FinalFormat, MainExit,
          Snapshot, Format, Chart, ChartTick, ChartWrite, ChartDone, RunStep, TimerStep,
          GenStep, Worker, Signal, SignalCancels, SignalExits, reportVars, collectVars, secVars
    <3>2. QED
      BY <3>1
  <2>3. CASE CollectStep
    BY <2>3
    DEF CollectStep, Collect, CollectBegin, CollectReceive, CollectUpdate, CollectDone, secVars
  <2>4. CASE SecondsStep
    BY <2>4 DEF SecondsStep, Seconds, SecondTick, SecondsOver, collectVars
  <2>5. QED
    BY <2>1, <2>2, <2>3, <2>4 DEF Next, Ended
<1>3. QED
  BY <1>1, <1>2, TypeCorrect, PTL DEF Spec

(***************************************************************************)
(* Bench implements BenchPromise: every step is a step of the promise or   *)
(* leaves what the promise speaks of alone.                                *)
(***************************************************************************)

\* The refinement mapping, as in Promise.
answers == [q \in Requests |-> IF answer[q] \in Reported THEN answer[q] ELSE Pending]
status  == IF main = "killed" THEN "killed" ELSE IF DoneClosed THEN "over" ELSE "running"

LEMMA PendingOrReported ==
  /\ Pending \notin Reported
  /\ "EOF" \notin Reported
  /\ \A e \in Endings : e # "EOF" => e \in Reported
  /\ Statuses \subseteq Reported
  /\ "failed" \in Reported
  /\ "failed" \notin Statuses
  BY EndingsAssumption DEF Reported, Endings, Pending, Results

LEMMA PromiseInit == Init => Promise!Init
<1> SUFFICES ASSUME Init PROVE Promise!Init
  OBVIOUS
<1>1. answers = [q \in Requests |-> Pending]
  BY PendingOrReported DEF Init, RequesterInit, answers
<1>2. status = "running"
  BY DEF Init, ReportInit, DoneClosed, status
<1>3. QED
  BY <1>1, <1>2 DEF Promise!Init, Init, ReportInit, answers, status

\* A step that changes neither an answer nor the report nor where Collect is,
\* and kills nobody, is a stutter.
LEMMA PromiseStutter ==
  ASSUME answers' = answers, status' = status, UNCHANGED <<reported, count, codes, errors>>
  PROVE  UNCHANGED Promise!vars
  BY DEF Promise!vars, answers, status

LEMMA PromiseInvoked ==
  ASSUME TypeOK, WgInv, RecordInv, DoneInv, Alive,
         NEW w \in Workers, NEW e \in Endings, Worker(w), Invoked(w, e)
  PROVE  [Promise!Next]_(Promise!vars)
<1> DEFINE q == rr[w].req
<1>1. /\ UNCHANGED <<reported, count, codes, errors, main, collect>>
      /\ w \in Invoking /\ w \in InLoop
  BY DEF Worker, Invoked, reportVars, collectVars, mainVars, Invoking, InLoop
<1>2. status = "running" /\ status' = "running"
  BY <1>1, NothingLeft DEF Alive, status, DoneClosed
<1>3. q \in Requests /\ answer[q] = Pending /\ answer' = [answer EXCEPT ![q] = e]
  BY <1>1, MaxRequestsAssumption
  DEF Invoked, RecordInv, InvokeInv, Requests, TypeOK, RequesterTypeOK
<1>4. CASE e = "EOF"
  <2>1. answers' = answers
    BY <1>3, <1>4, PendingOrReported DEF answers, TypeOK, RequesterTypeOK
  <2>2. QED
    BY <1>1, <1>2, <2>1, PromiseStutter
<1>5. CASE e # "EOF"
  <2>1. e \in Reported
    BY <1>5, PendingOrReported
  <2>2. answers[q] = Pending /\ answers' = [answers EXCEPT ![q] = e]
    BY <1>3, <2>1, PendingOrReported DEF answers, TypeOK, RequesterTypeOK
  <2>3. Promise!Answer(q, e)
    BY <1>1, <1>2, <2>2 DEF Promise!Answer, answers, status
  <2>4. QED
    BY <1>3, <2>1, <2>3 DEF Promise!Next
<1>6. QED
  BY <1>4, <1>5

LEMMA PromiseUpdate ==
  ASSUME TypeOK, RecordInv, Alive, CollectStep, CollectUpdate
  PROVE  [Promise!Next]_(Promise!vars)
<1> DEFINE q == held.req
<1>1. /\ UNCHANGED <<answer, main>>
      /\ Updating
      /\ collect = "update" /\ collect' = "recv"
      /\ reported' = reported \cup {q}
      /\ count' = count + 1
  BY DEF CollectStep, CollectUpdate, requesterVars, mainVars, Updating
<1>2. Carries(held) /\ q \in InFlight /\ q \notin reported
  BY <1>1 DEF RecordInv, CarryInv, EachOnce, InFlight
<1>3. q \in Requests /\ answer[q] \in Reported
  BY <1>2 DEF Carries, Answered
<1>4. answers' = answers /\ answers[q] = answer[q]
  BY <1>1, <1>3 DEF answers
<1>5. status = "running" /\ status' = "running"
  BY <1>1 DEF Alive, status, DoneClosed
<1>6. codes' = [c \in Statuses |-> IF answer[q] = c THEN codes[c] + 1 ELSE codes[c]]
  <2>1. codes \in [Statuses -> Nat]
    BY DEF TypeOK, ReportTypeOK
  <2>2. CASE held.code = NoStatus
    <3>1. codes' = codes /\ answer[q] \notin Statuses
      BY <1>2, <2>2, CarriesTruth DEF CollectUpdate
    <3>2. QED
      BY <2>1, <3>1
  <2>3. CASE held.code # NoStatus
    <3>1. codes' = [codes EXCEPT ![answer[q]] = @ + 1] /\ answer[q] \in Statuses
      BY <1>2, <2>3, CarriesTruth DEF CollectUpdate
    <3>2. QED
      BY <2>1, <3>1
  <2>4. QED
    BY <2>2, <2>3
<1>7. errors' = IF answer[q] = "failed" THEN errors + 1 ELSE errors
  BY <1>2, CarriesTruth DEF CollectUpdate
<1>8. Promise!Report(q)
  <2>1. answers[q] # Pending
    BY <1>3, <1>4, PendingOrReported
  <2>2. QED
    BY <1>1, <1>2, <1>4, <1>5, <1>6, <1>7, <2>1 DEF Promise!Report, answers, status
<1>9. QED
  BY <1>3, <1>8 DEF Promise!Next

LEMMA AllReported == TypeOK /\ WgInv /\ RecordInv /\ DoneInv /\ DoneClosed => reported = Answered
  BY NothingLeft

LEMMA PromiseDone ==
  ASSUME TypeOK', WgInv', RecordInv', DoneInv', Alive, CollectStep, CollectDone
  PROVE  [Promise!Next]_(Promise!vars)
<1>1. /\ UNCHANGED <<answer, reported, count, codes, errors, main>>
      /\ ~DoneClosed /\ DoneClosed'
  BY DEF CollectStep, CollectDone, requesterVars, mainVars, DoneClosed
<1>2. reported' = Answered'
  <2>1. (TypeOK /\ WgInv /\ RecordInv /\ DoneInv /\ DoneClosed => reported = Answered)'
    BY AllReported, PTL
  <2>2. QED
    BY <1>1, <2>1
<1>3. reported = {q \in Requests : answers[q] # Pending}
  BY <1>1, <1>2, PendingOrReported DEF Answered, answers
<1>4. status = "running" /\ status' = "over" /\ answers' = answers
  BY <1>1 DEF Alive, status, answers
<1>5. Promise!Finish
  BY <1>1, <1>3, <1>4 DEF Promise!Finish, answers, status
<1>6. QED
  BY <1>5 DEF Promise!Next

LEMMA PromiseNext ==
  ASSUME TypeOK, WgInv, RecordInv, DoneInv, TypeOK', WgInv', RecordInv', DoneInv', [Next]_vars
  PROVE  [Promise!Next]_(Promise!vars)
<1>1. CASE UNCHANGED vars
  <2>1. answers' = answers /\ status' = status /\ UNCHANGED <<reported, count, codes, errors>>
    BY <1>1
    DEF vars, requesterVars, reportVars, collectVars, mainVars, answers, status, DoneClosed
  <2>2. QED
    BY <2>1, PromiseStutter
<1>2. CASE Alive /\ (Main \/ Chart)
  <2>1. UNCHANGED <<answer, reported, count, codes, errors>>
    BY <1>2
    DEF Main, MainStart, Echo, EchoFormat, PrintDone, FinalEcho, FinalFormat, MainExit,
        Snapshot, Format, Chart, ChartTick, ChartWrite, ChartDone, requesterVars, reportVars,
        collectVars
  <2>2. status' = status
    <3>1. main # "killed" /\ main' # "killed"
      BY <1>2
      DEF Alive, Main, MainStart, Echo, EchoFormat, PrintDone, FinalEcho, FinalFormat, MainExit,
          Snapshot, Format, Chart, ChartTick, ChartWrite, ChartDone
    <3>2. DoneClosed' <=> DoneClosed
      BY <1>2
      DEF Main, MainStart, Echo, EchoFormat, PrintDone, FinalEcho, FinalFormat, MainExit,
          Snapshot, Format, Chart, ChartTick, ChartWrite, ChartDone, reportVars, collectVars,
          WgInv, DoneClosed
    <3>3. QED
      BY <3>1, <3>2 DEF status
  <2>3. QED
    BY <2>1, <2>2, PromiseStutter DEF answers
<1>3. CASE RunStep \/ TimerStep \/ GenStep \/ SecondsStep \/ SignalCancels
  <2>1. UNCHANGED <<answer, reported, count, codes, errors, main, collect>>
    BY <1>3
    DEF RunStep, Run, RunBegin, RunSpawn, RunSpawned, RunWait, RunCancel, RunClose, TimerStep,
        TimerFires, GenStep, GenerateTokens, GenSpawn, GenUpTick, GenKeep, GenDown, GenLast,
        SecondsStep, Seconds, SecondTick, SecondsOver, SignalCancels, HandleFirstSignal,
        requesterVars, reportVars, collectVars, mainVars, workerVars
  <2>2. QED
    BY <2>1, PromiseStutter DEF answers, status, DoneClosed
<1>4. ASSUME Alive, NEW w \in Workers, Worker(w) PROVE [Promise!Next]_(Promise!vars)
  <2>1. CASE \E e \in Endings : Invoked(w, e)
    BY <1>4, <2>1, PromiseInvoked
  <2>2. CASE ~(\E e \in Endings : Invoked(w, e))
    <3>1. UNCHANGED <<answer, reported, count, codes, errors, main, collect>>
      BY <1>4, <2>2
      DEF Worker, LoopWork, Enter, Acquire, Begin, Stop, SendRecord, WgDone, Leave, reportVars,
          collectVars, mainVars, workerVars
    <3>2. QED
      BY <3>1, PromiseStutter DEF answers, status, DoneClosed
  <2>3. QED
    BY <2>1, <2>2
<1>5. CASE Alive /\ CollectStep
  <2>1. CASE CollectUpdate
    BY <1>5, <2>1, PromiseUpdate
  <2>2. CASE CollectDone
    BY <1>5, <2>2, PromiseDone
  <2>3. CASE CollectBegin \/ CollectReceive
    <3>1. UNCHANGED <<answer, reported, count, codes, errors, main>> /\ ~DoneClosed /\ ~DoneClosed'
      BY <1>5, <2>3
      DEF CollectStep, CollectBegin, CollectReceive, requesterVars, mainVars, DoneClosed
    <3>2. QED
      BY <3>1, PromiseStutter DEF answers, status
  <2>4. QED
    BY <1>5, <2>1, <2>2, <2>3 DEF CollectStep, Collect
<1>6. CASE Signal \/ SignalExits
  <2>1. /\ UNCHANGED <<answer, reported, count, codes, errors, collect>>
        /\ main' = main \/ main' = "killed"
    BY <1>6
    DEF Signal, SignalExits, ReceiveSignal, HandleLaterSignal, reportVars, collectVars, workerVars
  <2>2. answers' = answers
    BY <2>1 DEF answers
  <2>3. CASE main' = main
    BY <2>1, <2>2, <2>3, PromiseStutter DEF status, DoneClosed
  <2>4. CASE main' = "killed"
    <3>1. Promise!Kill
      BY <2>1, <2>2, <2>4 DEF Promise!Kill, answers, status
    <3>2. QED
      BY <3>1 DEF Promise!Next
  <2>5. QED
    BY <2>1, <2>3, <2>4
<1>7. QED
  BY <1>1, <1>2, <1>3, <1>4, <1>5, <1>6 DEF Next, Ended, Step

\* The benchmark keeps the promise: each answer is reported once, as what it
\* is, and the report is over only when no answer is left out.
THEOREM Implements == Spec => KeepsPromise
<1>1. Init => Promise!Init
  BY PromiseInit
<1>2. /\ TypeOK /\ WgInv /\ RecordInv /\ DoneInv
      /\ TypeOK' /\ WgInv' /\ RecordInv' /\ DoneInv'
      /\ [Next]_vars
      => [Promise!Next]_(Promise!vars)
  BY PromiseNext
<1>3. QED
  BY <1>1, <1>2, TypeCorrect, WgCorrect, RecordCorrect, DoneCorrect, PTL
  DEF Spec, KeepsPromise, Promise!Spec

(***************************************************************************)
(* The tickets of -n: never more than N requests are made, and exactly N   *)
(* when nothing disturbs the run.                                          *)
(***************************************************************************)

Throttled == {w \in Workers : pc[w] = "throttle"}
Turned    == {w \in Workers : pc[w] \in {"done", "leave", "over"}}

\* The tickets that are still there.
Left == IF semaphore > 0 THEN semaphore ELSE 0

\* The tickets that are there, taken by a worker at the throttle, or spent.
Tickets == started + Cardinality(Throttled) + Left

(***************************************************************************)
(* TicketInv: no ticket comes from nowhere, and a worker that is refused   *)
(* one does not come back for another.                                     *)
(***************************************************************************)
TicketInv ==
    /\ run \in {"none", "begin"} => semaphore = 0 /\ started = 0
    /\ N > 0 => Tickets <= N
    /\ semaphore + Cardinality(Turned) >= 0

LEMMA PcFinite ==
  /\ IsFiniteSet(Throttled) /\ Cardinality(Throttled) \in Nat
  /\ IsFiniteSet(Turned) /\ Cardinality(Turned) \in Nat
<1>1. IsFiniteSet(Throttled) /\ IsFiniteSet(Turned)
  BY WorkersFinite DEF Throttled, Turned
<1>2. QED
  BY <1>1, FS_CardinalityType

LEMMA NoneStarted ==
  ASSUME TypeOK, WgInv, run \in {"none", "begin"}
  PROVE  Throttled = {} /\ Turned = {}
<1>1. \A w \in Workers : pc[w] = "idle"
  BY GoroutinesAssumption DEF WgInv, Workers
<1>2. QED
  BY <1>1 DEF Throttled, Turned

-----------------------------------------------------------------------------
(* What the steps of a worker do to the tickets *)

LEMMA QuietStep ==
  ASSUME TypeOK, NEW w \in Workers,
         \/ Enter(w) \/ SendRecord(w) \/ WgDone(w) \/ Leave(w)
         \/ \E e \in Endings \ {"EOF"} : Invoked(w, e)
  PROVE  UNCHANGED <<semaphore, started>> /\ Throttled' = Throttled /\ Turned' = Turned
  BY DEF TypeOK, RequesterTypeOK, Enter, SendRecord, WgDone, Leave, Invoked, Goto, workerVars,
         Throttled, Turned

LEMMA TakeTicket ==
  ASSUME TypeOK, NEW w \in Workers, Acquire(w), N = 0 \/ semaphore > 0
  PROVE  /\ semaphore' = IF N > 0 THEN semaphore - 1 ELSE semaphore
         /\ started' = started
         /\ Cardinality(Throttled') = Cardinality(Throttled) + 1
         /\ Turned' = Turned
<1> USE NAssumption DEF TypeOK, RequesterTypeOK, Acquire, Goto
<1>1. Throttled' = Throttled \cup {w} /\ w \notin Throttled /\ Turned' = Turned
  BY DEF Throttled, Turned
<1>2. QED
  BY <1>1, PcFinite, FS_AddElement

LEMMA RefuseTicket ==
  ASSUME TypeOK, NEW w \in Workers, Acquire(w), N > 0, semaphore <= 0
  PROVE  /\ semaphore' = semaphore - 1
         /\ started' = started
         /\ Throttled' = Throttled
         /\ Cardinality(Turned') = Cardinality(Turned) + 1
<1> USE NAssumption DEF TypeOK, RequesterTypeOK, Acquire, Goto
<1>1. Turned' = Turned \cup {w} /\ w \notin Turned /\ Throttled' = Throttled
  BY DEF Throttled, Turned
<1>2. QED
  BY <1>1, PcFinite, FS_AddElement

LEMMA SpendTicket ==
  ASSUME TypeOK, NEW w \in Workers, Begin(w)
  PROVE  /\ semaphore' = semaphore
         /\ started' = started + 1
         /\ Cardinality(Throttled') = Cardinality(Throttled) - 1
         /\ Turned' = Turned
<1> USE DEF TypeOK, RequesterTypeOK, Begin, Goto
<1>1. Throttled' = Throttled \ {w} /\ w \in Throttled /\ Turned' = Turned
  BY DEF Throttled, Turned
<1>2. QED
  BY <1>1, PcFinite, FS_RemoveElement

LEMMA DropTicket ==
  ASSUME TypeOK, NEW w \in Workers, Stop(w)
  PROVE  /\ UNCHANGED <<semaphore, started>>
         /\ Cardinality(Throttled') = Cardinality(Throttled) - 1
         /\ Cardinality(Turned') = Cardinality(Turned) + 1
<1> USE DEF TypeOK, RequesterTypeOK, Stop, Goto, workerVars
<1>1. Throttled' = Throttled \ {w} /\ w \in Throttled
  BY DEF Throttled
<1>2. Turned' = Turned \cup {w} /\ w \notin Turned
  BY DEF Turned
<1>3. Cardinality(Throttled') = Cardinality(Throttled) - 1
  BY <1>1, PcFinite, FS_RemoveElement
<1>4. Cardinality(Turned') = Cardinality(Turned) + 1
  BY <1>2, PcFinite, FS_AddElement
<1>5. QED
  BY <1>3, <1>4

LEMMA EndOfInput ==
  ASSUME TypeOK, NEW w \in Workers, Invoked(w, "EOF")
  PROVE  /\ UNCHANGED <<semaphore, started>>
         /\ Throttled' = Throttled
         /\ Cardinality(Turned') = Cardinality(Turned) + 1
<1> USE DEF TypeOK, RequesterTypeOK, Invoked, Goto
<1>1. Throttled' = Throttled /\ Turned' = Turned \cup {w} /\ w \notin Turned
  BY DEF Throttled, Turned
<1>2. QED
  BY <1>1, PcFinite, FS_AddElement

\* Workers start idle, so a new one neither has a ticket nor was turned away.
LEMMA OtherSteps ==
  ASSUME TypeOK, WgInv, [Next]_vars, ~RunStep, ~(\E w \in Workers : Worker(w))
  PROVE  /\ UNCHANGED <<semaphore, started>>
         /\ Throttled' = Throttled /\ Turned' = Turned
         /\ run' = run \/ (run = "none" /\ run' = "begin")
<1>1. CASE UNCHANGED vars
  BY <1>1 DEF vars, requesterVars, Throttled, Turned
<1>2. CASE Main \/ Chart
  BY <1>2
  DEF Main, MainStart, Echo, EchoFormat, PrintDone, FinalEcho, FinalFormat, MainExit, Snapshot,
      Format, Chart, ChartTick, ChartWrite, ChartDone, requesterVars, Throttled, Turned, WgInv
<1>3. CASE TimerStep \/ CollectStep \/ SecondsStep \/ Signal \/ SignalCancels \/ SignalExits
  BY <1>3
  DEF TimerStep, TimerFires, CollectStep, SecondsStep, Signal, SignalCancels, SignalExits,
      ReceiveSignal, HandleFirstSignal, HandleLaterSignal, requesterVars, workerVars,
      Throttled, Turned
<1>4. CASE GenStep
  <2>1. UNCHANGED <<semaphore, started, run>> /\ (UNCHANGED pc \/ (StartWorker /\ spawned < Goroutines))
    BY <1>4
    DEF GenStep, GenerateTokens, GenSpawn, GenUpTick, GenKeep, GenDown, GenLast, workerVars
  <2>2. CASE StartWorker /\ spawned < Goroutines
    <3>1. spawned \in Workers /\ pc[spawned] = "idle" /\ pc' = [pc EXCEPT ![spawned] = "enter"]
      BY <2>2, GoroutinesAssumption DEF StartWorker, WgInv, Workers, TypeOK, RequesterTypeOK
    <3>2. QED
      BY <2>1, <3>1 DEF Throttled, Turned, TypeOK, RequesterTypeOK
  <2>3. QED
    BY <2>1, <2>2 DEF Throttled, Turned
<1>5. QED
  BY <1>1, <1>2, <1>3, <1>4 DEF Next, Ended, Step

\* run() fills the semaphore and does not touch the tickets afterwards.
LEMMA RunSteps ==
  ASSUME TypeOK, WgInv, RunStep
  PROVE  /\ started' = started
         /\ Throttled' = Throttled /\ Turned' = Turned
         /\ run' \notin {"none", "begin"}
         /\ IF run = "begin" THEN semaphore' = N ELSE semaphore' = semaphore /\ run # "none"
<1>1. CASE RunBegin
  BY <1>1 DEF RunBegin, Throttled, Turned
<1>2. CASE RunSpawn
  <2>1. spawned \in Workers /\ pc[spawned] = "idle" /\ pc' = [pc EXCEPT ![spawned] = "enter"]
    BY <1>2, GoroutinesAssumption
    DEF RunSpawn, StartWorker, WgInv, Workers, TypeOK, RequesterTypeOK
  <2>2. Throttled' = Throttled /\ Turned' = Turned
    BY <2>1 DEF Throttled, Turned, TypeOK, RequesterTypeOK
  <2>3. QED
    BY <1>2, <2>2 DEF RunSpawn, workerVars
<1>3. CASE RunSpawned \/ RunWait \/ RunCancel \/ RunClose
  BY <1>3 DEF RunSpawned, RunWait, RunCancel, RunClose, workerVars, Throttled, Turned
<1>4. QED
  BY <1>1, <1>2, <1>3 DEF RunStep, Run

-----------------------------------------------------------------------------
(* TicketInv *)

LEMMA TicketNext == TypeOK /\ WgInv /\ TicketInv /\ [Next]_vars => TicketInv'
<1> SUFFICES ASSUME TypeOK, WgInv, TicketInv, [Next]_vars PROVE TicketInv'
  OBVIOUS
<1> USE NAssumption DEF TicketInv, Tickets, Left
<1>0. /\ semaphore \in Int /\ started \in Nat
      /\ Cardinality(Throttled) \in Nat /\ Cardinality(Turned) \in Nat
  BY PcFinite, MaxRequestsAssumption DEF TypeOK, RequesterTypeOK
<1>1. CASE RunStep
  <2>1. CASE run = "begin"
    <3>1. Throttled = {} /\ Turned = {}
      BY <2>1, NoneStarted
    <3>2. Cardinality(Throttled') = 0 /\ Cardinality(Turned') = 0
      BY <1>1, <3>1, RunSteps, FS_EmptySet
    <3>3. semaphore' = N /\ started' = 0 /\ run' \notin {"none", "begin"}
      BY <1>1, <2>1, RunSteps
    <3>4. QED
      BY <3>2, <3>3
  <2>2. CASE run # "begin"
    BY <1>0, <1>1, <2>2, RunSteps
  <2>3. QED
    BY <2>1, <2>2
<1>2. ASSUME NEW w \in Workers, Worker(w) PROVE TicketInv'
  <2>1. run' = run
    BY <1>2 DEF Worker, LoopWork, Enter, Acquire, Begin, Stop, Invoked, SendRecord, WgDone,
                Leave, runVars
  <2>2. run \notin {"none", "begin"}
    BY <1>2, GoroutinesAssumption
    DEF WgInv, Workers, Worker, LoopWork, Enter, Acquire, Begin, Stop, Invoked, SendRecord,
        WgDone, Leave
  <2>3. CASE \/ Enter(w) \/ SendRecord(w) \/ WgDone(w) \/ Leave(w)
             \/ \E e \in Endings \ {"EOF"} : Invoked(w, e)
    BY <1>0, <2>1, <2>2, <2>3, QuietStep
  <2>4. CASE Acquire(w) /\ (N = 0 \/ semaphore > 0)
    BY <1>0, <2>1, <2>2, <2>4, TakeTicket
  <2>5. CASE Acquire(w) /\ N > 0 /\ semaphore <= 0
    BY <1>0, <2>1, <2>2, <2>5, RefuseTicket
  <2>6. CASE Begin(w)
    BY <1>0, <2>1, <2>2, <2>6, SpendTicket
  <2>7. CASE Stop(w)
    BY <1>0, <2>1, <2>2, <2>7, DropTicket
  <2>8. CASE Invoked(w, "EOF")
    BY <1>0, <2>1, <2>2, <2>8, EndOfInput
  <2>9. QED
    BY <1>0, <1>2, <2>3, <2>4, <2>5, <2>6, <2>7, <2>8 DEF Worker, LoopWork
<1>3. CASE ~RunStep /\ ~(\E w \in Workers : Worker(w))
  BY <1>0, <1>3, OtherSteps
<1>4. QED
  BY <1>1, <1>2, <1>3

LEMMA TicketCorrect == Spec => []TicketInv
<1>1. Init => TicketInv
  <2>1. Init => Throttled = {} /\ Turned = {}
    BY DEF Init, RequesterInit, Throttled, Turned
  <2>2. QED
    BY <2>1, FS_EmptySet, NAssumption DEF Init, RequesterInit, TicketInv, Tickets, Left
<1>2. TypeOK /\ WgInv /\ TicketInv /\ [Next]_vars => TicketInv'
  BY TicketNext
<1>3. QED
  BY <1>1, <1>2, TypeCorrect, WgCorrect, PTL DEF Spec

\* The semaphore is never further below zero than one ticket per worker.
THEOREM Semaphore == Spec => []SemaphoreBounded
<1>1. TypeOK /\ TicketInv => SemaphoreBounded
  <2> SUFFICES ASSUME TypeOK, TicketInv PROVE SemaphoreBounded
    OBVIOUS
  <2>1. IsFiniteSet(Workers) /\ Cardinality(Workers) = Goroutines
    BY GoroutinesAssumption, FS_Interval DEF Workers
  <2>2. Turned \in SUBSET Workers
    BY DEF Turned
  <2>3. Cardinality(Turned) <= Goroutines
    BY <2>1, <2>2, FS_Subset
  <2>4. QED
    BY <2>3, PcFinite, GoroutinesAssumption
    DEF TicketInv, SemaphoreBounded, TypeOK, RequesterTypeOK
<1>2. QED
  BY <1>1, TypeCorrect, TicketCorrect, PTL

-----------------------------------------------------------------------------
(* The progress bar *)

ShownInv == shown.count <= count

LEMMA ShownNext == TypeOK /\ ShownInv /\ [Next]_vars => ShownInv'
<1> SUFFICES ASSUME TypeOK, ShownInv, [Next]_vars PROVE ShownInv'
  OBVIOUS
<1> USE DEF ShownInv, TypeOK, MainTypeOK, ReportTypeOK
<1>1. CASE UNCHANGED vars
  BY <1>1 DEF vars, reportVars, collectVars, mainVars
<1>2. CASE Echo \/ FinalEcho
  BY <1>2 DEF Echo, FinalEcho, Snapshot, reportVars, collectVars
<1>3. CASE EchoFormat \/ FinalFormat
  BY <1>3 DEF EchoFormat, FinalFormat, Format, reportVars, collectVars
<1>4. CASE CollectStep
  <2>1. shown' = shown /\ (count' = count \/ count' = count + 1)
    BY <1>4
    DEF CollectStep, Collect, CollectBegin, CollectReceive, CollectUpdate, CollectDone, mainVars
  <2>2. QED
    BY <2>1
<1>5. CASE Step /\ ~Echo /\ ~FinalEcho /\ ~EchoFormat /\ ~FinalFormat /\ ~CollectStep
  <2>1. UNCHANGED <<shown, count>>
    BY <1>5
    DEF Step, Main, MainStart, PrintDone, MainExit, Chart, ChartTick, ChartWrite, ChartDone,
        RunStep, TimerStep, GenStep, Worker, SecondsStep, Seconds, SecondTick, SecondsOver,
        Signal, SignalCancels, SignalExits, reportVars, collectVars, mainVars
  <2>2. QED
    BY <2>1
<1>6. QED
  BY <1>1, <1>2, <1>3, <1>4, <1>5 DEF Next, Ended

LEMMA ShownCorrect == Spec => []ShownInv
<1>1. Init => ShownInv
  BY DEF Init, ReportInit, ShownInv
<1>2. TypeOK /\ ShownInv /\ [Next]_vars => ShownInv'
  BY ShownNext
<1>3. QED
  BY <1>1, <1>2, TypeCorrect, PTL DEF Spec

LEMMA BarLenBound ==
  ASSUME N > 0, NEW c \in Nat, c <= N
  PROVE  BarLen(c) <= 38
<1>1. N \in Nat /\ N \div 2 \in Nat /\ N \div 2 < N
  BY NAssumption
<1>2. c * 38 + N \div 2 \in Nat /\ c * 38 + N \div 2 < 39 * N
  BY <1>1
<1>3. \A x \in Nat : x < 39 * N => x \div N <= 38
  BY <1>1
<1>4. QED
  BY <1>2, <1>3 DEF BarLen

\* A record stands for a request that was started.
LEMMA CountStarted == TypeOK /\ RecordInv => count <= started
<1> SUFFICES ASSUME TypeOK, RecordInv PROVE count <= started
  OBVIOUS
<1>0. started \in Nat /\ started <= MaxRequests
  BY MaxRequestsAssumption DEF TypeOK, RequesterTypeOK
<1>1. reported \in SUBSET (1 .. started)
  <2>1. Pending \notin Reported
    BY EndingsAssumption DEF Reported, Pending
  <2>2. QED
    BY <1>0, <2>1 DEF RecordInv, EachOnce, InvokeInv, Answered, Requests
<1>2. IsFiniteSet(1 .. started) /\ Cardinality(1 .. started) = started
  BY <1>0, FS_Interval
<1>3. Cardinality(reported) <= Cardinality(1 .. started)
  BY <1>1, <1>2, FS_Subset
<1>4. count = Cardinality(reported)
  BY DEF RecordInv, TalliesTrue
<1>5. QED
  BY <1>2, <1>3, <1>4

\* With -n no snapshot shows more than N requests, so the bar fits.
THEOREM Bar == Spec => []BarFits
<1>1. TypeOK /\ RecordInv /\ TicketInv /\ ShownInv => BarFits
  <2> SUFFICES ASSUME TypeOK, RecordInv, TicketInv, ShownInv, N > 0
               PROVE  BarLen(shown.count) <= 38
    BY DEF BarFits
  <2>1. count <= started /\ started \in Nat /\ count \in Nat /\ shown.count \in Nat
    BY CountStarted, MaxRequestsAssumption
    DEF TypeOK, RequesterTypeOK, ReportTypeOK, MainTypeOK
  <2>2. started <= N
    BY <2>1, PcFinite, NAssumption DEF TicketInv, Tickets, Left, TypeOK, RequesterTypeOK
  <2>3. shown.count <= N
    BY <2>1, <2>2, NAssumption DEF ShownInv
  <2>4. QED
    BY <2>1, <2>3, BarLenBound
<1>2. QED
  BY <1>1, TypeCorrect, RecordCorrect, TicketCorrect, ShownCorrect, PTL

-----------------------------------------------------------------------------
(***************************************************************************)
(* All requests are made                                                   *)
(*                                                                         *)
(* SpawnInv: once run() is past the start of the workers all are started.  *)
(* FullInv: in an undisturbed run nothing cancels the context while there  *)
(* are workers, no ticket is dropped, and a worker is turned away only     *)
(* when the tickets are used up.                                           *)
(***************************************************************************)
SpawnInv ==
    /\ run \in {"none", "begin"} => timer = "off"
    /\ run \in {"wait", "cancel", "close", "over"} => spawned = Goroutines
    /\ gen \in {"keep", "down", "last", "closed"} => spawned = Goroutines
    /\ \A w \in Workers : w < spawned => pc[w] # "idle"

FullInv ==
    Undisturbed =>
        /\ run \notin {"close", "over"} => ~ctxDone
        /\ N > 0 /\ run \notin {"none", "begin"} =>
               /\ Tickets = N
               /\ Turned # {} => semaphore < 0

LEMMA SpawnNext == TypeOK /\ WgInv /\ SpawnInv /\ [Next]_vars => SpawnInv'
<1> SUFFICES ASSUME TypeOK, WgInv, SpawnInv, [Next]_vars PROVE SpawnInv'
  OBVIOUS
<1> USE GoroutinesAssumption, IncrAssumption DEF SpawnInv, TypeOK, RequesterTypeOK
<1>1. CASE UNCHANGED vars
  BY <1>1 DEF vars, requesterVars
<1>2. CASE Main \/ Chart
  BY <1>2
  DEF Main, MainStart, Echo, EchoFormat, PrintDone, FinalEcho, FinalFormat, MainExit, Snapshot,
      Format, Chart, ChartTick, ChartWrite, ChartDone, requesterVars, WgInv
<1>3. CASE TimerStep \/ CollectStep \/ SecondsStep \/ Signal \/ SignalCancels \/ SignalExits
  BY <1>3
  DEF TimerStep, TimerFires, CollectStep, SecondsStep, Signal, SignalCancels, SignalExits,
      ReceiveSignal, HandleFirstSignal, HandleLaterSignal, requesterVars, genVars
<1>4. CASE RunStep
  <2>1. CASE RunBegin
    <3>1. spawned = 0
      BY <2>1 DEF RunBegin, WgInv
    <3>2. QED
      BY <2>1, <3>1 DEF RunBegin
  <2>2. CASE RunSpawn
    <3>1. /\ spawned < Goroutines /\ run = "spawn" /\ run' = run /\ gen' = gen
          /\ spawned' = spawned + 1 /\ pc' = [pc EXCEPT ![spawned] = "enter"]
      BY <2>2 DEF RunSpawn, StartWorker, genVars
    <3>2. \A w \in Workers : w < spawned' => pc'[w] # "idle"
      BY <3>1 DEF Workers
    <3>3. QED
      BY <3>1, <3>2
  <2>3. CASE RunSpawned \/ RunWait \/ RunCancel \/ RunClose
    BY <2>3 DEF RunSpawned, RunWait, RunCancel, RunClose, genVars
  <2>4. QED
    BY <1>4, <2>1, <2>2, <2>3 DEF RunStep, Run
<1>5. CASE GenStep
  <2>1. CASE GenSpawn
    <3>1. /\ spawned < Goroutines /\ run = "spawn" /\ run' = run
          /\ spawned' = spawned + 1 /\ pc' = [pc EXCEPT ![spawned] = "enter"]
          /\ gen' \in {"keep", "down", "last", "closed"} => spawned' = Goroutines
      BY <2>1 DEF GenSpawn, StartWorker
    <3>2. \A w \in Workers : w < spawned' => pc'[w] # "idle"
      BY <3>1 DEF Workers
    <3>3. QED
      BY <3>1, <3>2
  <2>2. CASE GenUpTick \/ GenKeep \/ GenDown \/ GenLast
    BY <2>2 DEF GenUpTick, GenKeep, GenDown, GenLast
  <2>3. QED
    BY <1>5, <2>1, <2>2 DEF GenStep, GenerateTokens
<1>6. ASSUME NEW w \in Workers, Worker(w) PROVE SpawnInv'
  BY <1>6
  DEF Worker, LoopWork, Enter, Acquire, Begin, Stop, Invoked, SendRecord, WgDone, Leave, Goto,
      runVars, genVars
<1>7. QED
  BY <1>1, <1>2, <1>3, <1>4, <1>5, <1>6 DEF Next, Ended, Step

\* What disturbs a run stays: nothing takes back a signal, the end of the
\* duration or the end of the input.
LEMMA StaysDisturbed ==
  TypeOK /\ SpawnInv /\ RecordInv /\ [Next]_vars /\ Undisturbed' => Undisturbed
<1> SUFFICES ASSUME TypeOK, SpawnInv, RecordInv, [Next]_vars, Undisturbed' PROVE Undisturbed
  OBVIOUS
<1> USE DEF Undisturbed, TypeOK, RequesterTypeOK
<1>1. ASSUME NEW w \in Workers, Worker(w) PROVE Undisturbed
  <2>1. handled' = handled /\ timer' = timer
    BY <1>1 DEF Worker, LoopWork, Enter, Acquire, Begin, Stop, Invoked, SendRecord, WgDone,
                Leave, runVars, signalVars
  <2>2. \A q \in Requests : answer'[q] = answer[q] \/ answer[q] = Pending
    <3>1. CASE \E e \in Endings : Invoked(w, e)
      BY <3>1 DEF Invoked, RecordInv, InvokeInv, Invoking
    <3>2. CASE ~(\E e \in Endings : Invoked(w, e))
      BY <1>1, <3>2 DEF Worker, LoopWork, Enter, Acquire, Begin, Stop, SendRecord, WgDone,
                        Leave, workerVars
    <3>3. QED
      BY <3>1, <3>2
  <2>3. QED
    BY <2>1, <2>2 DEF Pending
<1>2. CASE ~(\E w \in Workers : Worker(w))
  <2>1. answer' = answer /\ (handled' = 0 => handled = 0) /\ (timer = "fired" => timer' = "fired")
    <3>1. CASE UNCHANGED vars
      BY <3>1 DEF vars, requesterVars
    <3>2. CASE Main \/ Chart \/ CollectStep \/ SecondsStep
      BY <3>2
      DEF Main, MainStart, Echo, EchoFormat, PrintDone, FinalEcho, FinalFormat, MainExit,
          Snapshot, Format, Chart, ChartTick, ChartWrite, ChartDone, CollectStep, SecondsStep,
          requesterVars, signalVars
    <3>3. CASE RunStep
      <4>1. CASE RunBegin
        BY <4>1 DEF RunBegin, SpawnInv, signalVars
      <4>2. CASE RunSpawn \/ RunSpawned \/ RunWait \/ RunCancel \/ RunClose
        BY <4>2 DEF RunSpawn, RunSpawned, RunWait, RunCancel, RunClose, signalVars, workerVars
      <4>3. QED
        BY <3>3, <4>1, <4>2 DEF RunStep, Run
    <3>4. CASE GenStep \/ TimerStep \/ Signal \/ SignalCancels \/ SignalExits
      BY <3>4
      DEF GenStep, GenerateTokens, GenSpawn, GenUpTick, GenKeep, GenDown, GenLast, TimerStep,
          TimerFires, Signal, SignalCancels, SignalExits, ReceiveSignal, HandleFirstSignal,
          HandleLaterSignal, signalVars, workerVars
    <3>5. QED
      BY <1>2, <3>1, <3>2, <3>3, <3>4 DEF Next, Ended, Step
  <2>2. QED
    BY <2>1
<1>3. QED
  BY <1>1, <1>2

\* In an undisturbed run only run() cancels the context, after the last worker.
LEMMA StopsDisturbed ==
  ASSUME TypeOK, WgInv, FullInv, Undisturbed, NEW w \in Workers, Stop(w)
  PROVE  FALSE
<1>1. ctxDone /\ w \in InLoop
  BY DEF Stop, InLoop
<1>2. run \in {"close", "over"}
  BY <1>1 DEF FullInv
<1>3. InLoop = {}
  BY <1>2, InLoopFinite, FS_EmptySet DEF WgInv
<1>4. QED
  BY <1>1, <1>3

LEMMA FullNext ==
  ASSUME TypeOK, WgInv, SpawnInv, RecordInv, TicketInv, FullInv, [Next]_vars
  PROVE  FullInv'
<1> SUFFICES ASSUME Undisturbed, Undisturbed'
             PROVE  /\ run' \notin {"close", "over"} => ~ctxDone'
                    /\ N > 0 /\ run' \notin {"none", "begin"} =>
                           /\ Tickets' = N
                           /\ Turned' # {} => semaphore' < 0
  BY StaysDisturbed DEF FullInv
<1>0. /\ semaphore \in Int /\ started \in Nat
      /\ Cardinality(Throttled) \in Nat
  BY PcFinite, MaxRequestsAssumption DEF TypeOK, RequesterTypeOK
<1>1. run' \notin {"close", "over"} => ~ctxDone'
  <2>1. CASE RunStep
    BY <2>1 DEF FullInv, RunStep, Run, RunBegin, RunSpawn, RunSpawned, RunWait, RunCancel,
                RunClose, workerVars
  <2>2. CASE TimerStep \/ SignalCancels
    BY <2>2 DEF TimerStep, TimerFires, SignalCancels, HandleFirstSignal, Undisturbed
  <2>3. CASE ~RunStep /\ ~TimerStep /\ ~SignalCancels
    <3>1. ctxDone' = ctxDone
      <4>1. CASE UNCHANGED vars
        BY <4>1 DEF vars, requesterVars
      <4>2. CASE Main \/ Chart \/ CollectStep \/ SecondsStep
        BY <4>2
        DEF Main, MainStart, Echo, EchoFormat, PrintDone, FinalEcho, FinalFormat, MainExit,
            Snapshot, Format, Chart, ChartTick, ChartWrite, ChartDone, CollectStep,
            SecondsStep, requesterVars
      <4>3. CASE GenStep \/ Signal \/ SignalExits
        BY <4>3
        DEF GenStep, GenerateTokens, GenSpawn, GenUpTick, GenKeep, GenDown, GenLast, Signal,
            SignalExits, ReceiveSignal, HandleLaterSignal
      <4>4. CASE \E w \in Workers : Worker(w)
        BY <4>4
        DEF Worker, LoopWork, Enter, Acquire, Begin, Stop, Invoked, SendRecord, WgDone, Leave,
            runVars
      <4>5. QED
        BY <2>3, <4>1, <4>2, <4>3, <4>4 DEF Next, Ended, Step
    <3>2. run' = run \/ run = "none"
      <4>1. CASE \E w \in Workers : Worker(w)
        BY <4>1
        DEF Worker, LoopWork, Enter, Acquire, Begin, Stop, Invoked, SendRecord, WgDone, Leave,
            runVars
      <4>2. QED
        BY <2>3, <4>1, OtherSteps
    <3>3. QED
      BY <3>1, <3>2 DEF FullInv
  <2>4. QED
    BY <2>1, <2>2, <2>3
<1>2. ASSUME N > 0, run' \notin {"none", "begin"}
      PROVE  Tickets' = N /\ (Turned' # {} => semaphore' < 0)
  <2> USE NAssumption DEF Tickets, Left
  <2>1. run \notin {"none", "begin"} => Tickets = N /\ (Turned # {} => semaphore < 0)
    BY <1>2 DEF FullInv
  <2>2. CASE RunStep
    <3>1. CASE run = "begin"
      <4>1. Throttled' = {} /\ Turned' = {} /\ semaphore' = N /\ started' = started
        BY <2>2, <3>1, NoneStarted, RunSteps
      <4>2. Cardinality(Throttled') = 0
        BY <4>1, FS_EmptySet
      <4>3. started = 0
        BY <3>1 DEF TicketInv
      <4>4. QED
        BY <1>2, <4>1, <4>2, <4>3
    <3>2. CASE run # "begin"
      BY <2>1, <2>2, <3>2, RunSteps
    <3>3. QED
      BY <3>1, <3>2
  <2>3. ASSUME NEW w \in Workers, Worker(w)
        PROVE  Tickets' = N /\ (Turned' # {} => semaphore' < 0)
    <3>1. run' = run
      BY <2>3 DEF Worker, LoopWork, Enter, Acquire, Begin, Stop, Invoked, SendRecord, WgDone,
                  Leave, runVars
    <3>2. Tickets = N /\ (Turned # {} => semaphore < 0)
      BY <1>2, <2>1, <3>1
    <3>3. CASE \/ Enter(w) \/ SendRecord(w) \/ WgDone(w) \/ Leave(w)
               \/ \E e \in Endings \ {"EOF"} : Invoked(w, e)
      BY <1>0, <3>2, <3>3, QuietStep
    <3>4. CASE Acquire(w) /\ (N = 0 \/ semaphore > 0)
      BY <1>0, <1>2, <3>2, <3>4, TakeTicket
    <3>5. CASE Acquire(w) /\ N > 0 /\ semaphore <= 0
      BY <1>0, <3>2, <3>5, RefuseTicket
    <3>6. CASE Begin(w)
      BY <1>0, <3>2, <3>6, SpendTicket
    <3>7. CASE Stop(w)
      BY <3>7, StopsDisturbed
    <3>8. CASE Invoked(w, "EOF")
      <4>1. rr[w].req \in Requests
        BY <3>8, MaxRequestsAssumption
        DEF Invoked, RecordInv, InvokeInv, Invoking, Requests, TypeOK, RequesterTypeOK
      <4>2. answer'[rr[w].req] = "EOF"
        BY <3>8, <4>1 DEF Invoked, TypeOK, RequesterTypeOK
      <4>3. QED
        BY <4>1, <4>2 DEF Undisturbed
    <3>9. QED
      BY <1>0, <2>3, <3>3, <3>4, <3>5, <3>6, <3>7, <3>8 DEF Worker, LoopWork
  <2>4. CASE ~RunStep /\ ~(\E w \in Workers : Worker(w))
    BY <1>2, <2>1, <2>4, OtherSteps
  <2>5. QED
    BY <2>2, <2>3, <2>4
<1>3. QED
  BY <1>1, <1>2

LEMMA FullCorrect == Spec => []SpawnInv /\ []FullInv
<1>1. Init => SpawnInv
  BY GoroutinesAssumption DEF Init, RequesterInit, SpawnInv, Workers
<1>2. TypeOK /\ WgInv /\ SpawnInv /\ [Next]_vars => SpawnInv'
  BY SpawnNext
<1>3. Spec => []SpawnInv
  BY <1>1, <1>2, TypeCorrect, WgCorrect, PTL DEF Spec
<1>4. Init => FullInv
  BY DEF Init, RequesterInit, FullInv
<1>5. TypeOK /\ WgInv /\ SpawnInv /\ RecordInv /\ TicketInv /\ FullInv /\ [Next]_vars => FullInv'
  BY FullNext
<1>6. QED
  BY <1>3, <1>4, <1>5, TypeCorrect, WgCorrect, RecordCorrect, TicketCorrect, PTL DEF Spec

\* A run that no signal, duration or end of input cuts short has reported
\* exactly the -n requests it was asked for when doneChan is closed.
THEOREM AllRun == Spec => []AllRequestsRun
<1>1. TypeOK /\ WgInv /\ RecordInv /\ DoneInv /\ SpawnInv /\ FullInv => AllRequestsRun
  <2> SUFFICES ASSUME TypeOK, WgInv, RecordInv, DoneInv, SpawnInv, FullInv,
                      DoneClosed, N > 0, Goroutines > 0, Undisturbed
               PROVE  count = N
    BY DEF AllRequestsRun
  <2>1. /\ run = "over" /\ InLoop = {} /\ reported = Answered
        /\ \A q \in 1 .. started : answer[q] # Pending
    BY NothingLeft
  <2>2. Throttled = {}
    BY <2>1 DEF InLoop, Throttled
  <2>3. Turned # {}
    <3>1. 0 \in Workers /\ 0 < spawned
      BY <2>1, GoroutinesAssumption DEF SpawnInv, Workers
    <3>2. pc[0] # "idle" /\ pc[0] \in PCs
      BY <3>1 DEF SpawnInv, TypeOK, RequesterTypeOK
    <3>3. pc[0] \in {"leave", "over"}
      BY <2>1, <3>1, <3>2 DEF InLoop
    <3>4. QED
      BY <3>1, <3>3 DEF Turned
  <2>4. started = N
    <3>1. Tickets = N /\ semaphore < 0
      BY <2>1, <2>3 DEF FullInv
    <3>2. started \in Nat /\ semaphore \in Int /\ Cardinality(Throttled) = 0
      BY <2>2, FS_EmptySet, MaxRequestsAssumption DEF TypeOK, RequesterTypeOK
    <3>3. QED
      BY <3>1, <3>2 DEF Tickets, Left
  <2>5. Answered = 1 .. N
    <3>1. 1 .. N \subseteq Requests
      BY NAssumption, MaxRequestsAssumption DEF Requests
    <3>2. Pending \notin Reported
      BY EndingsAssumption DEF Reported, Pending
    <3>3. \A q \in 1 .. N : answer[q] \in Reported
      BY <2>1, <2>4, <3>1 DEF Undisturbed, TypeOK, RequesterTypeOK, Endings, Reported
    <3>4. \A q \in Requests : q \notin 1 .. N => answer[q] = Pending
      BY <2>4, NAssumption, MaxRequestsAssumption DEF RecordInv, InvokeInv, Requests
    <3>5. QED
      BY <3>1, <3>2, <3>3, <3>4 DEF Answered
  <2>6. QED
    BY <2>1, <2>5, NAssumption, FS_Interval DEF RecordInv, TalliesTrue
<1>2. QED
  BY <1>1, TypeCorrect, WgCorrect, RecordCorrect, DoneCorrect, FullCorrect, PTL
=============================================================================

---------------------------- MODULE Bench_proofs ------------------------------
(***************************************************************************)
(* Theorems about the bench, for any number of workers and requests: its   *)
(* types, no send on the closed channel, and that the report is the truth. *)
(***************************************************************************)
EXTENDS Bench, FiniteSetTheorems, TLAPS

-----------------------------------------------------------------------------
(* The contents of records *)

LEMMA NewRecordType == NewRecord \in Record
  BY DEF NewRecord, Record, Results

LEMMA UsedType == ASSUME NEW r \in Record PROVE Used(r) \in Record
  BY DEF Used, Record, Results

LEMMA RecordFields == ASSUME NEW r \in Record
  PROVE  /\ r.req \in Requests \cup {0}
         /\ r.code \in Results
         /\ r.bytes \in Nat
  BY DEF Record

LEMMA FilledType ==
  ASSUME NEW r \in Record, NEW e \in Reported
  PROVE  Filled(r, e) \in Record
<1>1. CASE e \in Results
  BY <1>1 DEF Filled, Record
<1>2. CASE e = "failed"
  BY <1>2 DEF Filled, Record
<1>3. QED BY <1>1, <1>2 DEF Reported

LEMMA ResetType == ASSUME NEW got, NEW q \in Requests
  PROVE [Reset(got) EXCEPT !.req = q] \in Record
  BY DEF Reset, NewRecord, Record, Results

-----------------------------------------------------------------------------
(* Type correctness: each component keeps its own part of TypeOK *)

LEMMA TypeInit == Init => TypeOK
<1> SUFFICES ASSUME Init PROVE TypeOK
  OBVIOUS
<1> USE DEF Init
<1>1. ChanTypeOK
  <2>1. closed \in BOOLEAN
    BY Zenon DEF ChanInit
  <2>2. QED
    BY <2>1, CapAssumption DEF ChanInit, ChanTypeOK
<1>2. RequesterTypeOK
  <2> USE DEF RequesterInit
  <2>1. /\ pc \in [Workers -> PCs]
        /\ rr \in [Workers -> Record]
        /\ answer \in [Requests -> Endings \cup {Pending}]
    BY NewRecordType DEF PCs
  <2>2. /\ spawned \in 0 .. Goroutines
        /\ top \in 0 .. Goroutines
        /\ signals \in 0 .. MaxSignals
        /\ started \in 0 .. MaxRequests
    BY GoroutinesAssumption, MaxSignalsAssumption, MaxRequestsAssumption
  <2>3. ctxDone \in BOOLEAN /\ sigs \in BOOLEAN
    BY Zenon
  <2>4. QED
    BY <2>1, <2>2, <2>3 DEF RequesterTypeOK, RunPCs, GenPCs
<1>3. ReportTypeOK
  <2>1. noDateWithinSec \in BOOLEAN
    BY Zenon DEF ReportInit
  <2>2. QED
    BY <2>1, NewRecordType DEF ReportInit, ReportTypeOK
<1>4. MainTypeOK
  BY DEF MainTypeOK, MainPCs
<1>5. QED BY <1>1, <1>2, <1>3, <1>4 DEF TypeOK

LEMMA RunType ==
  ASSUME TypeOK, RunStep PROVE TypeOK'
<1> USE GoroutinesAssumption, NAssumption DEF TypeOK, RunStep
<1>1. ReportTypeOK' /\ MainTypeOK'
  BY DEF ReportTypeOK, MainTypeOK, reportVars, collectVars, secVars, mainVars
<1>2. ChanTypeOK'
  BY DEF ChanTypeOK, Run, RunBegin, RunSpawn, RunSpawned, RunWait, RunCancel, RunClose,
         CloseChan, chanVars
<1>3. CASE RunBegin
  BY <1>1, <1>2, <1>3 DEF RunBegin, RequesterTypeOK, RunPCs, GenPCs, signalVars, Incr
<1>4. CASE RunSpawn
  <2>1. pc' \in [Workers -> PCs]
    BY <1>4 DEF RunSpawn, StartWorker, RequesterTypeOK, PCs
  <2>2. spawned' \in 0 .. Goroutines /\ wg' \in Int
    BY <1>4 DEF RunSpawn, StartWorker, RequesterTypeOK
  <2>3. QED
    BY <1>1, <1>2, <1>4, <2>1, <2>2
    DEF RunSpawn, RequesterTypeOK, signalVars, genVars, workerVars
<1>5. CASE RunSpawned \/ RunWait \/ RunCancel \/ RunClose
  BY <1>1, <1>2, <1>5
  DEF RunSpawned, RunWait, RunCancel, RunClose, RequesterTypeOK, RunPCs, signalVars,
      genVars, workerVars
<1>6. QED BY <1>3, <1>4, <1>5 DEF Run

LEMMA TimerType ==
  ASSUME TypeOK, TimerStep PROVE TypeOK'
  BY DEF TypeOK, TimerStep, TimerFires, ReportTypeOK, MainTypeOK, ChanTypeOK, RequesterTypeOK,
         reportVars, collectVars, secVars, mainVars, chanVars, signalVars, genVars, workerVars

LEMMA GenType ==
  ASSUME TypeOK, GenStep PROVE TypeOK'
<1> USE GoroutinesAssumption, IncrAssumption DEF TypeOK, GenStep
<1>1. ReportTypeOK' /\ MainTypeOK' /\ ChanTypeOK'
  BY DEF ReportTypeOK, MainTypeOK, ChanTypeOK, reportVars, collectVars, secVars, mainVars,
         chanVars, GenerateTokens, GenSpawn, GenUpTick, GenKeep, GenDown, GenLast
<1>2. CASE GenSpawn
  <2>1. spawned' \in 0 .. Goroutines /\ wg' \in Int
    BY <1>2 DEF GenSpawn, StartWorker, RequesterTypeOK
  <2>2. pc' \in [Workers -> PCs]
    BY <1>2 DEF GenSpawn, StartWorker, RequesterTypeOK, PCs
  <2>3. QED
    BY <1>1, <1>2, <2>1, <2>2
    DEF GenSpawn, RequesterTypeOK, GenPCs, signalVars, workerVars
<1>3. CASE GenUpTick \/ GenKeep \/ GenDown \/ GenLast
  BY <1>1, <1>3
  DEF GenUpTick, GenKeep, GenDown, GenLast, RequesterTypeOK, GenPCs, signalVars, workerVars
<1>4. QED BY <1>2, <1>3 DEF GenerateTokens

LEMMA WorkerType ==
  ASSUME TypeOK, NEW w \in Workers, Worker(w) PROVE TypeOK'
<1> USE DEF TypeOK, Worker
<1>1. ReportTypeOK' /\ MainTypeOK'
  BY DEF ReportTypeOK, MainTypeOK, reportVars, collectVars, secVars, mainVars
<1>2. pc' \in [Workers -> PCs]
  BY DEF LoopWork, Enter, Acquire, Begin, Stop, Invoked, SendRecord, WgDone, Leave, Goto,
         RequesterTypeOK, PCs
<1>3. CASE Enter(w) \/ Acquire(w) \/ Stop(w) \/ WgDone(w) \/ Leave(w)
  BY <1>1, <1>2, <1>3, NAssumption, SMTT(40)
  DEF Enter, Acquire, Stop, WgDone, Leave, ChanTypeOK, chanVars, RequesterTypeOK, runVars,
      signalVars, genVars, workerVars
<1>4. CASE Begin(w)
  <2>1. started' \in 0 .. MaxRequests /\ started + 1 \in Requests
    BY <1>4, MaxRequestsAssumption DEF Begin, RequesterTypeOK, Requests
  <2>2. rr' \in [Workers -> Record]
    <3>1. PICK got \in Pooled :
             rr' = [rr EXCEPT ![w] = [Reset(got) EXCEPT !.req = started + 1]]
      BY <1>4 DEF Begin
    <3>2. QED
      BY <2>1, <3>1, ResetType DEF RequesterTypeOK
  <2>3. QED
    BY <1>1, <1>2, <1>4, <2>1, <2>2
    DEF Begin, ThrottlePasses, ChanTypeOK, chanVars, RequesterTypeOK, runVars, signalVars, genVars
<1>5. CASE \E e \in Endings : Invoked(w, e)
  <2>1. PICK e \in Endings : Invoked(w, e)
    BY <1>5
  <2>2. answer' \in [Requests -> Endings \cup {Pending}]
    BY <2>1 DEF Invoked, RequesterTypeOK
  <2>3. e # "EOF" => e \in Reported
    BY DEF Endings, Reported
  <2>4. rr' \in [Workers -> Record]
    BY <2>1, <2>3, NewRecordType, FilledType DEF Invoked, RequesterTypeOK
  <2>5. QED
    BY <1>1, <1>2, <2>1, <2>2, <2>4
    DEF Invoked, ChanTypeOK, chanVars, RequesterTypeOK, runVars, signalVars, genVars
<1>6. CASE SendRecord(w)
  <2>1. rr' \in [Workers -> Record]
    BY <1>6, NewRecordType DEF SendRecord, RequesterTypeOK
  <2>2. ChanTypeOK'
    BY <1>6, CapAssumption DEF SendRecord, Send, CanSend, ChanTypeOK, RequesterTypeOK
  <2>3. QED
    BY <1>1, <1>2, <1>6, <2>1, <2>2
    DEF SendRecord, RequesterTypeOK, runVars, signalVars, genVars
<1>7. QED
  BY <1>3, <1>4, <1>5, <1>6 DEF LoopWork

LEMMA ReportType ==
  ASSUME TypeOK, CollectStep \/ SecondsStep PROVE TypeOK'
<1> USE DEF TypeOK, CollectStep, SecondsStep
<1>1. RequesterTypeOK' /\ MainTypeOK'
  BY DEF RequesterTypeOK, MainTypeOK, requesterVars, mainVars
<1>2. CASE CollectBegin \/ CollectDone
  BY <1>1, <1>2
  DEF CollectBegin, CollectDone, ReportTypeOK, ChanTypeOK, chanVars, secVars
<1>3. CASE CollectReceive
  <2>1. ChanTypeOK' /\ held' \in Record
    BY <1>3, CapAssumption DEF CollectReceive, Receive, CanReceive, ChanTypeOK
  <2>2. QED
    BY <1>1, <1>3, <2>1 DEF CollectReceive, ReportTypeOK, secVars
<1>4. CASE CollectUpdate
  <2>0. /\ held.req \in Requests \cup {0}
        /\ held.code \in Results
        /\ held.bytes \in Nat
    BY RecordFields DEF ReportTypeOK
  <2>1. ChanTypeOK'
    BY <1>4, UsedType DEF CollectUpdate, Put, ChanTypeOK, ReportTypeOK
  <2>2. /\ count' \in Nat
        /\ temp' \in Nat
        /\ errors' \in Nat
        /\ bytes' \in Nat
    BY <1>4, <2>0 DEF CollectUpdate, ReportTypeOK
  <2>3. codes' \in [Statuses -> Nat]
    BY <1>4, <2>0 DEF CollectUpdate, ReportTypeOK, Results
  <2>4. held' \in Record
    BY <1>4, NewRecordType DEF CollectUpdate
  <2>5. reported' \subseteq Requests \cup {0}
    BY <1>4, <2>0 DEF CollectUpdate, ReportTypeOK
  <2>6. QED
    BY <1>1, <1>4, <2>1, <2>2, <2>3, <2>4, <2>5 DEF CollectUpdate, ReportTypeOK, secVars
<1>5. CASE SecondTick \/ SecondsOver
  <2>1. noDateWithinSec' \in BOOLEAN
    BY <1>5 DEF SecondTick, SecondsOver, ReportTypeOK
  <2>2. QED
    BY <1>1, <1>5, <2>1
    DEF SecondTick, SecondsOver, ReportTypeOK, ChanTypeOK, chanVars, collectVars
<1>6. QED
  BY <1>2, <1>3, <1>4, <1>5 DEF Collect, Seconds

LEMMA MainType ==
  ASSUME TypeOK, Main \/ Chart PROVE TypeOK'
<1> USE DEF TypeOK
<1>1. ChanTypeOK'
  BY DEF Main, MainStart, Echo, EchoFormat, PrintDone, FinalEcho, FinalFormat, MainExit,
         Snapshot, Format, Chart, ChartTick, ChartWrite, ChartDone, ChanTypeOK, chanVars
<1>2. CASE MainStart
  BY <1>1, <1>2
  DEF MainStart, RequesterTypeOK, ReportTypeOK, MainTypeOK, MainPCs, RunPCs, secVars
<1>3. CASE (Main /\ ~MainStart) \/ Chart
  BY <1>1, <1>3
  DEF Main, Echo, EchoFormat, PrintDone, FinalEcho, FinalFormat, MainExit, Snapshot, Format,
      Chart, ChartTick, ChartWrite, ChartDone, RequesterTypeOK, ReportTypeOK, MainTypeOK,
      MainPCs, requesterVars, reportVars, collectVars, secVars
<1>4. QED
  BY <1>2, <1>3

LEMMA SignalType ==
  ASSUME TypeOK, Signal \/ SignalCancels \/ SignalExits PROVE TypeOK'
<1> USE DEF TypeOK
<1>1. ChanTypeOK' /\ ReportTypeOK'
  BY DEF Signal, SignalCancels, SignalExits, ReceiveSignal, HandleFirstSignal,
         HandleLaterSignal, ChanTypeOK, ReportTypeOK, chanVars, reportVars, collectVars, secVars
<1>2. sigs' \in BOOLEAN
  BY Zenon DEF Signal, SignalCancels, SignalExits, ReceiveSignal, HandleFirstSignal,
         HandleLaterSignal, Installed
<1>3. ctxDone' \in BOOLEAN
  BY DEF Signal, SignalCancels, SignalExits, ReceiveSignal, HandleFirstSignal,
         HandleLaterSignal, RequesterTypeOK
<1>4. signals' \in 0 .. MaxSignals /\ handled' \in 0 .. 1
  BY MaxSignalsAssumption
  DEF Signal, SignalCancels, SignalExits, ReceiveSignal, HandleFirstSignal,
      HandleLaterSignal, RequesterTypeOK
<1>5. MainTypeOK'
  BY DEF Signal, SignalCancels, SignalExits, MainTypeOK, MainPCs, mainVars
<1>6. QED
  BY <1>1, <1>2, <1>3, <1>4, <1>5
  DEF Signal, SignalCancels, SignalExits, ReceiveSignal, HandleFirstSignal, HandleLaterSignal,
      RequesterTypeOK, genVars, workerVars

LEMMA TypeNext == TypeOK /\ [Next]_vars => TypeOK'
<1> SUFFICES ASSUME TypeOK, [Next]_vars PROVE TypeOK'
  OBVIOUS
<1>1. CASE UNCHANGED vars
  BY <1>1 DEF TypeOK, ChanTypeOK, RequesterTypeOK, ReportTypeOK, MainTypeOK, vars, chanVars,
              requesterVars, reportVars, collectVars, secVars, mainVars
<1>2. CASE Step
  BY <1>2, MainType, RunType, TimerType, GenType, WorkerType, ReportType, SignalType DEF Step
<1>3. QED
  BY <1>1, <1>2 DEF Next, Ended

\* Bench never leaves the states that TypeOK describes.
THEOREM TypeCorrect == Spec => []TypeOK
<1>1. Init => TypeOK
  BY TypeInit
<1>2. TypeOK /\ [Next]_vars => TypeOK'
  BY TypeNext
<1>3. QED
  BY <1>1, <1>2, PTL DEF Spec

-----------------------------------------------------------------------------
(***************************************************************************)
(* Closing the channel                                                     *)
(*                                                                         *)
(* WgInv: r.wg counts the workers in their loop, and run() is past Wait    *)
(* only when there is none and none will come.                             *)
(***************************************************************************)
InLoop == {w \in Workers : pc[w] \notin {"idle", "leave", "over"}}

WgInv ==
    /\ wg = Cardinality(InLoop)
    /\ \A w \in Workers : w < spawned \/ pc[w] = "idle"
    /\ main = "start" => run = "none" /\ collect = "none"
    /\ run \in {"none", "begin"} => spawned = 0
    /\ run \in {"cancel", "close", "over"} => wg = 0
    /\ closed <=> run = "over"

LEMMA WorkersFinite == \A S \in SUBSET Workers : IsFiniteSet(S)
<1>1. IsFiniteSet(Workers)
  BY GoroutinesAssumption, FS_Interval DEF Workers
<1>2. QED
  BY <1>1, FS_Subset

LEMMA InLoopFinite == IsFiniteSet(InLoop)
  BY WorkersFinite DEF InLoop

\* r.wg.Add(1) and the loopWork it is for begin together.
LEMMA StartKeepsWg ==
  ASSUME TypeOK, WgInv, spawned < Goroutines, run = "spawn", StartWorker
  PROVE  /\ wg' = Cardinality(InLoop')
         /\ \A w \in Workers : w < spawned' \/ pc'[w] = "idle"
<1> USE DEF TypeOK, RequesterTypeOK, WgInv, StartWorker
<1>1. spawned \in Workers /\ pc[spawned] = "idle"
  BY GoroutinesAssumption DEF Workers
<1>2. InLoop' = InLoop \cup {spawned} /\ spawned \notin InLoop
  BY <1>1 DEF InLoop
<1>3. wg' = Cardinality(InLoop')
  BY <1>2, InLoopFinite, FS_AddElement
<1>4. \A w \in Workers : w < spawned' \/ pc'[w] = "idle"
  BY <1>1 DEF Workers
<1>5. QED
  BY <1>3, <1>4

\* A step of a worker in its loop, r.wg.Done() among them.
LEMMA LoopKeepsWg ==
  ASSUME TypeOK, WgInv, NEW w \in Workers, Worker(w)
  PROVE  WgInv'
<1> USE DEF TypeOK, RequesterTypeOK, WgInv, Worker
<1>1. /\ UNCHANGED <<run, spawned, main, collect, closed>>
      /\ \A v \in Workers : v # w => pc'[v] = pc[v]
      /\ pc[w] # "idle"
  BY DEF LoopWork, Enter, Acquire, Begin, Stop, Invoked, SendRecord, Send, WgDone, Leave,
         Goto, runVars, chanVars, reportVars, collectVars, mainVars
<1>2. wg' = Cardinality(InLoop') /\ (wg = 0 => wg' = 0)
  <2>1. CASE WgDone(w)
    <3>1. InLoop' = InLoop \ {w} /\ w \in InLoop
      BY <1>1, <2>1 DEF WgDone, Goto, InLoop
    <3>2. wg' = Cardinality(InLoop')
      BY <2>1, <3>1, InLoopFinite, FS_RemoveElement DEF WgDone
    <3>3. wg # 0
      BY <3>1, InLoopFinite, FS_EmptySet
    <3>4. QED
      BY <3>2, <3>3
  <2>2. CASE Enter(w) \/ Acquire(w) \/ Begin(w) \/ Stop(w) \/ (\E e \in Endings : Invoked(w, e))
             \/ SendRecord(w) \/ Leave(w)
    <3>1. wg' = wg
      BY <2>2 DEF Enter, Acquire, Begin, Stop, Invoked, SendRecord, Leave
    <3>2. InLoop' = InLoop
      BY <1>1, <2>2
      DEF Enter, Acquire, Begin, Stop, Invoked, SendRecord, Leave, Goto, InLoop
    <3>3. QED
      BY <3>1, <3>2
  <2>3. QED
    BY <2>1, <2>2 DEF LoopWork
<1>3. \A v \in Workers : v < spawned' \/ pc'[v] = "idle"
  BY <1>1
<1>4. QED
  BY <1>1, <1>2, <1>3

LEMMA WgInit == Init => WgInv
<1> SUFFICES ASSUME Init PROVE WgInv
  OBVIOUS
<1>1. InLoop = {}
  BY DEF Init, RequesterInit, InLoop
<1>2. QED
  BY <1>1, FS_EmptySet DEF Init, ChanInit, RequesterInit, ReportInit, WgInv

LEMMA WgNext == TypeOK /\ WgInv /\ [Next]_vars => WgInv'
<1> SUFFICES ASSUME TypeOK, WgInv, [Next]_vars PROVE WgInv'
  OBVIOUS
<1>1. CASE UNCHANGED vars
  BY <1>1 DEF WgInv, InLoop, vars, chanVars, requesterVars, reportVars, collectVars, mainVars
<1>2. CASE Main \/ Chart
  <2>1. InLoop' = InLoop
    BY <1>2 DEF InLoop, Main, MainStart, Echo, EchoFormat, PrintDone, FinalEcho, FinalFormat,
                MainExit, Snapshot, Format, Chart, ChartTick, ChartWrite, ChartDone, requesterVars
  <2>2. CASE MainStart
    BY <1>2, <2>1, <2>2 DEF MainStart, WgInv, chanVars
  <2>3. CASE (Main /\ ~MainStart) \/ Chart
    BY <1>2, <2>1, <2>3
    DEF WgInv, Main, Echo, EchoFormat, PrintDone, FinalEcho, FinalFormat, MainExit, Snapshot,
        Format, Chart, ChartTick, ChartWrite, ChartDone, requesterVars, reportVars,
        collectVars, chanVars
  <2>4. QED
    BY <1>2, <2>2, <2>3
<1>3. CASE RunStep
  <2>1. CASE RunSpawn
    <3>1. /\ wg' = Cardinality(InLoop')
          /\ \A w \in Workers : w < spawned' \/ pc'[w] = "idle"
      BY <2>1, StartKeepsWg DEF RunSpawn
    <3>2. QED
      BY <1>3, <2>1, <3>1
      DEF RunStep, RunSpawn, WgInv, reportVars, collectVars, mainVars, chanVars
  <2>2. CASE Run /\ ~RunSpawn
    <3>1. InLoop' = InLoop
      BY <2>2 DEF Run, RunBegin, RunSpawned, RunWait, RunCancel, RunClose, InLoop
    <3>2. QED
      BY <1>3, <2>2, <3>1
      DEF RunStep, Run, RunBegin, RunSpawned, RunWait, RunCancel, RunClose, CloseChan, WgInv,
          reportVars, collectVars, mainVars, chanVars
  <2>3. QED
    BY <1>3, <2>1, <2>2 DEF RunStep
<1>4. CASE GenStep
  <2>1. CASE GenSpawn
    <3>1. /\ wg' = Cardinality(InLoop')
          /\ \A w \in Workers : w < spawned' \/ pc'[w] = "idle"
      BY <2>1, StartKeepsWg DEF GenSpawn
    <3>2. QED
      BY <1>4, <2>1, <3>1
      DEF GenStep, GenSpawn, WgInv, reportVars, collectVars, mainVars, chanVars
  <2>2. CASE GenUpTick \/ GenKeep \/ GenDown \/ GenLast
    BY <1>4, <2>2
    DEF GenStep, GenUpTick, GenKeep, GenDown, GenLast, WgInv, InLoop, reportVars, collectVars,
        mainVars, chanVars
  <2>3. QED
    BY <1>4, <2>1, <2>2 DEF GenStep, GenerateTokens
<1>5. CASE TimerStep \/ CollectStep \/ SecondsStep
  <2>1. UNCHANGED <<wg, pc, spawned, run, main, closed>>
    BY <1>5
    DEF TimerStep, TimerFires, CollectStep, Collect, CollectBegin, CollectReceive,
        CollectUpdate, CollectDone, SecondsStep, Seconds, SecondTick, SecondsOver, Receive, Put,
        reportVars, mainVars, chanVars, requesterVars
  <2>2. collect = "none" => collect' = "none"
    BY <1>5
    DEF TimerStep, TimerFires, CollectStep, Collect, CollectBegin, CollectReceive,
        CollectUpdate, CollectDone, SecondsStep, Seconds, SecondTick, SecondsOver,
        reportVars, collectVars
  <2>3. QED
    BY <2>1, <2>2 DEF WgInv, InLoop
<1>6. CASE Signal \/ SignalCancels \/ SignalExits
  BY <1>6
  DEF Signal, SignalCancels, SignalExits, ReceiveSignal, HandleFirstSignal, HandleLaterSignal,
      WgInv, InLoop, reportVars, collectVars, mainVars, chanVars
<1>7. CASE \E w \in Workers : Worker(w)
  BY <1>7, LoopKeepsWg
<1>8. QED
  BY <1>1, <1>2, <1>3, <1>4, <1>5, <1>6, <1>7 DEF Next, Ended, Step

LEMMA WgImplies == TypeOK /\ WgInv => NoSendOnClosed
<1> SUFFICES ASSUME TypeOK, WgInv, closed PROVE InLoop = {}
  BY DEF InLoop, NoSendOnClosed, TypeOK, RequesterTypeOK
<1>1. Cardinality(InLoop) = 0
  BY DEF WgInv
<1>2. QED
  BY <1>1, InLoopFinite, FS_EmptySet

LEMMA WgCorrect == Spec => []WgInv
<1>1. Init => WgInv
  BY WgInit
<1>2. TypeOK /\ WgInv /\ [Next]_vars => WgInv'
  BY WgNext
<1>3. QED
  BY <1>1, <1>2, TypeCorrect, PTL DEF Spec

\* A worker never sends on recordChan after run() has closed it, and when it
\* does close it the workers that it waited for are out of their loop.
THEOREM NeverSendsOnClosed == Spec => []NoSendOnClosed
<1>1. TypeOK /\ WgInv => NoSendOnClosed
  BY WgImplies
<1>2. QED
  BY <1>1, TypeCorrect, WgCorrect, PTL

(***************************************************************************)
(* The report is the truth: EachOnce and TalliesTrue.                      *)
(***************************************************************************)

(***************************************************************************)
(* RecordInv: a request without an answer is with the one worker that      *)
(* invokes it, and a record in flight holds its request's answer and       *)
(* nothing else, so that what Collect adds up is what happened.            *)
(***************************************************************************)
Invoking == {w \in Workers : pc[w] = "invoke"}

Fresh(q) == [NewRecord EXCEPT !.req = q]

Carries(r) ==
    /\ r.req \in Answered
    /\ r = Filled(Fresh(r.req), answer[r.req])

InvokeInv ==
    /\ \A q \in Requests : q > started => answer[q] = Pending
    /\ \A q \in 1 .. started : answer[q] = Pending => \E w \in Invoking : rr[w].req = q
    /\ \A w \in Invoking : /\ rr[w].req \in 1 .. started
                           /\ rr[w] = Fresh(rr[w].req)
                           /\ answer[rr[w].req] = Pending
    /\ \A v, w \in Invoking : rr[v].req = rr[w].req => v = w

CarryInv ==
    /\ \A w \in Sending : Carries(rr[w])
    /\ \A i \in DOMAIN recordChan : Carries(recordChan[i])
    /\ Updating => Carries(held)

RecordInv == InvokeInv /\ CarryInv /\ EachOnce /\ TalliesTrue

recordVars == <<answer, rr, recordChan, held, reported, count, codes, errors, bytes, started>>

-----------------------------------------------------------------------------
(* Steps that do not touch the records *)

\* RecordInv depends on the program counters through three sets only.
LEMMA RecordFrame ==
  ASSUME RecordInv, UNCHANGED recordVars,
         Invoking' = Invoking, Sending' = Sending, Updating' = Updating
  PROVE  RecordInv'
<1> USE DEF recordVars
<1>1. InvokeInv'
  BY DEF RecordInv, InvokeInv
<1>2. Answered' = Answered
  BY DEF Answered
<1>3. CarryInv'
  BY <1>2 DEF RecordInv, CarryInv, Carries
<1>4. InFlight' = InFlight /\ NoTwins'
  BY DEF RecordInv, EachOnce, InFlight, NoTwins
<1>5. EachOnce'
  BY <1>2, <1>4 DEF RecordInv, EachOnce
<1>6. TalliesTrue'
  BY DEF RecordInv, TalliesTrue, EndedAs
<1>7. QED
  BY <1>1, <1>3, <1>5, <1>6 DEF RecordInv

LEMMA RecordInit == Init => RecordInv
<1> SUFFICES ASSUME Init PROVE RecordInv
  OBVIOUS
<1> USE DEF Init, ChanInit, RequesterInit, ReportInit
<1>1. Invoking = {} /\ Sending = {} /\ ~Updating /\ recordChan = <<>>
  BY DEF Invoking, Sending, Updating
<1>2. InvokeInv
  BY <1>1, MaxRequestsAssumption DEF InvokeInv, Requests
<1>3. CarryInv
  BY <1>1 DEF CarryInv
<1>4. Answered = {}
  BY EndingsAssumption DEF Answered, Reported, Pending
<1>5. InFlight = {} /\ NoTwins
  BY <1>1 DEF InFlight, NoTwins
<1>6. EachOnce
  BY <1>4, <1>5 DEF EachOnce
<1>7. \A S : EndedAs(S) = {}
  BY DEF EndedAs
<1>8. TalliesTrue
  BY <1>7, FS_EmptySet DEF TalliesTrue
<1>9. QED
  BY <1>2, <1>3, <1>6, <1>8 DEF RecordInv
-----------------------------------------------------------------------------
(* The steps of a record, from the pool to the report *)

LEMMA BeginKeepsRecords ==
  ASSUME TypeOK, RecordInv, NEW w \in Workers, Worker(w), Begin(w)
  PROVE  RecordInv'
<1> DEFINE q == started + 1
<1> USE DEF TypeOK, RequesterTypeOK
<1>1. /\ started' = q
      /\ rr' = [rr EXCEPT ![w] = Fresh(q)]
      /\ pc' = [pc EXCEPT ![w] = "invoke"]
      /\ UNCHANGED <<answer, recordChan, held, reported, count, codes, errors, bytes, collect>>
      /\ q \in Requests
  BY MaxRequestsAssumption
  DEF Begin, Goto, Worker, Reset, Fresh, chanVars, reportVars, collectVars, Requests
<1>2. /\ Invoking' = Invoking \cup {w}
      /\ w \notin Invoking
      /\ w \notin Sending
      /\ Sending' = Sending
      /\ Updating' = Updating
  BY <1>1 DEF Begin, Invoking, Sending, Updating
<1>3. /\ rr'[w] = Fresh(q)
      /\ rr'[w].req = q
      /\ \A v \in Workers : v # w => rr'[v] = rr[v]
  BY <1>1 DEF Fresh, NewRecord
<1>4. Invoking \subseteq Workers /\ Sending \subseteq Workers
  BY DEF Invoking, Sending
<1>5. InvokeInv'
  <2>1. answer[q] = Pending
    BY <1>1 DEF RecordInv, InvokeInv
  <2>2. \A p \in Requests : p > q => answer[p] = Pending
    BY DEF RecordInv, InvokeInv, Requests
  <2>3. \A p \in 1 .. q : answer[p] = Pending => \E v \in Invoking' : rr'[v].req = p
    <3>1. SUFFICES ASSUME NEW p \in 1 .. q, answer[p] = Pending
                   PROVE  \E v \in Invoking' : rr'[v].req = p
      OBVIOUS
    <3>2. CASE p = q
      BY <1>2, <1>3, <3>2
    <3>3. CASE p \in 1 .. started
      <4>1. PICK v \in Invoking : rr[v].req = p
        BY <3>1, <3>3 DEF RecordInv, InvokeInv
      <4>2. QED
        BY <1>2, <1>3, <1>4, <4>1
    <3>4. QED
      BY <3>2, <3>3
  <2>4. \A v \in Invoking : /\ rr'[v] = rr[v]
                            /\ rr[v].req \in 1 .. started
                            /\ rr[v] = Fresh(rr[v].req)
                            /\ answer[rr[v].req] = Pending
    BY <1>2, <1>3, <1>4 DEF RecordInv, InvokeInv
  <2>5. \A v \in Invoking' : /\ rr'[v].req \in 1 .. q
                             /\ rr'[v] = Fresh(rr'[v].req)
                             /\ answer[rr'[v].req] = Pending
    BY <1>2, <1>3, <2>1, <2>4
  <2>6. \A u, v \in Invoking' : rr'[u].req = rr'[v].req => u = v
    BY <1>2, <1>3, <2>4 DEF RecordInv, InvokeInv
  <2>7. QED
    BY <1>1, <2>2, <2>3, <2>5, <2>6 DEF InvokeInv
<1>6. \A v \in Sending : rr'[v] = rr[v]
  BY <1>2, <1>3, <1>4
<1>7. Answered' = Answered
  BY <1>1 DEF Answered
<1>8. CarryInv'
  BY <1>1, <1>2, <1>6, <1>7 DEF RecordInv, CarryInv, Carries
<1>9. InFlight' = InFlight /\ NoTwins'
  BY <1>1, <1>2, <1>6 DEF RecordInv, EachOnce, InFlight, NoTwins
<1>10. EachOnce'
  BY <1>1, <1>7, <1>9 DEF RecordInv, EachOnce
<1>11. TalliesTrue'
  BY <1>1 DEF RecordInv, TalliesTrue, EndedAs
<1>12. QED
  BY <1>5, <1>8, <1>10, <1>11 DEF RecordInv

\* A request gets its answer: it was Pending, so no record in flight and no
\* tally of the report is about it.
LEMMA InvokedKeepsRecords ==
  ASSUME TypeOK, RecordInv, NEW w \in Workers, NEW e \in Endings, Worker(w), Invoked(w, e)
  PROVE  RecordInv'
<1> DEFINE q == rr[w].req
<1> USE DEF TypeOK, RequesterTypeOK
<1>1. w \in Invoking /\ q \in 1 .. started /\ rr[w] = Fresh(q) /\ answer[q] = Pending
  BY DEF Invoked, RecordInv, InvokeInv, Invoking
<1>2. q \in Requests
  BY <1>1, MaxRequestsAssumption DEF Requests
<1>3. /\ answer' = [answer EXCEPT ![q] = e]
      /\ UNCHANGED <<started, recordChan, held, reported, count, codes, errors, bytes, collect>>
      /\ Updating' = Updating
      /\ \A v \in Workers : v # w => rr'[v] = rr[v] /\ pc'[v] = pc[v]
      /\ Invoking' = Invoking \ {w}
      /\ w \notin Sending
  BY DEF Invoked, Goto, Worker, chanVars, reportVars, collectVars, Updating, Invoking, Sending
<1>4. /\ e # Pending
      /\ Pending \notin Reported
      /\ "EOF" \notin Reported
      /\ e # "EOF" => e \in Reported
  BY EndingsAssumption DEF Endings, Reported, Pending
<1>5. q \notin Answered
  BY <1>1, <1>4 DEF Answered
<1>6. Invoking \subseteq Workers /\ Sending \subseteq Workers /\ Invoking' \subseteq Workers
  BY DEF Invoking, Sending
<1>7. InvokeInv'
  <2>1. \A p \in Requests : p > started => answer'[p] = Pending
    BY <1>1, <1>3 DEF RecordInv, InvokeInv
  <2>2. \A p \in 1 .. started : answer'[p] = Pending => \E v \in Invoking' : rr'[v].req = p
    <3>1. SUFFICES ASSUME NEW p \in 1 .. started, answer'[p] = Pending
                   PROVE  \E v \in Invoking' : rr'[v].req = p
      OBVIOUS
    <3>2. p \in Requests
      BY MaxRequestsAssumption DEF Requests
    <3>3. p # q /\ answer[p] = Pending
      BY <1>2, <1>3, <1>4, <3>1, <3>2
    <3>4. PICK v \in Invoking : rr[v].req = p
      BY <3>3 DEF RecordInv, InvokeInv
    <3>5. QED
      BY <1>3, <1>6, <3>3, <3>4
  <2>3. \A v \in Invoking' : /\ rr'[v] = rr[v]
                             /\ rr[v].req # q
                             /\ v \in Invoking
    BY <1>1, <1>3, <1>6 DEF RecordInv, InvokeInv
  <2>4. \A v \in Invoking' : /\ rr'[v].req \in 1 .. started
                             /\ rr'[v] = Fresh(rr'[v].req)
                             /\ answer'[rr'[v].req] = Pending
    BY <1>3, <2>3, MaxRequestsAssumption DEF RecordInv, InvokeInv, Requests
  <2>5. \A u, v \in Invoking' : rr'[u].req = rr'[v].req => u = v
    BY <2>3 DEF RecordInv, InvokeInv
  <2>6. QED
    BY <1>3, <2>1, <2>2, <2>4, <2>5 DEF InvokeInv
<1>8. \A r : Carries(r) => r.req # q /\ answer'[r.req] = answer[r.req] /\ r.req \in Answered'
  BY <1>3, <1>5 DEF Carries, Answered
<1>9. TalliesTrue'
  <2>1. q \notin reported
    BY <1>5 DEF RecordInv, EachOnce
  <2>2. reported \subseteq Requests
    BY DEF RecordInv, EachOnce, Answered
  <2>3. \A S : EndedAs(S)' = EndedAs(S)
    BY <1>3, <2>1, <2>2 DEF EndedAs
  <2>4. QED
    BY <1>3, <2>3 DEF RecordInv, TalliesTrue
<1>10. CASE e = "EOF"
  <2>1. Sending' = Sending /\ \A v \in Sending : rr'[v] = rr[v]
    BY <1>3, <1>6, <1>10 DEF Invoked, Goto, Sending
  <2>2. Answered' = Answered
    BY <1>1, <1>2, <1>3, <1>4, <1>10 DEF Answered
  <2>3. CarryInv'
    BY <1>3, <1>8, <2>1 DEF RecordInv, CarryInv, Carries
  <2>4. InFlight' = InFlight /\ NoTwins'
    BY <1>3, <2>1 DEF RecordInv, EachOnce, InFlight, NoTwins
  <2>5. EachOnce'
    BY <1>3, <2>2, <2>4 DEF RecordInv, EachOnce
  <2>6. QED
    BY <1>7, <1>9, <2>3, <2>5 DEF RecordInv
<1>11. CASE e # "EOF"
  <2>1. /\ Sending' = Sending \cup {w}
        /\ \A v \in Sending : rr'[v] = rr[v] /\ v # w
        /\ rr'[w] = Filled(Fresh(q), e)
    BY <1>1, <1>3, <1>6, <1>11 DEF Invoked, Goto, Sending
  <2>2. rr'[w].req = q
    BY <2>1 DEF Filled, Fresh, NewRecord
  <2>3. Answered' = Answered \cup {q}
    BY <1>2, <1>3, <1>4, <1>11 DEF Answered
  <2>4. CarryInv'
    <3>1. \A v \in Sending' : Carries(rr[v])' \/ v = w
      BY <1>8, <2>1 DEF RecordInv, CarryInv, Carries
    <3>2. Carries(rr[w])'
      BY <1>2, <1>3, <2>1, <2>2, <2>3 DEF Carries
    <3>3. /\ \A i \in DOMAIN recordChan' : Carries(recordChan[i])'
          /\ Updating' => Carries(held)'
      BY <1>3, <1>8 DEF RecordInv, CarryInv, Carries
    <3>4. QED
      BY <3>1, <3>2, <3>3 DEF CarryInv
  <2>5. q \notin InFlight /\ q \notin reported
    BY <1>5 DEF RecordInv, EachOnce
  <2>6. InFlight' = InFlight \cup {q}
    BY <1>3, <2>1, <2>2 DEF InFlight
  <2>7. NoTwins'
    <3>1. \A v \in Sending : rr[v].req # q
      BY <2>5 DEF InFlight
    <3>2. \A i \in DOMAIN recordChan : recordChan[i].req # q
      BY <2>5 DEF InFlight
    <3>3. Updating => held.req # q
      BY <2>5 DEF InFlight
    <3>4. QED
      BY <1>3, <2>1, <2>2, <3>1, <3>2, <3>3 DEF RecordInv, EachOnce, NoTwins
  <2>8. EachOnce'
    BY <1>3, <2>3, <2>5, <2>6, <2>7 DEF RecordInv, EachOnce
  <2>9. QED
    BY <1>7, <1>9, <2>4, <2>8 DEF RecordInv
<1>12. QED
  BY <1>10, <1>11

\* The record goes from the worker into the channel.
LEMMA SendKeepsRecords ==
  ASSUME TypeOK, RecordInv, NEW w \in Workers, Worker(w), SendRecord(w)
  PROVE  RecordInv'
<1> USE DEF TypeOK, RequesterTypeOK, ChanTypeOK
<1>1. /\ UNCHANGED <<answer, started, held, reported, count, codes, errors, bytes, collect>>
      /\ Updating' = Updating
      /\ Invoking' = Invoking
      /\ w \in Sending /\ w \notin Invoking
      /\ Sending' = Sending \ {w}
      /\ \A v \in Workers : v # w => rr'[v] = rr[v]
  BY DEF SendRecord, Send, Goto, Worker, chanVars, reportVars, collectVars, Updating, Invoking,
         Sending
<1>2. Invoking \subseteq Workers /\ Sending \subseteq Workers
  BY DEF Invoking, Sending
<1>3. /\ DOMAIN recordChan' = DOMAIN recordChan \cup {Len(recordChan) + 1}
      /\ Len(recordChan) + 1 \notin DOMAIN recordChan
      /\ recordChan'[Len(recordChan) + 1] = rr[w]
      /\ \A i \in DOMAIN recordChan : recordChan'[i] = recordChan[i]
  BY DEF SendRecord, Send
<1>4. InvokeInv'
  BY <1>1, <1>2 DEF RecordInv, InvokeInv
<1>5. Answered' = Answered
  BY <1>1 DEF Answered
<1>6. CarryInv'
  BY <1>1, <1>2, <1>3, <1>5 DEF RecordInv, CarryInv, Carries
<1>7. InFlight' = InFlight
  BY <1>1, <1>2, <1>3 DEF InFlight
<1>8. NoTwins'
  BY <1>1, <1>2, <1>3 DEF RecordInv, EachOnce, NoTwins
<1>9. EachOnce'
  BY <1>1, <1>5, <1>7, <1>8 DEF RecordInv, EachOnce
<1>10. TalliesTrue'
  BY <1>1 DEF RecordInv, TalliesTrue, EndedAs
<1>11. QED
  BY <1>4, <1>6, <1>9, <1>10 DEF RecordInv

\* Collect takes the oldest record off the channel.
LEMMA ReceiveKeepsRecords ==
  ASSUME TypeOK, RecordInv, CollectStep, CollectReceive
  PROVE  RecordInv'
<1> USE DEF TypeOK, ChanTypeOK
<1>1. /\ UNCHANGED <<answer, started, rr, pc, reported, count, codes, errors, bytes>>
      /\ ~Updating /\ Updating'
      /\ Invoking' = Invoking
      /\ Sending' = Sending
  BY DEF CollectReceive, CollectStep, requesterVars, Updating, Invoking, Sending
<1>2. /\ 1 \in DOMAIN recordChan
      /\ held' = recordChan[1]
      /\ \A i \in DOMAIN recordChan' : /\ i + 1 \in DOMAIN recordChan /\ i + 1 # 1
                                       /\ recordChan'[i] = recordChan[i + 1]
      /\ \A i \in DOMAIN recordChan : i = 1 \/ i - 1 \in DOMAIN recordChan'
      /\ \A i \in DOMAIN recordChan : i \in Nat
      /\ \A i \in DOMAIN recordChan' : i \in Nat
  BY DEF CollectReceive, Receive, CanReceive
<1>3. InvokeInv'
  BY <1>1 DEF RecordInv, InvokeInv
<1>4. Answered' = Answered
  BY <1>1 DEF Answered
<1>5. CarryInv'
  BY <1>1, <1>2, <1>4 DEF RecordInv, CarryInv, Carries
<1>6. InFlight' = InFlight
  <2>1. \A x : (\E i \in DOMAIN recordChan : x = recordChan[i].req)
                 <=> x = held'.req \/ \E i \in DOMAIN recordChan' : x = recordChan'[i].req
    <3>1. TAKE x
    <3>2. ASSUME NEW i \in DOMAIN recordChan, x = recordChan[i].req, x # held'.req
          PROVE  \E j \in DOMAIN recordChan' : x = recordChan'[j].req
      <4>1. i # 1 /\ i - 1 \in DOMAIN recordChan'
        BY <1>2, <3>2
      <4>2. recordChan'[i - 1] = recordChan[i]
        BY <1>2, <4>1
      <4>3. QED
        BY <3>2, <4>1, <4>2
    <3>3. QED
      BY <1>2, <3>2
  <2>2. {recordChan[i].req : i \in DOMAIN recordChan}
          = {held'.req} \cup {recordChan'[i].req : i \in DOMAIN recordChan'}
    <3>1. \A x : x \in {recordChan[i].req : i \in DOMAIN recordChan}
                   <=> x \in {held'.req} \cup {recordChan'[i].req : i \in DOMAIN recordChan'}
      BY <2>1, ZenonT(40)
    <3>2. QED
      BY <3>1, Zenon
  <2>3. QED
    BY <1>1, <2>2 DEF InFlight
<1>7. NoTwins'
  <2>1. \A i \in DOMAIN recordChan' : recordChan'[i].req # held'.req
    BY <1>2 DEF RecordInv, EachOnce, NoTwins
  <2>2. ASSUME NEW i \in DOMAIN recordChan', NEW j \in DOMAIN recordChan',
               recordChan'[i].req = recordChan'[j].req
        PROVE  i = j
    <3>1. recordChan[i + 1].req = recordChan[j + 1].req
      BY <1>2, <2>2
    <3>2. i + 1 = j + 1
      BY <1>2, <3>1 DEF RecordInv, EachOnce, NoTwins
    <3>3. i \in Nat /\ j \in Nat
      BY <1>2
    <3>4. QED
      BY <3>2, <3>3
  <2>3. \A v \in Sending : /\ rr[v].req # held'.req
                           /\ \A i \in DOMAIN recordChan' : rr[v].req # recordChan'[i].req
    BY <1>2 DEF RecordInv, EachOnce, NoTwins
  <2>4. QED
    BY <1>1, <2>1, <2>2, <2>3 DEF RecordInv, EachOnce, NoTwins
<1>8. EachOnce'
  BY <1>1, <1>4, <1>6, <1>7 DEF RecordInv, EachOnce
<1>9. TalliesTrue'
  BY <1>1 DEF RecordInv, TalliesTrue, EndedAs
<1>10. QED
  BY <1>3, <1>5, <1>8, <1>9 DEF RecordInv

\* What a record says is how its request ended.
LEMMA CarriesTruth ==
  ASSUME NEW r, Carries(r)
  PROVE  /\ r.req \in Requests
         /\ answer[r.req] \in Statuses <=> r.code # NoStatus
         /\ r.code # NoStatus => r.code = answer[r.req]
         /\ answer[r.req] \in Results <=> r.bytes = 1
         /\ r.bytes \in {0, 1}
         /\ answer[r.req] = "failed" <=> r.error # NoError
<1>1. r.req \in Requests /\ answer[r.req] \in Reported
  BY DEF Carries, Answered
<1>2. "failed" \notin Results /\ NoStatus \in Results /\ NoStatus \notin Statuses
  BY EndingsAssumption, StatusesAssumption DEF Results
<1>3. r = Filled(Fresh(r.req), answer[r.req])
  BY DEF Carries
<1>4. CASE answer[r.req] \in Results
  <2>1. r.code = answer[r.req] /\ r.bytes = 1 /\ r.error = NoError
    BY <1>3, <1>4 DEF Filled, Fresh, NewRecord
  <2>2. QED
    BY <1>1, <1>2, <1>4, <2>1 DEF Results
<1>5. CASE answer[r.req] = "failed"
  <2>1. r.code = NoStatus /\ r.bytes = 0 /\ r.error = "failed"
    BY <1>2, <1>3, <1>5 DEF Filled, Fresh, NewRecord
  <2>2. QED
    BY <1>1, <1>2, <1>5, <2>1 DEF Results, NoError
<1>6. QED
  BY <1>1, <1>4, <1>5 DEF Reported

\* Reporting one more request moves the count of those that ended so.
LEMMA OneMore ==
  ASSUME NEW S, NEW q, reported \subseteq Requests, q \notin reported,
         reported' = reported \cup {q}, answer' = answer
  PROVE  Cardinality(EndedAs(S)') =
           IF answer[q] \in S THEN Cardinality(EndedAs(S)) + 1 ELSE Cardinality(EndedAs(S))
<1>1. IsFiniteSet(EndedAs(S))
  <2>1. IsFiniteSet(Requests)
    BY MaxRequestsAssumption, FS_Interval DEF Requests
  <2>2. EndedAs(S) \in SUBSET Requests
    BY DEF EndedAs
  <2>3. QED
    BY <2>1, <2>2, FS_Subset
<1>2. CASE answer[q] \in S
  <2>1. EndedAs(S)' = EndedAs(S) \cup {q} /\ q \notin EndedAs(S)
    BY <1>2 DEF EndedAs
  <2>2. QED
    BY <1>1, <1>2, <2>1, FS_AddElement
<1>3. CASE answer[q] \notin S
  <2>1. EndedAs(S)' = EndedAs(S)
    BY <1>3 DEF EndedAs
  <2>2. QED
    BY <1>3, <2>1
<1>4. QED
  BY <1>2, <1>3

\* Collect adds the record it holds to the report.
LEMMA UpdateKeepsRecords ==
  ASSUME TypeOK, RecordInv, CollectStep, CollectUpdate
  PROVE  RecordInv'
<1> DEFINE q == held.req
<1> USE DEF TypeOK, ReportTypeOK
<1>1. /\ UNCHANGED <<answer, started, rr, pc, recordChan>>
      /\ Updating /\ ~Updating'
      /\ Invoking' = Invoking
      /\ Sending' = Sending
      /\ reported' = reported \cup {q}
  BY DEF CollectUpdate, Put, CollectStep, requesterVars, Updating, Invoking, Sending
<1>2. Carries(held)
  BY <1>1 DEF RecordInv, CarryInv
<1>3. q \in InFlight /\ q \notin reported
  BY <1>1 DEF RecordInv, EachOnce, InFlight
<1>4. reported \subseteq Requests
  BY DEF RecordInv, EachOnce, Answered
<1>5. InvokeInv'
  BY <1>1 DEF RecordInv, InvokeInv
<1>6. Answered' = Answered
  BY <1>1 DEF Answered
<1>7. CarryInv'
  BY <1>1, <1>6 DEF RecordInv, CarryInv, Carries
<1>8. InFlight' = InFlight \ {q} /\ NoTwins'
  BY <1>1 DEF RecordInv, EachOnce, InFlight, NoTwins
<1>9. EachOnce'
  BY <1>1, <1>3, <1>6, <1>8 DEF RecordInv, EachOnce
<1>10. TalliesTrue'
  <2>1. count' = Cardinality(reported')
    <3>1. IsFiniteSet(reported)
      <4>1. IsFiniteSet(Requests)
        BY MaxRequestsAssumption, FS_Interval DEF Requests
      <4>2. QED
        BY <1>4, <4>1, FS_Subset
    <3>2. QED
      BY <1>1, <1>3, <3>1, FS_AddElement DEF CollectUpdate, RecordInv, TalliesTrue
  <2>2. ASSUME NEW S
        PROVE  Cardinality(EndedAs(S)') =
                 IF answer[q] \in S THEN Cardinality(EndedAs(S)) + 1 ELSE Cardinality(EndedAs(S))
    BY <1>1, <1>3, <1>4, OneMore
  <2>3. \A c \in Statuses : codes'[c] = Cardinality(EndedAs({c})')
    <3>1. SUFFICES ASSUME NEW c \in Statuses
                   PROVE  codes'[c] = Cardinality(EndedAs({c})')
      OBVIOUS
    <3>2. codes'[c] = IF answer[q] = c THEN codes[c] + 1 ELSE codes[c]
      BY <1>2, CarriesTruth, StatusesAssumption DEF CollectUpdate
    <3>3. codes[c] = Cardinality(EndedAs({c}))
      BY DEF RecordInv, TalliesTrue
    <3>4. QED
      BY <2>2, <3>2, <3>3
  <2>4. errors' = Cardinality(EndedAs({"failed"})')
    <3>1. errors' = IF answer[q] = "failed" THEN errors + 1 ELSE errors
      BY <1>2, CarriesTruth DEF CollectUpdate
    <3>2. errors = Cardinality(EndedAs({"failed"}))
      BY DEF RecordInv, TalliesTrue
    <3>3. QED
      BY <2>2, <3>1, <3>2
  <2>5. bytes' = Cardinality(EndedAs(Results)')
    <3>1. bytes' = IF answer[q] \in Results THEN bytes + 1 ELSE bytes
      BY <1>2, CarriesTruth DEF CollectUpdate
    <3>2. bytes = Cardinality(EndedAs(Results))
      BY DEF RecordInv, TalliesTrue
    <3>3. QED
      BY <2>2, <3>1, <3>2
  <2>6. QED
    BY <2>1, <2>3, <2>4, <2>5 DEF TalliesTrue, EndedAs
<1>11. QED
  BY <1>5, <1>7, <1>9, <1>10 DEF RecordInv

-----------------------------------------------------------------------------
(* All steps *)

LEMMA RecordNext == TypeOK /\ WgInv /\ RecordInv /\ [Next]_vars => RecordInv'
<1> SUFFICES ASSUME TypeOK, WgInv, RecordInv, [Next]_vars PROVE RecordInv'
  OBVIOUS
<1> USE DEF recordVars, Invoking, Sending, Updating
<1>1. CASE UNCHANGED vars
  <2>1. UNCHANGED <<recordVars, pc, collect>>
    BY <1>1 DEF vars, chanVars, requesterVars, reportVars, collectVars
  <2>2. QED
    BY <2>1, RecordFrame
<1>2. CASE Main \/ Chart \/ TimerStep \/ SecondsStep \/ Signal \/ SignalCancels \/ SignalExits
  <2>1. UNCHANGED <<recordVars, pc>>
    BY <1>2
    DEF Main, MainStart, Echo, EchoFormat, PrintDone, FinalEcho, FinalFormat, MainExit,
        Snapshot, Format, Chart, ChartTick, ChartWrite, ChartDone, TimerStep, TimerFires,
        SecondsStep, Seconds, SecondTick, SecondsOver, Signal, SignalCancels, SignalExits,
        ReceiveSignal, HandleFirstSignal, HandleLaterSignal, chanVars, requesterVars,
        reportVars, collectVars, workerVars
  <2>2. Updating' = Updating
    BY <1>2
    DEF Main, MainStart, Echo, EchoFormat, PrintDone, FinalEcho, FinalFormat, MainExit,
        Snapshot, Format, Chart, ChartTick, ChartWrite, ChartDone, TimerStep, TimerFires,
        SecondsStep, Seconds, SecondTick, SecondsOver, Signal, SignalCancels, SignalExits,
        ReceiveSignal, HandleFirstSignal, HandleLaterSignal, reportVars, collectVars, WgInv
  <2>3. QED
    BY <2>1, <2>2, RecordFrame
<1>3. CASE RunStep \/ GenStep
  <2>1. UNCHANGED <<recordVars, collect>>
    BY <1>3
    DEF RunStep, Run, RunBegin, RunSpawn, RunSpawned, RunWait, RunCancel, RunClose, CloseChan,
        GenStep, GenerateTokens, GenSpawn, GenUpTick, GenKeep, GenDown, GenLast, chanVars,
        reportVars, collectVars, workerVars
  <2>2. UNCHANGED pc \/ (StartWorker /\ spawned < Goroutines)
    BY <1>3
    DEF RunStep, Run, RunBegin, RunSpawn, RunSpawned, RunWait, RunCancel, RunClose,
        GenStep, GenerateTokens, GenSpawn, GenUpTick, GenKeep, GenDown, GenLast
  <2>3. CASE UNCHANGED pc
    BY <2>1, <2>3, RecordFrame
  <2>4. CASE StartWorker /\ spawned < Goroutines
    <3>1. spawned \in Workers /\ pc[spawned] = "idle" /\ pc' = [pc EXCEPT ![spawned] = "enter"]
      BY <2>4, GoroutinesAssumption
      DEF StartWorker, WgInv, Workers, TypeOK, RequesterTypeOK
    <3>2. Invoking' = Invoking /\ Sending' = Sending
      BY <3>1 DEF TypeOK, RequesterTypeOK
    <3>3. QED
      BY <2>1, <3>2, RecordFrame
  <2>5. QED
    BY <2>2, <2>3, <2>4
<1>4. ASSUME NEW w \in Workers, Worker(w) PROVE RecordInv'
  <2>1. CASE Begin(w)
    BY <1>4, <2>1, BeginKeepsRecords
  <2>2. CASE \E e \in Endings : Invoked(w, e)
    BY <1>4, <2>2, InvokedKeepsRecords
  <2>3. CASE SendRecord(w)
    BY <1>4, <2>3, SendKeepsRecords
  <2>4. CASE Enter(w) \/ Acquire(w) \/ Stop(w) \/ WgDone(w) \/ Leave(w)
    <3>1. UNCHANGED <<recordVars, collect>>
      BY <1>4, <2>4
      DEF Worker, Enter, Acquire, Stop, WgDone, Leave, workerVars, chanVars, reportVars,
          collectVars
    <3>2. Invoking' = Invoking /\ Sending' = Sending
      BY <2>4 DEF Enter, Acquire, Stop, WgDone, Leave, Goto, TypeOK, RequesterTypeOK
    <3>3. QED
      BY <3>1, <3>2, RecordFrame
  <2>5. QED
    BY <1>4, <2>1, <2>2, <2>3, <2>4 DEF Worker, LoopWork
<1>5. CASE CollectStep
  <2>1. CASE CollectReceive
    BY <1>5, <2>1, ReceiveKeepsRecords
  <2>2. CASE CollectUpdate
    BY <1>5, <2>2, UpdateKeepsRecords
  <2>3. CASE CollectBegin \/ CollectDone
    <3>1. UNCHANGED <<recordVars, pc>> /\ Updating' = Updating
      BY <1>5, <2>3 DEF CollectStep, CollectBegin, CollectDone, chanVars, requesterVars
    <3>2. QED
      BY <3>1, RecordFrame
  <2>4. QED
    BY <1>5, <2>1, <2>2, <2>3 DEF CollectStep, Collect
<1>6. QED
  BY <1>1, <1>2, <1>3, <1>4, <1>5 DEF Next, Ended, Step

LEMMA RecordCorrect == Spec => []RecordInv
<1>1. Init => RecordInv
  BY RecordInit
<1>2. TypeOK /\ WgInv /\ RecordInv /\ [Next]_vars => RecordInv'
  BY RecordNext
<1>3. QED
  BY <1>1, <1>2, TypeCorrect, WgCorrect, PTL DEF Spec

\* Between Invoke and the report no record is lost, doubled or made up.
THEOREM RecordedOnce == Spec => []EachOnce
<1>1. RecordInv => EachOnce
  BY DEF RecordInv
<1>2. QED
  BY <1>1, RecordCorrect, PTL

\* The tallies of the report are how the reported requests ended, although
\* the records that carried the answers are recycled.
THEOREM TalliesCorrect == Spec => []TalliesTrue
<1>1. RecordInv => TalliesTrue
  BY DEF RecordInv
<1>2. QED
  BY <1>1, RecordCorrect, PTL
=============================================================================

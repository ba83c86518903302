------------------------------- MODULE Bench -------------------------------
(***************************************************************************)
(* A run of the benchmark: StartBench (src/berf.go), the terminal printer  *)
(* (PrintLoop, src/print.go), the chart collector (collectChartData) and   *)
(* the life of the process, composed with the Requester and StreamReport.  *)
(***************************************************************************)
EXTENDS Requester, StreamReport

CONSTANTS
    NoReport,   \* BenchOption.NoReport: print nothing but wait for the end
    Nop         \* -f nop: collect hardware metrics only

ASSUME BenchFlagsAssumption == {NoReport, Nop} \subseteq BOOLEAN

VARIABLES
    main,    \* where StartBench is, or how the process ended
    shown,   \* the last snapshot printed: its count and the concurrency
    chart    \* where collectChartData is

mainVars == <<main, shown, chart>>
vars == <<chanVars, requesterVars, reportVars, mainVars>>

MainPCs == {"start", "print", "format", "final", "formatFinal", "wait", "exited", "killed"}

MainTypeOK ==
    /\ main \in MainPCs
    /\ shown \in [count : Nat, concurrent : Int]
    /\ chart \in {"select", "write", "done"}

TypeOK == ChanTypeOK /\ RequesterTypeOK /\ ReportTypeOK /\ MainTypeOK

\* Init stands after serveCharts, which starts collectChartData.
Init ==
    /\ ChanInit
    /\ RequesterInit
    /\ ReportInit
    /\ main = "start"
    /\ shown = [count |-> 0, concurrent |-> 0]
    /\ chart = "select"

\* The process runs: StartBench has not returned and nobody called os.Exit.
Alive == main \notin {"exited", "killed"}

-----------------------------------------------------------------------------
(* StartBench and PrintLoop *)

\* go requester.run(); go report.Collect(...).  With nop, <-requester.ctx.Done()
\* comes first, though only run() starts anything that cancels that context.
MainStart ==
    /\ main = "start"
    /\ Nop => ctxDone
    /\ main' = "print"
    /\ run' = "begin"
    /\ collect' = "begin"
    /\ UNCHANGED <<chanVars, ctxDone, semaphore, wg, concurrent, spawned, timer, sigs,
                   handled, signals, gen, keep, top, pc, rr, started, answer,
                   held, count, codes, errors, bytes, reported, temp, secVars, shown, chart>>

\* echo calls snapshot ...
Snapshot(l) ==
    /\ main' = l
    /\ shown' = [shown EXCEPT !.count = count]
    /\ UNCHANGED <<chanVars, requesterVars, reportVars, chart>>

\* ... and then formats it; the concurrency, read at that time, is shown in
\* the incremental mode only.
Format(l) ==
    /\ main' = l
    /\ shown' = [shown EXCEPT !.concurrent = IF Incr /\ N # 1 THEN concurrent ELSE 0]
    /\ UNCHANGED <<chanVars, requesterVars, reportVars, chart>>

Echo       == main = "print" /\ ~NoReport /\ N # 1 /\ Snapshot("format")
EchoFormat == main = "format" /\ Format("print")

\* <-doneChan
PrintDone ==
    /\ main = "print" /\ DoneClosed
    /\ main' = IF NoReport THEN "wait" ELSE "final"
    /\ UNCHANGED <<chanVars, requesterVars, reportVars, shown, chart>>

FinalEcho   == main = "final" /\ Snapshot("formatFinal")
FinalFormat == main = "formatFinal" /\ Format("wait")

\* wg.Wait(), fn.Final() and the return to main()
MainExit ==
    /\ main = "wait" /\ chart = "done"
    /\ main' = "exited"
    /\ UNCHANGED <<chanVars, requesterVars, reportVars, shown, chart>>

Main == MainStart \/ Echo \/ EchoFormat \/ PrintDone \/ FinalEcho \/ FinalFormat \/ MainExit

-----------------------------------------------------------------------------
(* collectChartData *)

\* <-ticker.C and chartsFn(), which gives nil when a second went by in vain.
ChartTick ==
    /\ chart = "select" /\ ~noDateWithinSec
    /\ chart' = "write"
    /\ UNCHANGED <<chanVars, requesterVars, reportVars, main, shown>>

\* c.PlotsHandle.WriteJSON(plots)
ChartWrite ==
    /\ chart = "write"
    /\ chart' = "select"
    /\ UNCHANGED <<chanVars, requesterVars, reportVars, main, shown>>

\* <-ctx.Done(), and the deferred Close and wg.Done
ChartDone ==
    /\ chart = "select" /\ ctxDone
    /\ chart' = "done"
    /\ UNCHANGED <<chanVars, requesterVars, reportVars, main, shown>>

Chart == ChartTick \/ ChartWrite \/ ChartDone

-----------------------------------------------------------------------------
(* Signals and the end of the process *)

\* A signal that arrives before signal.Notify has its default effect.
Signal ==
    /\ ReceiveSignal
    /\ main' = IF Installed THEN main ELSE "killed"
    /\ UNCHANGED <<reportVars, shown, chart>>

SignalCancels == HandleFirstSignal /\ UNCHANGED <<reportVars, mainVars>>

\* os.Exit(-1)
SignalExits ==
    /\ HandleLaterSignal
    /\ main' = "killed"
    /\ UNCHANGED <<reportVars, shown, chart>>

\* A process that has ended stays so.
Ended == ~Alive /\ UNCHANGED vars

RunStep     == Run /\ UNCHANGED <<reportVars, mainVars>>
TimerStep   == TimerFires /\ UNCHANGED <<reportVars, mainVars>>
GenStep     == GenerateTokens /\ UNCHANGED <<reportVars, mainVars>>
Worker(w)   == LoopWork(w) /\ UNCHANGED <<reportVars, mainVars>>
Quit(w)     == Stop(w) /\ UNCHANGED <<reportVars, mainVars>>
CollectStep == Collect /\ UNCHANGED <<requesterVars, mainVars>>
SecondsStep == Seconds /\ UNCHANGED <<requesterVars, mainVars>>

Step ==
    \/ Main \/ Chart
    \/ RunStep \/ TimerStep \/ GenStep
    \/ \E w \in Workers : Worker(w)
    \/ CollectStep \/ SecondsStep
    \/ Signal \/ SignalCancels \/ SignalExits

Next == (Alive /\ Step) \/ Ended

(***************************************************************************)
(* Every goroutine that can run is scheduled, the duration passes, tickers *)
(* tick and Invoke returns.  Where a select waits for the end and for a    *)
(* ticker, Go picks among the ready cases at random, so the end cannot be  *)
(* passed over for ever: that is strong fairness of PrintDone, ChartDone   *)
(* and Stop.  Nobody has to send a signal, and no echo is due before the   *)
(* end.                                                                    *)
(***************************************************************************)
Fairness ==
    /\ WF_vars(Alive /\ (MainStart \/ EchoFormat \/ FinalEcho \/ FinalFormat \/ MainExit))
    /\ SF_vars(Alive /\ PrintDone)
    /\ WF_vars(Alive /\ ChartWrite)
    /\ SF_vars(Alive /\ ChartDone)
    /\ WF_vars(Alive /\ RunStep)
    /\ WF_vars(Alive /\ TimerStep)
    /\ WF_vars(Alive /\ GenStep)
    /\ \A w \in Workers : WF_vars(Alive /\ Worker(w)) /\ SF_vars(Alive /\ Quit(w))
    /\ WF_vars(Alive /\ CollectStep)
    /\ WF_vars(Alive /\ (SignalCancels \/ SignalExits))

Spec == Init /\ [][Next]_vars /\ Fairness

-----------------------------------------------------------------------------
(* Properties *)

Sending  == {w \in Workers : pc[w] = "send"}
Updating == collect = "update"

\* The requests whose record is on its way to the report.
InFlight ==
    {rr[w].req : w \in Sending}
        \cup {recordChan[i].req : i \in DOMAIN recordChan}
        \cup (IF Updating THEN {held.req} ELSE {})

Answered   == {q \in Requests : answer[q] \in Reported}
EndedAs(S) == {q \in reported : answer[q] \in S}

\* No two records in flight are for the same request.
NoTwins ==
    /\ \A v, w \in Sending : rr[v].req = rr[w].req => v = w
    /\ \A i, j \in DOMAIN recordChan : recordChan[i].req = recordChan[j].req => i = j
    /\ \A w \in Sending, i \in DOMAIN recordChan : rr[w].req # recordChan[i].req
    /\ Updating => /\ \A w \in Sending : rr[w].req # held.req
                   /\ \A i \in DOMAIN recordChan : recordChan[i].req # held.req

\* No record is lost, duplicated or made up between Invoke and the report: at
\* every moment the answered requests are those in flight and those reported.
EachOnce ==
    /\ Answered = reported \cup InFlight
    /\ reported \cap InFlight = {}
    /\ NoTwins

\* The tallies say how the reported requests ended, one by one.  Records are
\* recycled, so this is what ReportRecord.Reset is for: a record that failed
\* on an earlier trip must not count as an error, nor its bytes, again.
TalliesTrue ==
    /\ count = Cardinality(reported)
    /\ \A c \in Statuses : codes[c] = Cardinality(EndedAs({c}))
    /\ errors = Cardinality(EndedAs({"failed"}))
    /\ bytes = Cardinality(EndedAs(Results))

\* With -n the count never exceeds it, whatever the workers do with the
\* semaphore: updateProgressValue would ask strings.Repeat for a negative
\* number of blanks, which panics.
BarLen(c) == (c * 38 + N \div 2) \div N
BarFits   == N > 0 => BarLen(shown.count) <= 38

\* Nobody sends on recordChan once run() has closed it (that panics), and the
\* workers that run() waited for have left their loop.
NoSendOnClosed ==
    closed => \A w \in Workers : pc[w] \in {"idle", "leave", "over"}

\* When Collect closes doneChan, which ends PrintLoop, every request that was
\* started has ended and is in the report; the final echo shows them all.
FinalReportComplete ==
    /\ DoneClosed => /\ \A q \in 1 .. started : answer[q] # Pending
                     /\ reported = Answered
    /\ main \in {"formatFinal", "wait", "exited"} /\ ~NoReport
         => shown.count = Cardinality(Answered)

\* The run was neither interrupted nor short of input.
Undisturbed ==
    handled = 0 /\ timer # "fired" /\ \A q \in Requests : answer[q] # "EOF"

\* An undisturbed run of -n requests reports exactly n of them.
AllRequestsRun ==
    DoneClosed /\ N > 0 /\ Goroutines > 0 /\ Undisturbed => count = N

\* The window of the charts: its latencies and its rate cover the same records,
\* and what the next window holds is what came since the last one was closed.
WindowConsistent ==
    /\ temp + lastCount = count
    /\ latencyWithinSec = rpsWithinSec
    /\ latencyWithinSec <= lastCount

\* A worker takes at most one ticket too many, so the semaphore stays close to
\* zero however long the others go on.
SemaphoreBounded == semaphore >= -Goroutines

\* Every run that has an end, by -n, by -d or by a signal, comes to it.
Termination == N > 0 \/ HasDuration => <>~Alive
SignalEnds  == handled = 1 ~> ~Alive

Promise == INSTANCE BenchPromise WITH
    Endings <- Reported,
    Failed  <- "failed",
    answers <- [q \in Requests |-> IF answer[q] \in Reported THEN answer[q] ELSE Pending],
    status  <- IF main = "killed" THEN "killed" ELSE IF DoneClosed THEN "over" ELSE "running"

\* What the benchmark promises, whatever goes on inside: see BenchPromise.
KeepsPromise == Promise!Spec

\* -ci up:dur:down, "down to 0 by step1" (src/berf.go): a worker whose context
\* generateTokens has cancelled starts no other request.
DownStopsWorkers ==
    [][\A w \in Workers : w >= top /\ pc[w] = "throttle" => pc'[w] # "invoke"]_vars

\* The summary of the README shows "Concurrent 0" at the end of a run: the
\* workers have left before the last snapshot is formatted.
FinalConcurrentZero == main \in {"wait", "exited"} => shown.concurrent = 0
=============================================================================

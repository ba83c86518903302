----------------------------- MODULE Requester -----------------------------
(***************************************************************************)
(* The Requester of src/requester.go: run() and the goroutines it starts,  *)
(* which are the signal handler, the duration timer, the generator of the  *)
(* incremental mode (-ci) and one loopWork per worker.                     *)
(*                                                                         *)
(* Time is not modelled: a tick of a ticker, the end of the duration and   *)
(* the answer of a target come at any moment.                              *)
(***************************************************************************)
EXTENDS RecordChan, Integers, FiniteSets

CONSTANTS
    N,            \* -n, the number of requests; 0 for no limit
    Goroutines,   \* -c, the number of workers
    QPS,          \* -qps is given: the throttle waits for a ticker
    HasDuration,  \* -d is given: a timer cancels the context
    Up, Down,     \* -ci up:dur:down; 0, 0 when it is not given
    HasEOF,       \* the Benchable can run out of input
    MaxSignals    \* bound on the signals one behaviour receives

ASSUME NAssumption == N \in Nat /\ N <= MaxRequests
ASSUME GoroutinesAssumption == Goroutines \in Nat
ASSUME IncrAssumption == Up \in Nat /\ Down \in Nat
ASSUME FlagsAssumption == {QPS, HasDuration, HasEOF} \subseteq BOOLEAN
ASSUME MaxSignalsAssumption == MaxSignals \in Nat

Workers == 0 .. Goroutines - 1
Incr    == Up > 0 \/ Down > 0

\* How a request ends.  Pending is a request without an answer yet, "EOF" an
\* Invoke that returned io.EOF, "failed" one that returned another error.
Endings  == Results \cup {"failed"} \cup (IF HasEOF THEN {"EOF"} ELSE {})
Pending  == "pending"
Reported == Results \cup {"failed"}   \* the endings a record is sent for

ASSUME EndingsAssumption == {"failed", "EOF", "pending"} \cap Results = {}

VARIABLES
    ctxDone,     \* r.ctx is cancelled
    semaphore,   \* the counter loopWork takes a ticket from
    wg,          \* the counter of r.wg
    concurrent,  \* r.concurrent
    run,         \* where run() is
    spawned,     \* the workers started so far: 0 .. spawned - 1
    timer,       \* time.AfterFunc(r.duration, ...): off, armed or fired
    sigs,        \* a signal waits in sigs, a channel of capacity 1
    handled,     \* i of the signal goroutine, up to 1
    signals,     \* history: the signals received
    gen,         \* where generateTokens is
    keep,        \* ticks keepTimes(t.C, 3) has still to take
    top,         \* the contexts top, top + 1, ... have been cancelled
    pc,          \* where the loopWork of each worker is
    rr,          \* the record each worker holds
    started,     \* history: the requests started, 1 .. started
    answer       \* history: how each request ended

requesterVars == <<ctxDone, semaphore, wg, concurrent, run, spawned, timer,
                   sigs, handled, signals, gen, keep, top, pc, rr, started, answer>>

RunPCs == {"none", "begin", "spawn", "wait", "cancel", "close", "over"}
GenPCs == {"none", "up", "upTick", "keep", "down", "last", "closed"}
PCs    == {"idle", "enter", "acquire", "throttle", "invoke", "send", "done", "leave", "over"}

RequesterTypeOK ==
    /\ ctxDone \in BOOLEAN
    /\ semaphore \in Int
    /\ wg \in Int
    /\ concurrent \in Int
    /\ run \in RunPCs
    /\ spawned \in 0 .. Goroutines
    /\ timer \in {"off", "armed", "fired"}
    /\ sigs \in BOOLEAN
    /\ handled \in 0 .. 1
    /\ signals \in 0 .. MaxSignals
    /\ gen \in GenPCs
    /\ keep \in 0 .. 3
    /\ top \in 0 .. Goroutines
    /\ pc \in [Workers -> PCs]
    /\ rr \in [Workers -> Record]
    /\ started \in 0 .. MaxRequests
    /\ answer \in [Requests -> Endings \cup {Pending}]

RequesterInit ==
    /\ ctxDone = FALSE
    /\ semaphore = 0
    /\ wg = 0
    /\ concurrent = 0
    /\ run = "none"
    /\ spawned = 0
    /\ timer = "off"
    /\ sigs = FALSE
    /\ handled = 0
    /\ signals = 0
    /\ gen = "none"
    /\ keep = 3
    /\ top = Goroutines
    /\ pc = [w \in Workers |-> "idle"]
    /\ rr = [w \in Workers |-> NewRecord]
    /\ started = 0
    /\ answer = [q \in Requests |-> Pending]

workerVars == <<semaphore, concurrent, rr, started, answer>>
signalVars == <<sigs, handled, signals>>
genVars    == <<gen, keep, top>>

-----------------------------------------------------------------------------
(* run() *)

\* Install the signal handler, arm the timer, fill the semaphore and, in the
\* incremental mode, start generateTokens.
RunBegin ==
    /\ run = "begin"
    /\ run' = "spawn"
    /\ timer' = IF HasDuration THEN "armed" ELSE "off"
    /\ semaphore' = N
    /\ gen' = IF ~Incr THEN "none" ELSE IF Goroutines = 0 THEN "keep" ELSE "up"
    /\ UNCHANGED <<ctxDone, wg, concurrent, spawned, signalVars, keep, top, pc, rr,
                   started, answer, chanVars>>

\* Mutant: r.wg.Add is forgotten.
StartUncounted ==
    /\ wg' = wg
    /\ pc' = [pc EXCEPT ![spawned] = "enter"]
    /\ spawned' = spawned + 1

\* r.wg.Add(1); go r.loopWork(...)
StartWorker ==
    /\ wg' = wg + 1
    /\ pc' = [pc EXCEPT ![spawned] = "enter"]
    /\ spawned' = spawned + 1

RunSpawn ==
    /\ run = "spawn" /\ ~Incr /\ spawned < Goroutines
    /\ StartWorker
    /\ UNCHANGED <<ctxDone, run, timer, signalVars, genVars, workerVars, chanVars>>

\* The for loop ends, or the range over ch does when the generator closes ch.
RunSpawned ==
    /\ run = "spawn"
    /\ IF Incr THEN gen = "closed" ELSE spawned = Goroutines
    /\ run' = "wait"
    /\ UNCHANGED <<ctxDone, wg, spawned, timer, signalVars, genVars, pc, workerVars, chanVars>>

\* Mutant: run() does not wait for the workers.
RunWaitNot ==
    /\ run = "wait"
    /\ run' = "cancel"
    /\ UNCHANGED <<ctxDone, wg, spawned, timer, signalVars, genVars, pc, workerVars, chanVars>>

\* r.wg.Wait() returns.
RunWait ==
    /\ run = "wait" /\ wg = 0
    /\ run' = "cancel"
    /\ UNCHANGED <<ctxDone, wg, spawned, timer, signalVars, genVars, pc, workerVars, chanVars>>

\* Mutant: run() ends without r.ctxCancelFunc().
RunCancelNot ==
    /\ run = "cancel"
    /\ run' = "close"
    /\ UNCHANGED <<ctxDone, wg, spawned, timer, signalVars, genVars, pc, workerVars, chanVars>>

RunCancel ==
    /\ run = "cancel"
    /\ run' = "close"
    /\ ctxDone' = TRUE
    /\ UNCHANGED <<wg, spawned, timer, signalVars, genVars, pc, workerVars, chanVars>>

RunClose ==
    /\ run = "close"
    /\ run' = "over"
    /\ CloseChan
    /\ UNCHANGED <<ctxDone, wg, spawned, timer, signalVars, genVars, pc, workerVars>>

TimerFires ==
    /\ timer = "armed"
    /\ timer' = "fired"
    /\ ctxDone' = TRUE
    /\ UNCHANGED <<wg, run, spawned, signalVars, genVars, pc, workerVars, chanVars>>

-----------------------------------------------------------------------------
(* Signals.  Installed says whether signal.Notify has been called: before  *)
(* it a signal kills the process, which Bench models.                       *)

Installed == run \notin {"none", "begin"}

ReceiveSignal ==
    /\ signals < MaxSignals
    /\ signals' = signals + 1
    /\ sigs' = Installed
    /\ UNCHANGED <<ctxDone, wg, run, spawned, timer, handled, genVars, pc, workerVars, chanVars>>

\* Mutant: the first signal closes recordChan as well.
SignalClosesChan ==
    /\ sigs /\ handled = 0
    /\ sigs' = FALSE
    /\ handled' = 1
    /\ ctxDone' = TRUE
    /\ CloseChan
    /\ UNCHANGED <<wg, run, spawned, timer, signals, genVars, pc, workerVars>>

\* Mutant: the first signal is noted and nothing more.
SignalInVain ==
    /\ sigs /\ handled = 0
    /\ sigs' = FALSE
    /\ handled' = 1
    /\ UNCHANGED <<ctxDone, wg, run, spawned, timer, signals, genVars, pc, workerVars, chanVars>>

\* The first signal cancels the context.
HandleFirstSignal ==
    /\ sigs /\ handled = 0
    /\ sigs' = FALSE
    /\ handled' = 1
    /\ ctxDone' = TRUE
    /\ UNCHANGED <<wg, run, spawned, timer, signals, genVars, pc, workerVars, chanVars>>

\* Any later one calls os.Exit, which Bench models.
HandleLaterSignal ==
    /\ sigs /\ handled = 1
    /\ sigs' = FALSE
    /\ UNCHANGED <<ctxDone, wg, run, spawned, timer, handled, signals, genVars, pc,
                   workerVars, chanVars>>

-----------------------------------------------------------------------------
(* generateTokens: each "<-t.C" is a step that may happen at any time.      *)

\* ch <- ctx in the generator, the receive and StartWorker in run().  Up
\* contexts make a batch; with Up = 0 there is one batch and no tick after it.
GenSpawn ==
    /\ gen = "up" /\ run = "spawn" /\ spawned < Goroutines
    /\ StartWorker
    /\ gen' = IF Up > 0 /\ (spawned' = Goroutines \/ spawned' % Up = 0) THEN "upTick"
              ELSE IF spawned' = Goroutines THEN "keep" ELSE "up"
    /\ UNCHANGED <<ctxDone, run, timer, signalVars, keep, top, workerVars, chanVars>>

GenUpTick ==
    /\ gen = "upTick"
    /\ gen' = IF spawned < Goroutines THEN "up" ELSE "keep"
    /\ UNCHANGED <<ctxDone, wg, run, spawned, timer, signalVars, keep, top, pc,
                   workerVars, chanVars>>

\* keepTimes(t.C, 3)
GenKeep ==
    /\ gen = "keep" /\ keep > 0
    /\ keep' = keep - 1
    /\ gen' = IF keep' > 0 THEN "keep"
              ELSE IF Down = 0 THEN "closed"
              ELSE IF Goroutines = 0 THEN "last" ELSE "down"
    /\ UNCHANGED <<ctxDone, wg, run, spawned, timer, signalVars, top, pc, workerVars, chanVars>>

\* One tick, then the Down contexts at the top are cancelled.
GenDown ==
    /\ gen = "down"
    /\ top' = IF top > Down THEN top - Down ELSE 0
    /\ gen' = IF top' = 0 THEN "last" ELSE "down"
    /\ UNCHANGED <<ctxDone, wg, run, spawned, timer, signalVars, keep, pc, workerVars, chanVars>>

\* keepTimes(t.C, 1), then the deferred close(ch)
GenLast ==
    /\ gen = "last"
    /\ gen' = "closed"
    /\ UNCHANGED <<ctxDone, wg, run, spawned, timer, signalVars, keep, top, pc,
                   workerVars, chanVars>>

-----------------------------------------------------------------------------
(* loopWork.  Goto(w, l) moves the worker w to l.                           *)

runVars == <<ctxDone, run, spawned, timer, signalVars, genVars>>

Goto(w, l) == pc' = [pc EXCEPT ![w] = l]

\* atomic.AddInt64(&r.concurrent, 1)
Enter(w) ==
    /\ pc[w] = "enter"
    /\ Goto(w, "acquire")
    /\ concurrent' = concurrent + 1
    /\ UNCHANGED <<runVars, wg, semaphore, rr, started, answer, chanVars>>

\* Mutants: the ticket before the decrement is tested; the last ticket is
\* refused; a worker without a ticket tries again.
AcquireOneMore(w) ==
    /\ pc[w] = "acquire"
    /\ semaphore' = IF N > 0 THEN semaphore - 1 ELSE semaphore
    /\ Goto(w, IF N > 0 /\ semaphore < 0 THEN "done" ELSE "throttle")
    /\ UNCHANGED <<runVars, wg, concurrent, rr, started, answer, chanVars>>

AcquireOneLess(w) ==
    /\ pc[w] = "acquire"
    /\ semaphore' = IF N > 0 THEN semaphore - 1 ELSE semaphore
    /\ Goto(w, IF N > 0 /\ semaphore' <= 0 THEN "done" ELSE "throttle")
    /\ UNCHANGED <<runVars, wg, concurrent, rr, started, answer, chanVars>>

AcquireAgain(w) ==
    /\ pc[w] = "acquire"
    /\ semaphore' = IF N > 0 THEN semaphore - 1 ELSE semaphore
    /\ Goto(w, IF N > 0 /\ semaphore' < 0 THEN "acquire" ELSE "throttle")
    /\ UNCHANGED <<runVars, wg, concurrent, rr, started, answer, chanVars>>

\* r.n > 0 && atomic.AddInt64(semaphore, -1) < 0
Acquire(w) ==
    /\ pc[w] = "acquire"
    /\ semaphore' = IF N > 0 THEN semaphore - 1 ELSE semaphore
    /\ Goto(w, IF N > 0 /\ semaphore' < 0 THEN "done" ELSE "throttle")
    /\ UNCHANGED <<runVars, wg, concurrent, rr, started, answer, chanVars>>

\* throttle() returns true.  Without -qps it looks at the context; with it, a
\* tick may be taken though the context is cancelled as well: select picks either.
ThrottlePasses == QPS \/ ~ctxDone

\* The worker takes a record from the pool, resets it and calls Invoke.
\* MaxRequests is the model's bound, not the code's.
Begin(w) ==
    /\ pc[w] = "throttle"
    /\ ThrottlePasses
    /\ started < MaxRequests
    /\ started' = started + 1
    /\ \E got \in Pooled : rr' = [rr EXCEPT ![w] = [Reset(got) EXCEPT !.req = started + 1]]
    /\ Goto(w, "invoke")
    /\ UNCHANGED <<runVars, wg, semaphore, concurrent, answer, chanVars>>

\* throttle() returns false.
Stop(w) ==
    /\ pc[w] = "throttle" /\ ctxDone
    /\ Goto(w, "done")
    /\ UNCHANGED <<runVars, wg, workerVars, chanVars>>

\* What doRequest and runOne write to the record, unless Invoke returned io.EOF.
Filled(r, e) ==
    IF e \in Results THEN [r EXCEPT !.code = e, !.bytes = 1] ELSE [r EXCEPT !.error = e]

\* Mutant: the record of an io.EOF is sent like any other.
InvokedSendsEOF(w, e) ==
    /\ pc[w] = "invoke"
    /\ answer' = [answer EXCEPT ![rr[w].req] = e]
    /\ rr' = [rr EXCEPT ![w] = IF e = "EOF" THEN @ ELSE Filled(@, e)]
    /\ Goto(w, "send")
    /\ UNCHANGED <<runVars, wg, semaphore, concurrent, started, chanVars>>

\* Invoke returns; io.EOF ends the worker, who drops the record.
Invoked(w, e) ==
    /\ pc[w] = "invoke"
    /\ answer' = [answer EXCEPT ![rr[w].req] = e]
    /\ rr' = [rr EXCEPT ![w] = IF e = "EOF" THEN NewRecord ELSE Filled(@, e)]
    /\ Goto(w, IF e = "EOF" THEN "done" ELSE "send")
    /\ UNCHANGED <<runVars, wg, semaphore, concurrent, started, chanVars>>

\* Mutant: a full channel makes the worker drop the record.
SendOrDrop(w) ==
    /\ pc[w] = "send"
    /\ IF CanSend THEN Send(rr[w]) ELSE UNCHANGED chanVars
    /\ rr' = [rr EXCEPT ![w] = NewRecord]
    /\ Goto(w, "acquire")
    /\ UNCHANGED <<runVars, wg, semaphore, concurrent, started, answer>>

\* r.recordChan <- rr, then think and loop
SendRecord(w) ==
    /\ pc[w] = "send"
    /\ Send(rr[w])
    /\ rr' = [rr EXCEPT ![w] = NewRecord]
    /\ Goto(w, "acquire")
    /\ UNCHANGED <<runVars, wg, semaphore, concurrent, started, answer>>

\* the deferred r.wg.Done() ...
WgDone(w) ==
    /\ pc[w] = "done"
    /\ wg' = wg - 1
    /\ Goto(w, "leave")
    /\ UNCHANGED <<runVars, workerVars, chanVars>>

\* ... and then atomic.AddInt64(&r.concurrent, -1)
Leave(w) ==
    /\ pc[w] = "leave"
    /\ concurrent' = concurrent - 1
    /\ Goto(w, "over")
    /\ UNCHANGED <<runVars, wg, semaphore, rr, started, answer, chanVars>>

LoopWork(w) ==
    \/ Enter(w) \/ Acquire(w) \/ Begin(w) \/ Stop(w)
    \/ \E e \in Endings : Invoked(w, e)
    \/ SendRecord(w) \/ WgDone(w) \/ Leave(w)

Run == RunBegin \/ RunSpawn \/ RunSpawned \/ RunWait \/ RunCancel \/ RunClose

GenerateTokens == GenSpawn \/ GenUpTick \/ GenKeep \/ GenDown \/ GenLast
=============================================================================

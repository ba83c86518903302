------------------------------ MODULE Invoker ------------------------------
(***************************************************************************)
(* A request of the HTTP bench: Invoker.Run of pkg/blow/invoker.go, which  *)
(* every worker of the bench calls again and again on one shared Invoker.  *)
(* Bench.Init makes a first call of its own, for the profiles marked init. *)
(*                                                                         *)
(* The bytes of a request are not counted but named, by the number of the  *)
(* request, so that it can be told whose bytes a result reports.  The      *)
(* server answers with one of three status codes, or not at all.           *)
(***************************************************************************)
EXTENDS Upload, Dialer, Selections

CONSTANTS
    Width,     \* the counter of the round robin goes from 0 to Width - 1
    Chunks,    \* the chunks in the pipe of a multipart body of request items
    MaxCalls,  \* bound on the calls of Run without -n
    Nobody     \* no holder of the lock

ASSUME InvokerAssumption ==
    /\ Width \in Nat \ {0} /\ Chunks \in Nat /\ MaxCalls \in Nat
    /\ Nobody \notin Callers

Ways == {"read", "write"}

VARIABLES
    job,            \* per caller: the call of Run it is in
    phase,          \* of the process: Bench.Init, the workers, Bench.Final
    calls,          \* how many calls of Run the workers have begun
    asks,           \* how many requests were begun, which numbers them
    envHostsIndex,  \* the counter of the round robin
    picks,          \* history: the targets it gave
    lines,          \* how many lines were taken from bodyLinesChan
    pipe,           \* how many chunks were taken from pieBody.Body
    profiles,       \* opt.profiles, which the initial Run writes
    valued,         \* the variables registered with Valuer
    inits,          \* history: the variables in answers to init profiles
    unset,          \* history: requests that evaluated one of these in vain
    counter,        \* readBytes and writeBytes
    moved,          \* history: the requests whose bytes were ever counted
    reported,       \* history: the bytes in the results given to the report
    lost,           \* history: the bytes in results that are dropped
    printLock, out, \* the lock, and what was printed: the requests in order
    log, pos,       \* the log of details, and LogFile.Pos
    shown,          \* what Final printed of it
    begun           \* history: how many requests there were before the last call

targetVars  == <<envHostsIndex, picks>>
sourceVars  == <<lines, pipe>>
profileVars == <<profiles, valued, unset, inits>>
bytesVars   == <<counter, moved, reported, lost>>
printVars   == <<printLock, out, log, pos, shown, begun>>
processVars == <<phase, calls, asks>>
invokeVars  == <<targetVars, sourceVars, profileVars, bytesVars, printVars, processVars>>

NoJob == [pc |-> "idle", todo |-> <<>>, plain |-> FALSE, body |-> "none", item |-> 0, ask |-> 0, code |-> 0,
          outcome |-> "ok", sampled |-> TRUE, detail |-> FALSE,
          bytes |-> [d \in Ways |-> {}]]

InvokeInit ==
    /\ job = [w \in Callers |-> NoJob]
    /\ phase = "init" /\ calls = 0 /\ asks = 0
    /\ envHostsIndex = 0 /\ picks = <<>>
    /\ lines = 0 /\ pipe = 0
    /\ profiles = opt.profiles /\ valued = {} /\ unset = {} /\ inits = {}
    /\ counter = [d \in Ways |-> {}] /\ moved = [d \in Ways |-> {}]
    /\ reported = [d \in Ways |-> {}] /\ lost = [d \in Ways |-> {}]
    /\ printLock = Nobody /\ out = <<>> /\ log = <<>> /\ pos = 0 /\ shown = <<>> /\ begun = 0

At(w, l) == proc = "up" /\ job[w].pc = l

Goto(w, l) == job' = [job EXCEPT ![w].pc = l]

\* A call that ends without having got as far as updateThroughput, or with it.
Leave(w, why) == job' = [job EXCEPT ![w].outcome = why, ![w].pc = "return"]
Fail(w)       == job' = [job EXCEPT ![w].outcome = "error", ![w].pc = "swapRead"]

Limit == IF opt.n > 0 THEN opt.n ELSE MaxCalls

(***************************************************************************)
(* Run                                                                     *)
(***************************************************************************)
\* Mutants: the position is never marked, and it is that of the next entry.
MarkPosNever == pos' = pos
MarkPosPast  == pos' = IF opt.logf THEN Len(log) + 1 ELSE pos

MarkPos == pos' = IF opt.logf THEN Len(log) ELSE pos

InitProfiles  == {p \in ProfileRecords : p.init}
OtherProfiles == {p \in ProfileRecords : ~p.init}

\* Mutant: the list of the profiles is left as it is.
RunInitialKeeps ==
    /\ phase = "init" /\ At(Starter, "idle")
    /\ MarkPos
    /\ IF opt.profiles = <<>>
       THEN Leave(Starter, "ok")
       ELSE job' = [job EXCEPT ![Starter].todo = Selection(opt.profiles, InitProfiles),
                               ![Starter].pc = "profile"]
    /\ UNCHANGED <<opt, uploadVars, dialVars, targetVars, sourceVars, profileVars, bytesVars,
                   printLock, out, log, shown, begun, processVars, proc>>

\* Run(ctx, conf, true) of Bench.Init: the init profiles, and from now on the others.
RunInitial ==
    /\ phase = "init" /\ At(Starter, "idle")
    /\ MarkPos
    /\ IF opt.profiles = <<>>
       THEN Leave(Starter, "ok") /\ UNCHANGED profiles
       ELSE /\ job' = [job EXCEPT ![Starter].todo = Selection(opt.profiles, InitProfiles),
                                  ![Starter].pc = "profile"]
            /\ profiles' = Selection(opt.profiles, OtherProfiles)
    /\ UNCHANGED <<opt, uploadVars, dialVars, targetVars, sourceVars, valued, unset, inits, bytesVars,
                   printLock, out, log, shown, begun, processVars, proc>>

\* Run of a worker: all the profiles, or one plain request.
RunBegin(w) ==
    /\ phase = "bench" /\ w \in Workers /\ At(w, "idle") /\ calls < Limit
    /\ calls' = calls + 1
    /\ MarkPos
    /\ job' = [job EXCEPT ![w] = [NoJob EXCEPT !.todo = profiles, !.plain = (profiles = <<>>),
                                     !.pc = IF profiles = <<>> THEN "setReq" ELSE "profile"]]
    /\ UNCHANGED <<opt, uploadVars, dialVars, targetVars, sourceVars, profileVars, bytesVars,
                   printLock, out, log, shown, phase, asks, proc>>
    /\ begun' = asks

(***************************************************************************)
(* setReq and setBody                                                      *)
(***************************************************************************)
Targets == IF opt.urls > 0 THEN opt.urls ELSE opt.hosts

\* Mutant: the counter is not that of all workers, it is read and never written.
SetReqStill(w) ==
    /\ At(w, "setReq")
    /\ picks' = IF Targets = 0 THEN picks ELSE Append(picks, (envHostsIndex % Targets) + 1)
    /\ Goto(w, "setBody")
    /\ UNCHANGED <<opt, uploadVars, dialVars, envHostsIndex, sourceVars, profileVars, bytesVars,
                   printVars, processVars, proc>>

\* AddUint32 and an index one less, which is -1 when the counter came round to 0; the
\* remainder by 1 is 0 all the same.
SetReq(w) ==
    /\ At(w, "setReq")
    /\ IF Targets = 0
       THEN Goto(w, "setBody") /\ UNCHANGED <<targetVars, proc>>
       ELSE /\ envHostsIndex' = (envHostsIndex + 1) % Width
            /\ IF envHostsIndex' = 0 /\ Targets > 1
               THEN proc' = "panic" /\ UNCHANGED <<job, picks>>
               ELSE /\ picks' = Append(picks, ((envHostsIndex' - 1) % Targets) + 1)
                    /\ Goto(w, "setBody") /\ UNCHANGED proc
    /\ UNCHANGED <<opt, uploadVars, dialVars, sourceVars, profileVars, bytesVars, printVars, processVars>>

HasBody(w, kind) == job' = [job EXCEPT ![w].body = kind, ![w].pc = "ask"]

\* os.Open of the file to stream
SetBodyStream(w) ==
    /\ opt.body = "stream"
    /\ HasBody(w, "stream") \/ (opt.vanishing /\ Leave(w, "error"))
    /\ UNCHANGED <<opt, uploadVars, sourceVars>>

\* <-r.uploadChan, which blocks until there is a value or the channel is closed
SetBodyUpload(w) ==
    /\ opt.body # "stream" /\ Uploads
    /\ \/ HandOver /\ job' = [job EXCEPT ![w].body = "upload", ![w].item = value, ![w].pc = "field"]
       \/ deal = "closed" /\ Leave(w, "EOF") /\ UNCHANGED uploadVars
    /\ UNCHANGED <<opt, sourceVars>>

\* -b, or the string made of request items; eval and gzip change the text only.
SetBodyBytes(w) ==
    /\ opt.body # "stream" /\ ~Uploads
    /\ opt.body = "bytes" \/ opt.pieBody = "string"
    /\ HasBody(w, IF opt.body = "bytes" THEN "bytes" ELSE "string")
    /\ UNCHANGED <<opt, uploadVars, sourceVars>>

\* <-r.opt.bodyLinesChan, closed after the last line
SetBodyLine(w) ==
    /\ opt.body = "lines" /\ ~Uploads /\ opt.pieBody # "string"
    /\ IF lines < opt.lines
       THEN HasBody(w, "line") /\ lines' = lines + 1
       ELSE Leave(w, "EOF") /\ UNCHANGED lines
    /\ UNCHANGED <<opt, uploadVars, pipe>>

\* No bytes: the pipe of the request items, if there is one, or nothing.
SetBodyRest(w) ==
    /\ opt.body = "none" /\ ~Uploads /\ opt.pieBody # "string"
    /\ HasBody(w, opt.pieBody)
    /\ UNCHANGED <<opt, uploadVars, sourceVars>>

SetBody(w) ==
    /\ At(w, "setBody")
    /\ \/ SetBodyStream(w) \/ SetBodyUpload(w) \/ SetBodyBytes(w) \/ SetBodyLine(w) \/ SetBodyRest(w)
    /\ UNCHANGED <<dialVars, targetVars, profileVars, bytesVars, printVars, processVars, proc>>

\* A large file is opened once more for every request.
NewReaderFails == opt.vanishing /\ Die("fatal") /\ UNCHANGED job

\* CreateFileField and NewReader
SetField(w) ==
    /\ At(w, "field")
    /\ \/ /\ NextIndex
          /\ Goto(w, "ask")
          /\ names' = Append(names, UploadName(job[w].item))
          /\ UNCHANGED <<readVars, deal, value, sent, proc>>
       \/ NewReaderFails
    /\ UNCHANGED <<opt, dialVars, invokeVars>>

(***************************************************************************)
(* runProfiles                                                             *)
(***************************************************************************)

\* The next profile and its CreateReq.
NextProfile(w) ==
    /\ At(w, "profile")
    /\ IF job[w].todo = <<>>
       THEN Goto(w, "swapRead") /\ UNCHANGED unset
       ELSE LET p == Head(job[w].todo) IN
            /\ job' = [job EXCEPT ![w].body = (IF p.file THEN "file" ELSE "none"), ![w].pc = "ask"]
            /\ unset' = IF p.uses \cap inits \subseteq valued THEN unset ELSE unset \cup {asks + 1}
    /\ UNCHANGED <<opt, uploadVars, dialVars, targetVars, sourceVars, profiles, valued, inits, bytesVars,
                   printVars, processVars, proc>>

\* The file that the profile uploads is gone.
NextProfileFails(w) ==
    /\ At(w, "profile") /\ job[w].todo # <<>> /\ Head(job[w].todo).file
    /\ opt.vanishing /\ Die("fatal")
    /\ UNCHANGED <<opt, dialVars, job, invokeVars>>

(***************************************************************************)
(* httpInvoke                                                              *)
(***************************************************************************)

\* The request gets its number and a connection.
Ask(w) ==
    /\ At(w, "ask")
    /\ asks' = asks + 1
    /\ job' = [job EXCEPT ![w].ask = asks + 1, ![w].pc = "dial"]
    /\ Acquire(w)
    /\ UNCHANGED <<opt, uploadVars, targetVars, sourceVars, profileVars, bytesVars, printVars,
                   phase, calls, proc>>

Connect(w) ==
    /\ At(w, "dial")
    /\ \/ Dialing(w) /\ UNCHANGED job
       \/ dialing[w] = "refused" /\ Forget(w) /\ Fail(w)
    /\ UNCHANGED <<opt, uploadVars, invokeVars, proc>>

\* MyConn.Read and MyConn.Write count with atomic.AddInt64.
Count(w, d) ==
    /\ counter' = [counter EXCEPT ![d] = @ \cup {job[w].ask}]
    /\ moved'   = [moved EXCEPT ![d] = @ \cup {job[w].ask}]
    /\ UNCHANGED <<reported, lost>>

\* The body in the pipe is read chunk by chunk, by whoever reads it.
WriteChunk(w) ==
    /\ At(w, "dial") /\ dialing[w] = "ready" /\ job[w].body \in {"pipe", "part"} /\ pipe < Chunks
    /\ pipe' = pipe + 1
    /\ job' = [job EXCEPT ![w].body = "part"]
    /\ UNCHANGED <<opt, uploadVars, dialVars, targetVars, lines, profileVars, bytesVars, printVars,
                   processVars, proc>>

Write(w) ==
    /\ At(w, "dial") /\ dialing[w] = "ready" /\ (job[w].body \in {"pipe", "part"} => pipe = Chunks)
    /\ Count(w, "write")
    /\ \/ Goto(w, "answer") /\ UNCHANGED dialVars
       \/ opt.refusing /\ Fail(w) /\ Release(w, FALSE)
    /\ UNCHANGED <<opt, uploadVars, targetVars, sourceVars, profileVars, printVars, processVars, proc>>

Codes == IF opt.refusing THEN {200, 300, 500} ELSE {200}

\* The response, or part of it, or nothing within the timeout.
Answer(w) ==
    /\ At(w, "answer")
    /\ \/ \E code \in Codes :
             /\ job' = [job EXCEPT ![w].code = code, ![w].pc = "process"]
             /\ Count(w, "read") /\ Release(w, TRUE)
       \/ opt.refusing /\ Fail(w) /\ Release(w, FALSE) /\ (Count(w, "read") \/ UNCHANGED bytesVars)
    /\ UNCHANGED <<opt, uploadVars, targetVars, sourceVars, profileVars, printVars, processVars, proc>>

(***************************************************************************)
(* processRsp                                                              *)
(***************************************************************************)
\* Without BLOW_STATUS.
LogStatus(code) == opt.n = 1 \/ code < 200 \/ code >= 300

\* After processRsp: the end, or the next profile unless the code is a bad one.
Onward(w) ==
    IF job[w].plain \/ job[w].code < 200 \/ job[w].code > 300
    THEN [job[w] EXCEPT !.pc = "swapRead"]
    ELSE [job[w] EXCEPT !.pc = "profile", !.todo = Tail(@)]

Answered(w) ==
    inits' = IF ~job[w].plain /\ Head(job[w].todo).init /\ job[w].code = 200
             THEN inits \cup Head(job[w].todo).sets ELSE inits

\* Nothing is logged or printed: the body is discarded.
Discard(w) ==
    /\ At(w, "process") /\ ~opt.logf /\ opt.printOption = {}
    /\ job' = [job EXCEPT ![w] = Onward(w)]
    /\ Answered(w)
    /\ UNCHANGED <<opt, uploadVars, dialVars, targetVars, sourceVars, profiles, valued, unset, bytesVars,
                   printVars, processVars, proc>>

\* Mutant: no lock is made when something is printed.
CanLockAlways == opt.printOption = {} \/ printLock \in Callers \cup {Nobody}

\* NewConditionalLock: there is a lock only if something is printed.
CanLock == opt.printOption # {} => printLock = Nobody

Prints(w, options) == job[w].sampled /\ opt.printOption \cap options # {}

\* SAMPLING_RATE
Sampling == IF opt.sampled THEN {TRUE} ELSE BOOLEAN

\* printReq
PrintsReq(w, s) ==
    s /\ ("H" \in opt.printOption \/ ("B" \in opt.printOption /\ job[w].body # "none"))

\* Lock, and printReq.
PrintReq(w) ==
    /\ At(w, "process") /\ (opt.logf \/ opt.printOption # {}) /\ CanLock
    /\ printLock' = IF opt.printOption # {} THEN w ELSE printLock
    /\ \E s \in Sampling :
          /\ job' = [job EXCEPT ![w].sampled = s, ![w].pc = "printResp",
                                ![w].detail = s /\ opt.logf /\ LogStatus(job[w].code)]
          /\ out' = IF PrintsReq(w, s) THEN Append(out, job[w].ask) ELSE out
    /\ UNCHANGED <<opt, uploadVars, dialVars, targetVars, sourceVars, profileVars, bytesVars,
                   log, pos, shown, begun, processVars, proc>>

\* The body cannot be uncompressed: the deferred Unlock and Write.
PrintRespFails(w) ==
    /\ opt.refusing
    /\ job' = [job EXCEPT ![w].outcome = "error", ![w].pc = "log"]
    /\ UNCHANGED <<profileVars, out>>

\* Mutant: values are registered only for what is printed.
RegisterPrinted(w) ==
    valued' = IF opt.printOption # {} /\ ~job[w].plain /\ Head(job[w].todo).init
              THEN valued \cup Head(job[w].todo).sets ELSE valued

\* createJSONValuer, for an answer that has what the profile asks for.
Register(w) ==
    valued' = IF ~job[w].plain /\ Head(job[w].todo).init
              THEN valued \cup Head(job[w].todo).sets ELSE valued

\* responseJSONValuer, printResp and the deferred Unlock.
PrintResp(w) ==
    /\ At(w, "printResp")
    /\ \/ PrintRespFails(w)
       \/ /\ Register(w)
          /\ Answered(w)
          /\ out' = IF Prints(w, {"c", "h", "b"}) THEN Append(out, job[w].ask) ELSE out
          /\ Goto(w, "log")
          /\ UNCHANGED <<profiles, unset>>
    /\ printLock' = IF opt.printOption # {} THEN Nobody ELSE printLock
    /\ UNCHANGED <<opt, uploadVars, dialVars, targetVars, sourceVars, bytesVars, log, pos, shown, begun,
                   processVars, proc>>

\* The deferred logf.Write of the whole entry.
Log(w) ==
    /\ At(w, "log")
    /\ log' = IF opt.logf /\ job[w].detail THEN Append(log, job[w].ask) ELSE log
    /\ IF job[w].outcome = "error" THEN Goto(w, "swapRead") ELSE job' = [job EXCEPT ![w] = Onward(w)]
    /\ UNCHANGED <<opt, uploadVars, dialVars, targetVars, sourceVars, profileVars, bytesVars,
                   printLock, out, pos, shown, begun, processVars, proc>>

(***************************************************************************)
(* updateThroughput, and what becomes of the result                        *)
(***************************************************************************)

\* Mutant: the counter is loaded, and set to 0 by nobody.
SwapLoads(w, d) ==
    /\ job' = [job EXCEPT ![w].bytes = [@ EXCEPT ![d] = counter[d]],
                          ![w].pc = IF d = "read" THEN "swapWrite" ELSE "return"]
    /\ UNCHANGED <<counter, moved, reported, lost>>

\* atomic.SwapInt64
Swap(w, d) ==
    /\ job' = [job EXCEPT ![w].bytes = [@ EXCEPT ![d] = counter[d]],
                          ![w].pc = IF d = "read" THEN "swapWrite" ELSE "return"]
    /\ counter' = [counter EXCEPT ![d] = {}]
    /\ UNCHANGED <<moved, reported, lost>>

UpdateThroughput(w) ==
    /\ (At(w, "swapRead") /\ Swap(w, "read")) \/ (At(w, "swapWrite") /\ Swap(w, "write"))
    /\ UNCHANGED <<opt, uploadVars, dialVars, targetVars, sourceVars, profileVars, printVars,
                   processVars, proc>>

\* Requester.runOne and doRequest: a result that comes with an error is not looked at,
\* and io.EOF ends the worker.
Return(w) ==
    /\ w \in Workers /\ At(w, "return")
    /\ IF job[w].outcome = "ok"
       THEN reported' = [d \in Ways |-> reported[d] \cup job[w].bytes[d]] /\ UNCHANGED lost
       ELSE lost' = [d \in Ways |-> lost[d] \cup job[w].bytes[d]] /\ UNCHANGED reported
    /\ job' = [job EXCEPT ![w] = [NoJob EXCEPT !.pc = IF job[w].outcome = "EOF" THEN "ended" ELSE "idle"]]
    /\ UNCHANGED <<opt, uploadVars, dialVars, targetVars, sourceVars, profileVars, counter, moved,
                   printVars, processVars, proc>>

\* Bench.Init ignores result and error of the initial Run.
ReturnInitial ==
    /\ At(Starter, "return")
    /\ lost' = [d \in Ways |-> lost[d] \cup job[Starter].bytes[d]]
    /\ job' = [job EXCEPT ![Starter] = [NoJob EXCEPT !.pc = "ended"]]
    /\ phase' = "bench"
    /\ UNCHANGED <<opt, uploadVars, dialVars, targetVars, sourceVars, profileVars, counter, moved,
                   reported, printVars, calls, asks, proc>>

\* The worker has used up -n, or the bound.
StopWorker(w) ==
    /\ phase = "bench" /\ w \in Workers /\ At(w, "idle") /\ calls = Limit
    /\ Goto(w, "ended")
    /\ UNCHANGED <<opt, uploadVars, dialVars, invokeVars, proc>>

\* Bench.Final: with -n 1 the details of the last call, unless they were printed.
Final ==
    /\ phase = "bench" /\ \A w \in Workers : At(w, "ended")
    /\ phase' = "final"
    /\ shown' = IF opt.n = 1 /\ opt.logf /\ opt.printOption = {}
                THEN SubSeq(log, pos + 1, Len(log)) ELSE <<>>
    /\ UNCHANGED <<opt, uploadVars, dialVars, job, targetVars, sourceVars, profileVars, bytesVars,
                   printLock, out, log, pos, begun, calls, asks, proc>>

Request(w) ==
    \/ RunBegin(w) \/ SetReq(w) \/ SetBody(w) \/ SetField(w) \/ NextProfile(w) \/ NextProfileFails(w)
    \/ Ask(w) \/ Connect(w) \/ WriteChunk(w) \/ Write(w) \/ Answer(w)
    \/ Discard(w) \/ PrintReq(w) \/ PrintResp(w) \/ Log(w) \/ UpdateThroughput(w)
    \/ Return(w) \/ StopWorker(w)
=============================================================================

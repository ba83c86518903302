---------------------------- MODULE Blow_proofs ----------------------------
(***************************************************************************)
(* Theorems about a run of the HTTP bench, for any number of workers, any  *)
(* command lines and any width of the counter of the round robin.          *)
(***************************************************************************)
EXTENDS Blow, Selections_proofs

(***************************************************************************)
(* The calls of Run: what each step does to the record of its caller       *)
(***************************************************************************)
Fields == {"pc", "todo", "plain", "body", "item", "ask", "code", "outcome", "sampled", "detail", "bytes"}

\* job is a function of the callers to records with these fields.
Shape ==
    /\ job = [w \in Callers |-> job[w]]
    /\ \A w \in Callers : job[w] = [k \in Fields |-> job[w][k]]

\* Only the call of w changes, and it keeps its fields S.
Moves(w)   == Shape' /\ \A v \in Callers : v # w => job'[v] = job[v]
Keeps(w, S) == Moves(w) /\ \A k \in S : job'[w][k] = job[w][k]

Rest == Fields \ {"pc"}
NoBytes == [d \in Ways |-> {}]

LEMMA GotoEffect ==
    ASSUME Shape, NEW w \in Callers, NEW l, Goto(w, l)
    PROVE  Keeps(w, Rest) /\ job'[w].pc = l
BY DEF Goto, Shape, Moves, Keeps, Fields, Rest

LEMMA UpdateEffect ==
    ASSUME Shape, NEW w \in Callers, NEW r, r = [k \in Fields |-> r[k]],
           job' = [job EXCEPT ![w] = r]
    PROVE  Moves(w) /\ job'[w] = r
BY DEF Shape, Moves

LEMMA LeaveEffect ==
    ASSUME Shape, NEW w \in Callers, NEW why, Leave(w, why)
    PROVE  Keeps(w, Rest \ {"outcome"}) /\ job'[w].pc = "return"
<1> DEFINE r == [job[w] EXCEPT !.outcome = why, !.pc = "return"]
<1>1. r = [f \in Fields |-> r[f]]
  BY DEF Shape, Fields, NoJob
<1>2. r.pc = "return" /\ \A f \in Rest \ {"outcome"} : r[f] = job[w][f]
  BY DEF Shape, Fields, Rest, NoJob, NoBytes
<1>3. job' = [job EXCEPT ![w] = r]
  BY DEF Leave, Shape
<1> HIDE DEF r
<1>4. Moves(w) /\ job'[w] = r
  BY <1>1, <1>3, UpdateEffect
<1> QED
  BY <1>2, <1>4 DEF Keeps

LEMMA FailEffect ==
    ASSUME Shape, NEW w \in Callers, Fail(w)
    PROVE  Keeps(w, Rest \ {"outcome"}) /\ job'[w].pc = "swapRead"
<1> DEFINE r == [job[w] EXCEPT !.outcome = "error", !.pc = "swapRead"]
<1>1. r = [f \in Fields |-> r[f]]
  BY DEF Shape, Fields, NoJob
<1>2. r.pc = "swapRead" /\ \A f \in Rest \ {"outcome"} : r[f] = job[w][f]
  BY DEF Shape, Fields, Rest, NoJob, NoBytes
<1>3. job' = [job EXCEPT ![w] = r]
  BY DEF Fail, Shape
<1> HIDE DEF r
<1>4. Moves(w) /\ job'[w] = r
  BY <1>1, <1>3, UpdateEffect
<1> QED
  BY <1>2, <1>4 DEF Keeps

LEMMA BodyEffect ==
    ASSUME Shape, NEW w \in Callers, NEW kind, HasBody(w, kind)
    PROVE  Keeps(w, Rest \ {"body"}) /\ job'[w].pc = "ask" /\ job'[w].body = kind
<1> DEFINE r == [job[w] EXCEPT !.body = kind, !.pc = "ask"]
<1>1. r = [f \in Fields |-> r[f]]
  BY DEF Shape, Fields
<1>2. r.pc = "ask" /\ r.body = kind /\ \A f \in Rest \ {"body"} : r[f] = job[w][f]
  BY DEF Shape, Fields, Rest
<1>3. job' = [job EXCEPT ![w] = r]
  BY DEF HasBody, Shape
<1> HIDE DEF r
<1>4. Moves(w) /\ job'[w] = r
  BY <1>1, <1>3, UpdateEffect
<1> QED
  BY <1>2, <1>4 DEF Keeps

LEMMA ItemEffect ==
    ASSUME Shape, NEW w \in Callers, NEW x, job' = [job EXCEPT ![w].body = "upload", ![w].item = x, ![w].pc = "field"]
    PROVE  Keeps(w, Rest \ {"body", "item"}) /\ job'[w].pc = "field" /\ job'[w].body = "upload"
<1> DEFINE r == [job[w] EXCEPT !.body = "upload", !.item = x, !.pc = "field"]
<1>1. r = [f \in Fields |-> r[f]]
  BY DEF Shape, Fields
<1>2. r.pc = "field" /\ r.body = "upload" /\ \A f \in Rest \ {"body", "item"} : r[f] = job[w][f]
  BY DEF Shape, Fields, Rest
<1>3. job' = [job EXCEPT ![w] = r]
  BY DEF Shape
<1> HIDE DEF r
<1>4. Moves(w) /\ job'[w] = r
  BY <1>1, <1>3, UpdateEffect
<1> QED
  BY <1>2, <1>4 DEF Keeps

LEMMA CodeEffect ==
    ASSUME Shape, NEW w \in Callers, NEW x, job' = [job EXCEPT ![w].code = x, ![w].pc = "process"]
    PROVE  Keeps(w, Rest \ {"code"}) /\ job'[w].pc = "process"
<1> DEFINE r == [job[w] EXCEPT !.code = x, !.pc = "process"]
<1>1. r = [f \in Fields |-> r[f]]
  BY DEF Shape, Fields
<1>2. r.pc = "process" /\ \A f \in Rest \ {"code"} : r[f] = job[w][f]
  BY DEF Shape, Fields, Rest
<1>3. job' = [job EXCEPT ![w] = r]
  BY DEF Shape
<1> HIDE DEF r
<1>4. Moves(w) /\ job'[w] = r
  BY <1>1, <1>3, UpdateEffect
<1> QED
  BY <1>2, <1>4 DEF Keeps

LEMMA ErrorEffect ==
    ASSUME Shape, NEW w \in Callers, NEW l, job' = [job EXCEPT ![w].outcome = "error", ![w].pc = l]
    PROVE  Keeps(w, Rest \ {"outcome"}) /\ job'[w].pc = l
<1> DEFINE r == [job[w] EXCEPT !.outcome = "error", !.pc = l]
<1>1. r = [f \in Fields |-> r[f]]
  BY DEF Shape, Fields
<1>2. r.pc = l /\ \A f \in Rest \ {"outcome"} : r[f] = job[w][f]
  BY DEF Shape, Fields, Rest
<1>3. job' = [job EXCEPT ![w] = r]
  BY DEF Shape
<1> HIDE DEF r
<1>4. Moves(w) /\ job'[w] = r
  BY <1>1, <1>3, UpdateEffect
<1> QED
  BY <1>2, <1>4 DEF Keeps

LEMMA SampledEffect ==
    ASSUME Shape, NEW w \in Callers, NEW x, NEW y, job' = [job EXCEPT ![w].sampled = x, ![w].pc = "printResp", ![w].detail = y]
    PROVE  Keeps(w, Rest \ {"sampled", "detail"}) /\ job'[w].pc = "printResp"
<1> DEFINE r == [job[w] EXCEPT !.sampled = x, !.pc = "printResp", !.detail = y]
<1>1. r = [f \in Fields |-> r[f]]
  BY DEF Shape, Fields
<1>2. r.pc = "printResp" /\ \A f \in Rest \ {"sampled", "detail"} : r[f] = job[w][f]
  BY DEF Shape, Fields, Rest
<1>3. job' = [job EXCEPT ![w] = r]
  BY DEF Shape
<1> HIDE DEF r
<1>4. Moves(w) /\ job'[w] = r
  BY <1>1, <1>3, UpdateEffect
<1> QED
  BY <1>2, <1>4 DEF Keeps

LEMMA OnwardEffect ==
    ASSUME Shape, NEW w \in Callers, job' = [job EXCEPT ![w] = Onward(w)]
    PROVE  /\ Keeps(w, Rest \ {"todo"}) /\ job'[w].pc \in {"profile", "swapRead"}
           /\ (job[w].plain => job'[w].pc = "swapRead")
           /\ job'[w].todo = job[w].todo \/ (~job[w].plain /\ job'[w].todo = Tail(job[w].todo))
<1> DEFINE r == Onward(w)
<1>1. r = [f \in Fields |-> r[f]]
  BY DEF Shape, Fields, Onward
<1>2. /\ r.pc \in {"profile", "swapRead"} /\ (job[w].plain => r.pc = "swapRead")
      /\ r.todo = job[w].todo \/ (~job[w].plain /\ r.todo = Tail(job[w].todo))
      /\ \A f \in Rest \ {"todo"} : r[f] = job[w][f]
  BY DEF Shape, Fields, Rest, Onward
<1>3. job' = [job EXCEPT ![w] = r]
  BY DEF Shape
<1> HIDE DEF r
<1>4. Moves(w) /\ job'[w] = r
  BY <1>1, <1>3, UpdateEffect
<1> QED
  BY <1>2, <1>4 DEF Keeps

LEMMA TodoEffect ==
    ASSUME Shape, NEW w \in Callers, NEW x, job' = [job EXCEPT ![w].todo = x, ![w].pc = "profile"]
    PROVE  Keeps(w, Rest \ {"todo"}) /\ job'[w].pc = "profile"
<1> DEFINE r == [job[w] EXCEPT !.todo = x, !.pc = "profile"]
<1>1. r = [f \in Fields |-> r[f]]
  BY DEF Shape, Fields
<1>2. r.pc = "profile" /\ \A f \in Rest \ {"todo"} : r[f] = job[w][f]
  BY DEF Shape, Fields, Rest
<1>3. job' = [job EXCEPT ![w] = r]
  BY DEF Shape
<1> HIDE DEF r
<1>4. Moves(w) /\ job'[w] = r
  BY <1>1, <1>3, UpdateEffect
<1> QED
  BY <1>2, <1>4 DEF Keeps

(***************************************************************************)
(* What each action does to the call of its caller                         *)
(***************************************************************************)
LEMMA RunBeginEffect ==
    ASSUME Shape, NEW w \in Callers, RunBegin(w)
    PROVE  /\ Moves(w) /\ job[w].pc = "idle" /\ job'[w].bytes = NoBytes
           /\ job'[w].plain = (profiles = <<>>) /\ job'[w].body = "none" /\ job'[w].todo = profiles
           /\ job'[w].pc = (IF profiles = <<>> THEN "setReq" ELSE "profile")
<1> DEFINE r == [NoJob EXCEPT !.todo = profiles, !.plain = (profiles = <<>>),
                              !.pc = IF profiles = <<>> THEN "setReq" ELSE "profile"]
<1>1. r = [f \in Fields |-> r[f]]
  BY DEF Fields, NoJob
<1>2. /\ r.bytes = NoBytes /\ r.plain = (profiles = <<>>) /\ r.body = "none" /\ r.todo = profiles
      /\ r.pc = (IF profiles = <<>> THEN "setReq" ELSE "profile")
  BY DEF NoJob, NoBytes
<1>3. job[w].pc = "idle" /\ job' = [job EXCEPT ![w] = r]
  BY DEF RunBegin, At
<1> HIDE DEF r
<1> QED
  BY <1>1, <1>2, <1>3, UpdateEffect

LEMMA SetReqEffect ==
    ASSUME Shape, NEW w \in Callers, SetReq(w)
    PROVE  Keeps(w, Rest) /\ job[w].pc = "setReq" /\ job'[w].pc \in {"setReq", "setBody"}
BY GotoEffect DEF SetReq, At, Keeps, Moves, Shape

LEMMA SetBodyEffect ==
    ASSUME Shape, NEW w \in Callers, SetBody(w)
    PROVE  /\ Keeps(w, Rest \ {"body", "item", "outcome"}) /\ job[w].pc = "setBody"
           /\ job'[w].pc \in {"field", "ask", "return"}
<1>1. job[w].pc = "setBody"
  BY DEF SetBody, At
<1>2. \/ \E kind : HasBody(w, kind)
      \/ \E why : Leave(w, why)
      \/ \E x : job' = [job EXCEPT ![w].body = "upload", ![w].item = x, ![w].pc = "field"]
  BY DEF SetBody, SetBodyStream, SetBodyUpload, SetBodyBytes, SetBodyLine, SetBodyRest
<1> QED
  BY <1>1, <1>2, BodyEffect, LeaveEffect, ItemEffect DEF Keeps

LEMMA SetFieldEffect ==
    ASSUME Shape, NEW w \in Callers, SetField(w)
    PROVE  Keeps(w, Rest) /\ job[w].pc = "field" /\ job'[w].pc \in {"field", "ask"}
BY GotoEffect DEF SetField, NewReaderFails, At, Keeps, Moves, Shape

LEMMA NextProfileEffect ==
    ASSUME Shape, NEW w \in Callers, NextProfile(w)
    PROVE  /\ Keeps(w, Rest \ {"body"}) /\ job[w].pc = "profile"
           /\ job'[w].pc \in {"ask", "swapRead"}
<1>1. job[w].pc = "profile"
  BY DEF NextProfile, At
<1>2. Goto(w, "swapRead") \/ \E kind : HasBody(w, kind)
  BY DEF NextProfile, HasBody
<1> QED
  BY <1>1, <1>2, GotoEffect, BodyEffect DEF Keeps

LEMMA AskEffect ==
    ASSUME Shape, NEW w \in Callers, Ask(w)
    PROVE  /\ Keeps(w, Rest \ {"ask"}) /\ job[w].pc = "ask"
           /\ job'[w].pc = "dial" /\ job'[w].ask = asks + 1
<1> DEFINE r == [job[w] EXCEPT !.ask = asks + 1, !.pc = "dial"]
<1>1. r = [f \in Fields |-> r[f]]
  BY DEF Shape, Fields
<1>2. r.pc = "dial" /\ r.ask = asks + 1 /\ \A f \in Rest \ {"ask"} : r[f] = job[w][f]
  BY DEF Shape, Fields, Rest
<1>3. job[w].pc = "ask" /\ job' = [job EXCEPT ![w] = r]
  BY DEF Ask, At, Shape
<1> HIDE DEF r
<1>4. Moves(w) /\ job'[w] = r
  BY <1>1, <1>3, UpdateEffect
<1> QED
  BY <1>2, <1>3, <1>4 DEF Keeps

LEMMA ConnectEffect ==
    ASSUME Shape, NEW w \in Callers, Connect(w)
    PROVE  Keeps(w, Rest \ {"outcome"}) /\ job[w].pc = "dial" /\ job'[w].pc \in {"dial", "swapRead"}
BY FailEffect DEF Connect, At, Keeps, Moves, Shape

LEMMA WriteChunkEffect ==
    ASSUME Shape, NEW w \in Callers, WriteChunk(w)
    PROVE  /\ Keeps(w, Rest \ {"body"}) /\ job[w].pc = "dial" /\ job'[w].pc = "dial"
           /\ job[w].body \in {"pipe", "part"} /\ job'[w].body = "part"
<1> DEFINE r == [job[w] EXCEPT !.body = "part"]
<1>1. r = [f \in Fields |-> r[f]]
  BY DEF Shape, Fields
<1>2. r.body = "part" /\ r.pc = job[w].pc /\ \A f \in Rest \ {"body"} : r[f] = job[w][f]
  BY DEF Shape, Fields, Rest
<1>3. /\ job[w].pc = "dial" /\ job[w].body \in {"pipe", "part"}
      /\ job' = [job EXCEPT ![w] = r]
  BY DEF WriteChunk, At, Shape
<1> HIDE DEF r
<1>4. Moves(w) /\ job'[w] = r
  BY <1>1, <1>3, UpdateEffect
<1> QED
  BY <1>2, <1>3, <1>4 DEF Keeps

LEMMA WriteEffect ==
    ASSUME Shape, NEW w \in Callers, Write(w)
    PROVE  Keeps(w, Rest \ {"outcome"}) /\ job[w].pc = "dial" /\ job'[w].pc \in {"answer", "swapRead"}
<1>1. job[w].pc = "dial" /\ (Goto(w, "answer") \/ Fail(w))
  BY DEF Write, At
<1> QED
  BY <1>1, GotoEffect, FailEffect DEF Keeps

LEMMA AnswerEffect ==
    ASSUME Shape, NEW w \in Callers, Answer(w)
    PROVE  /\ Keeps(w, Rest \ {"outcome", "code"}) /\ job[w].pc = "answer"
           /\ job'[w].pc \in {"process", "swapRead"}
<1>1. /\ job[w].pc = "answer"
      /\ \/ \E x : job' = [job EXCEPT ![w].code = x, ![w].pc = "process"]
         \/ Fail(w)
  BY DEF Answer, At
<1> QED
  BY <1>1, CodeEffect, FailEffect DEF Keeps

LEMMA DiscardEffect ==
    ASSUME Shape, NEW w \in Callers, Discard(w)
    PROVE  /\ Keeps(w, Rest \ {"todo"}) /\ job[w].pc = "process"
           /\ job'[w].pc \in {"profile", "swapRead"} /\ (job[w].plain => job'[w].pc = "swapRead")
           /\ job'[w].todo = job[w].todo \/ (~job[w].plain /\ job'[w].todo = Tail(job[w].todo))
BY OnwardEffect DEF Discard, At

LEMMA PrintReqEffect ==
    ASSUME Shape, NEW w \in Callers, PrintReq(w)
    PROVE  /\ Keeps(w, Rest \ {"sampled", "detail"}) /\ job[w].pc = "process"
           /\ job'[w].pc = "printResp"
<1>1. job[w].pc = "process"
  BY DEF PrintReq, At
<1>2. PICK x, y : job' = [job EXCEPT ![w].sampled = x, ![w].pc = "printResp", ![w].detail = y]
  BY DEF PrintReq
<1> QED
  BY <1>1, <1>2, SampledEffect

LEMMA PrintRespEffect ==
    ASSUME Shape, NEW w \in Callers, PrintResp(w)
    PROVE  Keeps(w, Rest \ {"outcome"}) /\ job[w].pc = "printResp" /\ job'[w].pc = "log"
<1>1. /\ job[w].pc = "printResp"
      /\ \/ Goto(w, "log")
         \/ job' = [job EXCEPT ![w].outcome = "error", ![w].pc = "log"]
  BY DEF PrintResp, PrintRespFails, At
<1> QED
  BY <1>1, GotoEffect, ErrorEffect DEF Keeps

LEMMA LogEffect ==
    ASSUME Shape, NEW w \in Callers, Log(w)
    PROVE  /\ Keeps(w, Rest \ {"todo"}) /\ job[w].pc = "log"
           /\ job'[w].pc \in {"profile", "swapRead"} /\ (job[w].plain => job'[w].pc = "swapRead")
           /\ job'[w].todo = job[w].todo \/ (~job[w].plain /\ job'[w].todo = Tail(job[w].todo))
<1>1. job[w].pc = "log" /\ (Goto(w, "swapRead") \/ job' = [job EXCEPT ![w] = Onward(w)])
  BY DEF Log, At
<1> QED
  BY <1>1, GotoEffect, OnwardEffect DEF Keeps, Rest, Fields

LEMMA SwapEffect ==
    ASSUME Shape, NEW w \in Callers, UpdateThroughput(w)
    PROVE  \E d \in Ways :
              /\ Keeps(w, Rest \ {"bytes"})
              /\ job[w].pc = (IF d = "read" THEN "swapRead" ELSE "swapWrite")
              /\ job'[w].pc = (IF d = "read" THEN "swapWrite" ELSE "return")
              /\ job'[w].bytes = [job[w].bytes EXCEPT ![d] = counter[d]]
              /\ counter' = [counter EXCEPT ![d] = {}]
              /\ UNCHANGED <<moved, reported, lost>>
<1>1. PICK d \in Ways : job[w].pc = (IF d = "read" THEN "swapRead" ELSE "swapWrite") /\ Swap(w, d)
  BY DEF UpdateThroughput, Ways, At
<1> DEFINE r == [job[w] EXCEPT !.bytes = [job[w].bytes EXCEPT ![d] = counter[d]],
                               !.pc = IF d = "read" THEN "swapWrite" ELSE "return"]
<1>2. r = [f \in Fields |-> r[f]]
  BY DEF Shape, Fields
<1>3. /\ r.bytes = [job[w].bytes EXCEPT ![d] = counter[d]]
      /\ r.pc = (IF d = "read" THEN "swapWrite" ELSE "return")
      /\ \A f \in Rest \ {"bytes"} : r[f] = job[w][f]
  BY DEF Shape, Fields, Rest
<1>4. job' = [job EXCEPT ![w] = r]
  BY <1>1 DEF Swap, Shape
<1> HIDE DEF r
<1>5. Moves(w) /\ job'[w] = r
  BY <1>2, <1>4, UpdateEffect
<1>6. Keeps(w, Rest \ {"bytes"})
  BY <1>3, <1>5 DEF Keeps
<1> QED
  BY <1>1, <1>3, <1>5, <1>6 DEF Swap

LEMMA EndEffect ==
    ASSUME Shape, NEW w \in Callers, NEW l, job' = [job EXCEPT ![w] = [NoJob EXCEPT !.pc = l]]
    PROVE  Moves(w) /\ job'[w].pc = l /\ job'[w].bytes = NoBytes /\ ~job'[w].plain /\ job'[w].todo = <<>>
<1> DEFINE r == [NoJob EXCEPT !.pc = l]
<1>1. r = [f \in Fields |-> r[f]] /\ r.pc = l /\ r.bytes = NoBytes /\ ~r.plain /\ r.todo = <<>>
  BY DEF NoJob, NoBytes, Fields
<1>2. job' = [job EXCEPT ![w] = r]
  OBVIOUS
<1> HIDE DEF r
<1> QED
  BY <1>1, <1>2, UpdateEffect

LEMMA ReturnEffect ==
    ASSUME Shape, NEW w \in Callers, Return(w)
    PROVE  Moves(w) /\ job[w].pc = "return" /\ job'[w].pc \in {"idle", "ended"} /\ job'[w].bytes = NoBytes
           /\ ~job'[w].plain /\ job'[w].todo = <<>>
<1>1. /\ job[w].pc = "return"
      /\ \E l \in {"idle", "ended"} : job' = [job EXCEPT ![w] = [NoJob EXCEPT !.pc = l]]
  BY DEF Return, At
<1> QED
  BY <1>1, EndEffect

LEMMA StopWorkerEffect ==
    ASSUME Shape, NEW w \in Callers, StopWorker(w)
    PROVE  Keeps(w, Rest) /\ job[w].pc = "idle" /\ job'[w].pc = "ended"
BY GotoEffect DEF StopWorker, At

LEMMA RunInitialEffect ==
    ASSUME Shape, RunInitial
    PROVE  /\ Keeps(Starter, Rest \ {"todo", "outcome"}) /\ job[Starter].pc = "idle"
           /\ job'[Starter].pc \in {"profile", "return"}
<1>1. /\ Starter \in Callers /\ job[Starter].pc = "idle"
      /\ \/ Leave(Starter, "ok")
         \/ \E x : job' = [job EXCEPT ![Starter].todo = x, ![Starter].pc = "profile"]
  BY DEF RunInitial, At, Callers
<1> QED
  BY <1>1, LeaveEffect, TodoEffect DEF Keeps

LEMMA ReturnInitialEffect ==
    ASSUME Shape, ReturnInitial
    PROVE  /\ Moves(Starter) /\ job[Starter].pc = "return" /\ job'[Starter].pc = "ended"
           /\ job'[Starter].bytes = NoBytes /\ ~job'[Starter].plain /\ job'[Starter].todo = <<>>
BY EndEffect DEF ReturnInitial, At, Callers

(***************************************************************************)
(* Every step is one of Request, Boot, or leaves the calls alone           *)
(***************************************************************************)
LEMMA InitShape == Init => Shape
<1>1. NoJob = [k \in Fields |-> NoJob[k]]
  BY DEF NoJob, Fields
<1> QED
  BY <1>1 DEF Init, InvokeInit, Shape

\* Apart from the calls, a step of the others touches what is uploaded, or ends the run.
Elsewhere == UNCHANGED <<opt, dialVars, job, invokeVars>>
Finishes  == Final /\ UNCHANGED <<opt, dialVars, job, bytesVars, printLock, out, log, pos, begun, calls, asks, proc>>

LEMMA StepKinds ==
    ASSUME Shape, [Next]_vars
    PROVE  \/ Elsewhere
           \/ Finishes
           \/ Boot
           \/ \E w \in Callers : Request(w)
<1>1. CASE Dealing
  BY <1>1 DEF Dealing, Elsewhere, uploadVars
<1>2. ASSUME NEW i \in 1 .. MaxParts, Walking(i) PROVE Elsewhere
  BY <1>2 DEF Walking, Elsewhere
<1>3. CASE Boot
  BY <1>3
<1>4. CASE \E w \in Callers : Request(w)
  BY <1>4
<1>5. CASE Final
  BY <1>5 DEF Final, Finishes
<1>6. CASE UNCHANGED vars
  BY <1>6 DEF vars, Elsewhere
<1> QED
  BY <1>1, <1>2, <1>3, <1>4, <1>5, <1>6 DEF Next, Ended

LEMMA RequestShape ==
    ASSUME Shape, NEW w \in Callers, Request(w)
    PROVE  Moves(w)
<1>1. CASE NextProfileFails(w)
  BY <1>1 DEF NextProfileFails, Moves, Shape
<1>2. CASE UpdateThroughput(w)
  BY <1>2, SwapEffect DEF Keeps
<1>3. CASE \/ RunBegin(w) \/ SetReq(w) \/ SetBody(w) \/ SetField(w) \/ NextProfile(w)
           \/ Ask(w) \/ Connect(w) \/ WriteChunk(w)
  BY <1>3, RunBeginEffect, SetReqEffect, SetBodyEffect, SetFieldEffect, NextProfileEffect,
     AskEffect, ConnectEffect, WriteChunkEffect DEF Keeps
<1>4. CASE \/ Write(w) \/ Answer(w) \/ Discard(w) \/ PrintReq(w) \/ PrintResp(w) \/ Log(w)
           \/ Return(w) \/ StopWorker(w)
  BY <1>4, WriteEffect, AnswerEffect, DiscardEffect, PrintReqEffect, PrintRespEffect, LogEffect,
     ReturnEffect, StopWorkerEffect DEF Keeps
<1> QED
  BY <1>1, <1>2, <1>3, <1>4 DEF Request

LEMMA NextShape == Shape /\ [Next]_vars => Shape'
<1> SUFFICES ASSUME Shape, [Next]_vars PROVE Shape'
  OBVIOUS
<1>1. CASE UNCHANGED job
  BY <1>1 DEF Shape
<1>2. CASE Boot
  BY <1>2, RunInitialEffect, ReturnInitialEffect DEF Boot, Keeps, Moves
<1>3. CASE \E w \in Callers : Request(w)
  BY <1>3, RequestShape DEF Moves
<1> QED
  BY <1>1, <1>2, <1>3, StepKinds DEF Elsewhere, Finishes

(***************************************************************************)
(* The numbers of the requests                                             *)
(***************************************************************************)
Asking == {"dial", "answer", "process", "printResp", "log"}

\* The requests that are under way have different numbers, up to asks.
AsksInv ==
    /\ asks \in Nat
    /\ \A w \in Callers : job[w].pc \in Asking => job[w].ask \in 1 .. asks
    /\ \A v, w \in Callers :
          v # w /\ job[v].pc \in Asking /\ job[w].pc \in Asking => job[v].ask # job[w].ask

\* A step that begins no request.
Calm(w) ==
    /\ UNCHANGED asks /\ Moves(w)
    /\ job'[w].pc \in Asking => job[w].pc \in Asking /\ job'[w].ask = job[w].ask

LEMMA CalmRequest ==
    ASSUME Shape, NEW w \in Callers, Request(w), ~Ask(w)
    PROVE  Calm(w)
<1>1. CASE RunBegin(w)
  <2>1. job'[w].pc \in {"setReq", "profile"} /\ Moves(w)
    BY <1>1, RunBeginEffect
  <2>2. asks' = asks
    BY <1>1 DEF RunBegin
  <2> QED
    BY <2>1, <2>2 DEF Calm, Asking
<1>2. CASE SetReq(w)
  BY <1>2, SetReqEffect DEF SetReq, Calm, Asking, Keeps, processVars
<1>3. CASE SetBody(w)
  BY <1>3, SetBodyEffect DEF SetBody, Calm, Asking, Keeps, processVars
<1>4. CASE SetField(w)
  BY <1>4, SetFieldEffect DEF SetField, Calm, Asking, Keeps, invokeVars, processVars
<1>5. CASE NextProfile(w)
  BY <1>5, NextProfileEffect DEF NextProfile, Calm, Asking, Keeps, processVars
<1>6. CASE NextProfileFails(w)
  BY <1>6 DEF NextProfileFails, Calm, Moves, Shape, invokeVars, processVars
<1>7. CASE Connect(w)
  BY <1>7, ConnectEffect DEF Connect, Calm, Asking, Keeps, Rest, Fields, invokeVars, processVars
<1>8. CASE WriteChunk(w)
  BY <1>8, WriteChunkEffect DEF WriteChunk, Calm, Asking, Keeps, Rest, Fields, processVars
<1>9. CASE Write(w)
  BY <1>9, WriteEffect DEF Write, Calm, Asking, Keeps, Rest, Fields, processVars
<1>10. CASE Answer(w)
  BY <1>10, AnswerEffect DEF Answer, Calm, Asking, Keeps, Rest, Fields, processVars
<1>11. CASE Discard(w)
  BY <1>11, DiscardEffect DEF Discard, Calm, Asking, Keeps, Rest, Fields, processVars
<1>12. CASE PrintReq(w)
  BY <1>12, PrintReqEffect DEF PrintReq, Calm, Asking, Keeps, Rest, Fields, processVars
<1>13. CASE PrintResp(w)
  BY <1>13, PrintRespEffect DEF PrintResp, Calm, Asking, Keeps, Rest, Fields, processVars
<1>14. CASE Log(w)
  BY <1>14, LogEffect DEF Log, Calm, Asking, Keeps, Rest, Fields, processVars
<1>15. CASE UpdateThroughput(w)
  BY <1>15, SwapEffect DEF UpdateThroughput, Calm, Asking, Keeps, Rest, Fields, processVars
<1>16. CASE Return(w)
  BY <1>16, ReturnEffect DEF Return, Calm, Asking, processVars
<1>17. CASE StopWorker(w)
  BY <1>17, StopWorkerEffect DEF StopWorker, Calm, Asking, Keeps, invokeVars, processVars
<1> QED
  BY <1>1, <1>2, <1>3, <1>4, <1>5, <1>6, <1>7, <1>8, <1>9, <1>10, <1>11, <1>12, <1>13, <1>14,
     <1>15, <1>16, <1>17 DEF Request

LEMMA CalmBoot ==
    ASSUME Shape, Boot
    PROVE  Starter \in Callers /\ Calm(Starter)
<1>1. CASE RunInitial
  BY <1>1, RunInitialEffect DEF RunInitial, Calm, Asking, Keeps, Rest, Fields, processVars, Callers
<1>2. CASE ReturnInitial
  BY <1>2, ReturnInitialEffect DEF ReturnInitial, Calm, Asking, Callers
<1> QED
  BY <1>1, <1>2 DEF Boot

LEMMA AsksStep == Shape /\ AsksInv /\ [Next]_vars => AsksInv'
<1> SUFFICES ASSUME Shape, AsksInv, [Next]_vars PROVE AsksInv'
  OBVIOUS
<1>1. CASE UNCHANGED <<job, asks>>
  BY <1>1 DEF AsksInv
<1>2. ASSUME NEW w \in Callers, Calm(w) PROVE AsksInv'
  BY <1>2 DEF AsksInv, Calm, Moves
<1>3. ASSUME NEW w \in Callers, Ask(w) PROVE AsksInv'
  <2>1. Moves(w) /\ job'[w].ask = asks + 1 /\ asks' = asks + 1
    BY <1>3, AskEffect DEF Ask, Keeps
  <2>2. ASSUME NEW v \in Callers, v # w, job[v].pc \in Asking
        PROVE  job[v].ask # asks + 1 /\ job[v].ask \in 1 .. asks + 1
    BY <2>2 DEF AsksInv
  <2> QED
    BY <2>1, <2>2 DEF AsksInv, Moves
<1> QED
  BY <1>1, <1>2, <1>3, StepKinds, CalmRequest, CalmBoot DEF Elsewhere, Finishes, invokeVars, processVars

(***************************************************************************)
(* BytesOnce                                                               *)
(***************************************************************************)
BytesType ==
    /\ counter \in [Ways -> SUBSET Nat] /\ moved \in [Ways -> SUBSET Nat]
    /\ reported \in [Ways -> SUBSET Nat] /\ lost \in [Ways -> SUBSET Nat]
    /\ \A w \in Callers : job[w].bytes \in [Ways -> SUBSET Nat]

\* A request is not counted before it moves its first byte.
NotCounted ==
    /\ \A d \in Ways : \A r \in moved[d] : r <= asks
    /\ \A w \in Callers :
          /\ job[w].pc = "dial" => \A d \in Ways : job[w].ask \notin moved[d]
          /\ job[w].pc = "answer" => job[w].ask \notin moved["read"]

\* Only a call that is about to end has bytes.
BytesAtEnd ==
    \A w \in Callers :
       /\ job[w].pc \notin {"swapWrite", "return"} => job[w].bytes = NoBytes
       /\ job[w].pc = "swapWrite" => job[w].bytes["write"] = {}

Disjoint(S, T) == \A r \in S : r \notin T

PlaceOf(d) ==
    /\ \A r : r \in moved[d] <=> \/ r \in counter[d] \/ r \in reported[d] \/ r \in lost[d]
                                 \/ \E w \in Callers : r \in job[w].bytes[d]
    /\ Disjoint(counter[d], reported[d]) /\ Disjoint(counter[d], lost[d])
    /\ Disjoint(reported[d], lost[d])
    /\ \A w \in Callers : /\ Disjoint(job[w].bytes[d], counter[d])
                         /\ Disjoint(job[w].bytes[d], reported[d])
                         /\ Disjoint(job[w].bytes[d], lost[d])
    /\ \A v, w \in Callers : v # w => Disjoint(job[v].bytes[d], job[w].bytes[d])

OnePlace == \A d \in Ways : PlaceOf(d)

BytesInv == BytesType /\ NotCounted /\ BytesAtEnd /\ OnePlace

LEMMA BytesInvImplies == BytesInv => BytesOnce
<1> SUFFICES ASSUME BytesInv, NEW d \in Ways
             PROVE  /\ moved[d] = counter[d] \cup Kept(d) \cup reported[d] \cup lost[d]
                    /\ Apart([p \in Callers \cup {"counter", "reported", "lost"} |->
                                IF p = "counter" THEN counter[d] ELSE IF p = "reported" THEN reported[d]
                                ELSE IF p = "lost" THEN lost[d] ELSE job[p].bytes[d]])
  BY DEF BytesOnce
<1>1. \A r : r \in Kept(d) <=> \E w \in Callers : r \in job[w].bytes[d]
  BY DEF Kept
<1>2. moved[d] = counter[d] \cup Kept(d) \cup reported[d] \cup lost[d]
  BY <1>1 DEF BytesInv, OnePlace, PlaceOf
<1>3. Apart([p \in Callers \cup {"counter", "reported", "lost"} |->
               IF p = "counter" THEN counter[d] ELSE IF p = "reported" THEN reported[d]
               ELSE IF p = "lost" THEN lost[d] ELSE job[p].bytes[d]])
  BY DEF BytesInv, OnePlace, PlaceOf, Disjoint, Apart
<1> QED
  BY <1>2, <1>3

LEMMA InitBytes == Init => BytesInv
<1> SUFFICES ASSUME Init PROVE BytesInv
  OBVIOUS
<1>1. \A w \in Callers : job[w].pc = "idle" /\ job[w].bytes = NoBytes
  BY DEF Init, InvokeInit, NoJob, NoBytes
<1>2. counter = NoBytes /\ moved = NoBytes /\ reported = NoBytes /\ lost = NoBytes
  BY DEF Init, InvokeInit, NoBytes
<1>3. NoBytes \in [Ways -> SUBSET Nat] /\ \A d \in Ways : NoBytes[d] = {}
  BY DEF NoBytes
<1> QED
  BY <1>1, <1>2, <1>3 DEF BytesInv, BytesType, NotCounted, BytesAtEnd, OnePlace, PlaceOf, Disjoint

\* A step that moves no byte.
Silent(w) ==
    /\ UNCHANGED bytesVars /\ Moves(w)
    /\ asks' \in {asks, asks + 1}
    /\ job[w].pc \notin {"swapWrite", "return"} /\ job'[w].pc \notin {"swapWrite", "answer"}
    /\ job'[w].bytes \in {job[w].bytes, NoBytes}
    /\ job'[w].pc = "dial" => \/ job[w].pc = "dial" /\ job'[w].ask = job[w].ask
                              \/ job'[w].ask = asks + 1

LEMMA SilentRequest ==
    ASSUME Shape, NEW w \in Callers, Request(w),
           ~Write(w), ~Answer(w), ~UpdateThroughput(w), ~Return(w)
    PROVE  Silent(w)
<1>1. CASE RunBegin(w)
  <2>1. job'[w].pc \in {"setReq", "profile"} /\ Moves(w) /\ job'[w].bytes = NoBytes /\ job[w].pc = "idle"
    BY <1>1, RunBeginEffect
  <2>2. asks' = asks /\ UNCHANGED bytesVars
    BY <1>1 DEF RunBegin
  <2> QED
    BY <2>1, <2>2 DEF Silent
<1>2. CASE SetReq(w)
  BY <1>2, SetReqEffect DEF SetReq, Silent, Keeps, Rest, Fields, processVars
<1>3. CASE SetBody(w)
  BY <1>3, SetBodyEffect DEF SetBody, Silent, Keeps, Rest, Fields, processVars
<1>4. CASE SetField(w)
  BY <1>4, SetFieldEffect DEF SetField, Silent, Keeps, Rest, Fields, invokeVars, processVars
<1>5. CASE NextProfile(w)
  BY <1>5, NextProfileEffect DEF NextProfile, Silent, Keeps, Rest, Fields, processVars
<1>6. CASE Ask(w)
  BY <1>6, AskEffect DEF Ask, Silent, Keeps, Rest, Fields
<1>7. CASE Connect(w)
  BY <1>7, ConnectEffect DEF Connect, Silent, Keeps, Rest, Fields, invokeVars, processVars
<1>8. CASE WriteChunk(w)
  BY <1>8, WriteChunkEffect DEF WriteChunk, Silent, Keeps, Rest, Fields, processVars
<1>9. CASE NextProfileFails(w)
  BY <1>9 DEF NextProfileFails, Silent, Moves, Shape, At, invokeVars, processVars
<1>11. CASE Discard(w)
  BY <1>11, DiscardEffect DEF Discard, Silent, Keeps, Rest, Fields, processVars
<1>12. CASE PrintReq(w)
  BY <1>12, PrintReqEffect DEF PrintReq, Silent, Keeps, Rest, Fields, processVars
<1>13. CASE PrintResp(w)
  BY <1>13, PrintRespEffect DEF PrintResp, Silent, Keeps, Rest, Fields, processVars
<1>14. CASE Log(w)
  BY <1>14, LogEffect DEF Log, Silent, Keeps, Rest, Fields, processVars
<1>17. CASE StopWorker(w)
  BY <1>17, StopWorkerEffect DEF StopWorker, Silent, Keeps, Rest, Fields, invokeVars, processVars
<1> QED
  BY <1>1, <1>2, <1>3, <1>4, <1>5, <1>6, <1>7, <1>8, <1>9, <1>11, <1>12, <1>13, <1>14, <1>17 DEF Request

LEMMA SilentBoot ==
    ASSUME Shape, RunInitial
    PROVE  Starter \in Callers /\ Silent(Starter)
BY RunInitialEffect DEF RunInitial, Silent, Keeps, Rest, Fields, processVars, Callers

LEMMA SilentBytes ==
    ASSUME AsksInv, BytesInv, NEW w \in Callers, Silent(w)
    PROVE  BytesInv'
<1>1. \A v \in Callers : job'[v].bytes \in {job[v].bytes, NoBytes} /\ (v # w => job'[v] = job[v])
  BY DEF Silent, Moves
<1>2. job[w].bytes = NoBytes /\ \A v \in Callers : job'[v].bytes = job[v].bytes
  BY <1>1 DEF BytesInv, BytesAtEnd, Silent
<1>3. UNCHANGED bytesVars /\ asks' >= asks /\ asks \in Nat /\ asks' \in Nat
  BY DEF Silent, AsksInv
<1>4. BytesType'
  BY <1>2, <1>3 DEF BytesInv, BytesType, bytesVars
<1>5. NotCounted'
  <2>1. \A d \in Ways : \A r \in moved[d] : r \in Nat /\ r <= asks
    BY DEF BytesInv, NotCounted, BytesType
  <2>2. \A d \in Ways : \A r \in moved'[d] : r <= asks'
    BY <2>1, <1>3 DEF bytesVars
  <2>3. job'[w].pc = "dial" => \A d \in Ways : job'[w].ask \notin moved'[d]
    BY <2>1, <1>3 DEF BytesInv, NotCounted, Silent, bytesVars
  <2> QED
    BY <2>2, <2>3, <1>1, <1>3 DEF BytesInv, NotCounted, Silent, bytesVars
<1>6. BytesAtEnd'
  BY <1>1, <1>2 DEF BytesInv, BytesAtEnd, Silent
<1>7. OnePlace'
  BY <1>2, <1>3 DEF BytesInv, OnePlace, PlaceOf, Disjoint, bytesVars
<1> QED
  BY <1>4, <1>5, <1>6, <1>7 DEF BytesInv

\* The bytes of a request are counted while it is on its way.
LEMMA CountBytes ==
    ASSUME AsksInv, BytesInv, NEW w \in Callers, NEW d \in Ways, Count(w, d),
           Keeps(w, {"ask", "bytes"}), UNCHANGED asks,
           \/ d = "write" /\ job[w].pc = "dial" /\ job'[w].pc \in {"answer", "swapRead"}
           \/ d = "read" /\ job[w].pc = "answer" /\ job'[w].pc \in {"process", "swapRead"}
    PROVE  BytesInv'
<1>1. /\ \A v \in Callers : v # w => job'[v] = job[v]
      /\ job'[w].ask = job[w].ask /\ job'[w].bytes = job[w].bytes
  BY DEF Keeps, Moves
<1>2. /\ job[w].ask \in Nat /\ job[w].ask <= asks /\ job[w].ask \notin moved[d]
      /\ \A v \in Callers : v # w /\ job[v].pc \in {"dial", "answer"} => job[v].ask # job[w].ask
  BY DEF AsksInv, Asking, BytesInv, NotCounted
<1>3. /\ \A e \in Ways : e # d => counter'[e] = counter[e] /\ moved'[e] = moved[e]
      /\ counter'[d] = counter[d] \cup {job[w].ask} /\ moved'[d] = moved[d] \cup {job[w].ask}
      /\ UNCHANGED <<reported, lost>>
  BY DEF Count, BytesInv, BytesType
<1>4. BytesType'
  BY <1>1, <1>2 DEF BytesInv, BytesType, Count
<1>5. NotCounted'
  BY <1>1, <1>2, <1>3 DEF BytesInv, NotCounted, Ways
<1>6. BytesAtEnd'
  BY <1>1 DEF BytesInv, BytesAtEnd
<1>7. \A v \in Callers : job'[v].bytes = job[v].bytes
  BY <1>1
<1>8. OnePlace'
  BY <1>2, <1>3, <1>7 DEF BytesInv, OnePlace, PlaceOf, Disjoint
<1> QED
  BY <1>4, <1>5, <1>6, <1>8 DEF BytesInv

\* The bytes that a call takes go from the shared counter to its result.
LEMMA SwapBytes ==
    ASSUME Shape, AsksInv, BytesInv, NEW w \in Callers, UpdateThroughput(w)
    PROVE  BytesInv'
<1>1. PICK d \in Ways :
         /\ Keeps(w, Rest \ {"bytes"})
         /\ job[w].pc = (IF d = "read" THEN "swapRead" ELSE "swapWrite")
         /\ job'[w].pc = (IF d = "read" THEN "swapWrite" ELSE "return")
         /\ job'[w].bytes = [job[w].bytes EXCEPT ![d] = counter[d]]
         /\ counter' = [counter EXCEPT ![d] = {}]
         /\ UNCHANGED <<moved, reported, lost>>
  BY SwapEffect
<1>2. UNCHANGED asks
  BY DEF UpdateThroughput, processVars
<1>3. \A v \in Callers : v # w => job'[v] = job[v]
  BY <1>1 DEF Keeps, Moves
<1>4. job[w].bytes[d] = {} /\ (d = "read" => job[w].bytes["write"] = {})
  BY <1>1 DEF BytesInv, BytesAtEnd, NoBytes, Ways
<1>5. /\ \A e \in Ways : e # d => counter'[e] = counter[e] /\ job'[w].bytes[e] = job[w].bytes[e]
      /\ counter'[d] = {} /\ job'[w].bytes[d] = counter[d]
  BY <1>1 DEF BytesInv, BytesType
<1>6. BytesType'
  BY <1>1, <1>3 DEF BytesInv, BytesType
<1>7. NotCounted'
  BY <1>1, <1>2, <1>3 DEF BytesInv, NotCounted
<1>8. BytesAtEnd'
  BY <1>1, <1>3, <1>4, <1>5 DEF BytesInv, BytesAtEnd, Ways
<1>9. OnePlace'
  <2> SUFFICES ASSUME NEW e \in Ways PROVE PlaceOf(e)'
    BY DEF OnePlace
  <2>1. PlaceOf(e)
    BY DEF BytesInv, OnePlace
  <2>2. /\ \A v \in Callers : v # w => job'[v].bytes[e] = job[v].bytes[e]
        /\ moved'[e] = moved[e] /\ reported'[e] = reported[e] /\ lost'[e] = lost[e]
    BY <1>1, <1>3
  <2>3. CASE e = d
    <3>1. job[w].bytes[e] = {} /\ counter'[e] = {} /\ job'[w].bytes[e] = counter[e]
      BY <1>4, <1>5, <2>3
    <3>2. \A r : r \in moved'[e] <=> \/ r \in counter'[e] \/ r \in reported'[e] \/ r \in lost'[e]
                                     \/ \E v \in Callers : r \in job'[v].bytes[e]
      BY <2>1, <2>2, <3>1 DEF PlaceOf
    <3>3. /\ Disjoint(counter'[e], reported'[e]) /\ Disjoint(counter'[e], lost'[e])
          /\ Disjoint(reported'[e], lost'[e])
      BY <2>1, <2>2, <3>1 DEF PlaceOf, Disjoint
    <3>4. \A v \in Callers : /\ Disjoint(job'[v].bytes[e], counter'[e])
                            /\ Disjoint(job'[v].bytes[e], reported'[e])
                            /\ Disjoint(job'[v].bytes[e], lost'[e])
      BY <2>1, <2>2, <3>1 DEF PlaceOf, Disjoint
    <3>5. \A u, v \in Callers : u # v => Disjoint(job'[u].bytes[e], job'[v].bytes[e])
      BY <2>1, <2>2, <3>1 DEF PlaceOf, Disjoint
    <3> QED
      BY <3>2, <3>3, <3>4, <3>5 DEF PlaceOf
  <2>4. CASE e # d
    <3>1. counter'[e] = counter[e] /\ \A v \in Callers : job'[v].bytes[e] = job[v].bytes[e]
      BY <1>5, <2>2, <2>4
    <3> QED
      BY <2>1, <2>2, <3>1 DEF PlaceOf
  <2> QED
    BY <2>3, <2>4
<1> QED
  BY <1>6, <1>7, <1>8, <1>9 DEF BytesInv

\* What a call has goes where its result goes.
LEMMA EndBytes ==
    ASSUME BytesInv, NEW w \in Callers, Moves(w), UNCHANGED <<counter, moved, asks>>,
           job'[w].pc \in {"idle", "ended"}, job'[w].bytes = NoBytes,
           \/ /\ lost' = [d \in Ways |-> lost[d] \cup job[w].bytes[d]] /\ UNCHANGED reported
           \/ /\ reported' = [d \in Ways |-> reported[d] \cup job[w].bytes[d]] /\ UNCHANGED lost
    PROVE  BytesInv'
<1>1. \A v \in Callers : v # w => job'[v] = job[v]
  BY DEF Moves
<1>2. \A d \in Ways : job'[w].bytes[d] = {}
  BY DEF NoBytes
<1>3. BytesType'
  BY <1>1 DEF BytesInv, BytesType, NoBytes
<1>4. NotCounted'
  BY <1>1 DEF BytesInv, NotCounted
<1>5. BytesAtEnd'
  BY <1>1 DEF BytesInv, BytesAtEnd
<1>6. CASE lost' = [d \in Ways |-> lost[d] \cup job[w].bytes[d]] /\ UNCHANGED reported
  <2>1. OnePlace'
    BY <1>1, <1>2, <1>6 DEF BytesInv, OnePlace, PlaceOf, Disjoint
  <2> QED
    BY <1>3, <1>4, <1>5, <2>1 DEF BytesInv
<1>7. CASE reported' = [d \in Ways |-> reported[d] \cup job[w].bytes[d]] /\ UNCHANGED lost
  <2>1. OnePlace'
    BY <1>1, <1>2, <1>7 DEF BytesInv, OnePlace, PlaceOf, Disjoint
  <2> QED
    BY <1>3, <1>4, <1>5, <2>1 DEF BytesInv
<1> QED
  BY <1>6, <1>7

LEMMA WriteBytes ==
    ASSUME Shape, AsksInv, BytesInv, NEW w \in Callers, Write(w)
    PROVE  BytesInv'
<1>1. Keeps(w, {"ask", "bytes"}) /\ job[w].pc = "dial" /\ job'[w].pc \in {"answer", "swapRead"}
  BY WriteEffect DEF Keeps, Rest, Fields
<1>2. Count(w, "write") /\ UNCHANGED asks
  BY DEF Write, processVars
<1> QED
  BY <1>1, <1>2, CountBytes DEF Ways

LEMMA AnswerBytes ==
    ASSUME Shape, AsksInv, BytesInv, NEW w \in Callers, Answer(w)
    PROVE  BytesInv'
<1>1. Keeps(w, {"ask", "bytes"}) /\ job[w].pc = "answer" /\ job'[w].pc \in {"process", "swapRead"}
  BY AnswerEffect DEF Keeps, Rest, Fields
<1>2. UNCHANGED asks
  BY DEF Answer, processVars
<1>3. CASE Count(w, "read")
  BY <1>1, <1>2, <1>3, CountBytes DEF Ways
<1>4. CASE UNCHANGED bytesVars
  <2>1. Silent(w)
    BY <1>1, <1>2, <1>4 DEF Silent, Keeps
  <2> QED
    BY <2>1, SilentBytes
<1> QED
  BY <1>3, <1>4 DEF Answer

LEMMA BytesStep == Shape /\ AsksInv /\ BytesInv /\ [Next]_vars => BytesInv'
<1> SUFFICES ASSUME Shape, AsksInv, BytesInv, [Next]_vars PROVE BytesInv'
  OBVIOUS
<1>1. CASE UNCHANGED <<job, bytesVars, asks>>
  BY <1>1 DEF BytesInv, BytesType, NotCounted, BytesAtEnd, OnePlace, PlaceOf, bytesVars
<1>2. ASSUME NEW w \in Callers, Return(w) PROVE BytesInv'
  <2>1. /\ Moves(w) /\ job'[w].pc \in {"idle", "ended"} /\ job'[w].bytes = NoBytes
           /\ ~job'[w].plain
    BY <1>2, ReturnEffect
  <2>2. /\ UNCHANGED <<counter, moved, asks>>
        /\ \/ /\ lost' = [d \in Ways |-> lost[d] \cup job[w].bytes[d]] /\ UNCHANGED reported
           \/ /\ reported' = [d \in Ways |-> reported[d] \cup job[w].bytes[d]] /\ UNCHANGED lost
    BY <1>2 DEF Return, processVars
  <2> QED
    BY <2>1, <2>2, EndBytes
<1>3. CASE ReturnInitial
  <2>1. /\ Starter \in Callers /\ Moves(Starter)
        /\ job'[Starter].pc \in {"idle", "ended"} /\ job'[Starter].bytes = NoBytes
    BY <1>3, ReturnInitialEffect DEF Callers
  <2>2. /\ UNCHANGED <<counter, moved, asks>>
        /\ lost' = [d \in Ways |-> lost[d] \cup job[Starter].bytes[d]] /\ UNCHANGED reported
    BY <1>3 DEF ReturnInitial
  <2> QED
    BY <2>1, <2>2, EndBytes
<1>4. CASE RunInitial
  BY <1>4, SilentBoot, SilentBytes
<1>5. ASSUME NEW w \in Callers, Request(w) PROVE BytesInv'
  BY <1>2, <1>5, WriteBytes, AnswerBytes, SwapBytes, SilentRequest, SilentBytes
<1> QED
  BY <1>1, <1>3, <1>4, <1>5, StepKinds DEF Boot, Elsewhere, Finishes, invokeVars, processVars

\* Whatever the requests do at the same time, no byte is reported twice, and none is missing
\* but those of dropped results: updateThroughput takes the shared counters at the end of
\* every request.
THEOREM BytesReportedOnce == Spec => []BytesOnce
<1>1. Init => Shape /\ AsksInv /\ BytesInv
  BY InitShape, InitBytes DEF Init, InvokeInit, AsksInv, Asking, NoJob
<1>2. Shape /\ AsksInv /\ BytesInv /\ [Next]_vars => (Shape /\ AsksInv /\ BytesInv)'
  BY NextShape, AsksStep, BytesStep
<1>3. BytesInv => BytesOnce
  BY BytesInvImplies
<1> QED
  BY <1>1, <1>2, <1>3, PTL DEF Spec

(***************************************************************************)
(* BlocksWhole                                                             *)
(***************************************************************************)

\* What w prints stands at the end while w has the lock, and there is nothing of a request
\* that is not printed yet.
PrintedInv ==
    /\ out \in Seq(Nat) /\ \A i \in DOMAIN out : out[i] <= asks
    /\ opt.printOption = {} => out = <<>>
    /\ opt.printOption # {} => \A w \in Callers : job[w].pc = "printResp" => printLock = w
    /\ \A w \in Callers :
          /\ job[w].pc \in {"dial", "answer", "process"} => \A i \in DOMAIN out : out[i] # job[w].ask
          /\ job[w].pc = "printResp" => \A i \in DOMAIN out : out[i] = job[w].ask => i = Len(out)

BlocksInv == PrintedInv /\ BlocksWhole

\* A step that prints nothing.
Quiet(w) ==
    /\ UNCHANGED <<opt, out, printLock>> /\ Moves(w)
    /\ asks' \in {asks, asks + 1}
    /\ job[w].pc # "printResp" /\ job'[w].pc # "printResp"
    /\ job'[w].pc \in {"dial", "answer", "process"} =>
          \/ job[w].pc \in {"dial", "answer", "process"} /\ job'[w].ask = job[w].ask
          \/ job'[w].ask = asks + 1

LEMMA QuietRequest ==
    ASSUME Shape, NEW w \in Callers, Request(w), ~PrintReq(w), ~PrintResp(w)
    PROVE  Quiet(w)
<1>1. CASE RunBegin(w)
  <2>1. job'[w].pc \in {"setReq", "profile"} /\ Moves(w) /\ job[w].pc = "idle"
    BY <1>1, RunBeginEffect
  <2>2. UNCHANGED <<opt, out, printLock, asks>>
    BY <1>1 DEF RunBegin
  <2> QED
    BY <2>1, <2>2 DEF Quiet
<1>2. CASE SetReq(w)
  BY <1>2, SetReqEffect DEF SetReq, Quiet, Keeps, Rest, Fields, processVars, printVars
<1>3. CASE SetBody(w)
  <2>1. UNCHANGED opt
    BY <1>3 DEF SetBody, SetBodyStream, SetBodyUpload, SetBodyBytes, SetBodyLine, SetBodyRest
  <2> QED
    BY <1>3, <2>1, SetBodyEffect DEF SetBody, Quiet, Keeps, Rest, Fields, processVars, printVars
<1>4. CASE SetField(w)
  BY <1>4, SetFieldEffect DEF SetField, Quiet, Keeps, Rest, Fields, invokeVars, processVars, printVars
<1>5. CASE NextProfile(w)
  BY <1>5, NextProfileEffect DEF NextProfile, Quiet, Keeps, Rest, Fields, processVars, printVars
<1>6. CASE Ask(w)
  BY <1>6, AskEffect DEF Ask, Quiet, Keeps, Rest, Fields, printVars
<1>7. CASE Connect(w)
  BY <1>7, ConnectEffect DEF Connect, Quiet, Keeps, Rest, Fields, invokeVars, processVars, printVars
<1>8. CASE WriteChunk(w)
  BY <1>8, WriteChunkEffect DEF WriteChunk, Quiet, Keeps, Rest, Fields, processVars, printVars
<1>9. CASE NextProfileFails(w)
  BY <1>9 DEF NextProfileFails, Quiet, Moves, Shape, At, invokeVars, processVars, printVars
<1>10. CASE Write(w)
  BY <1>10, WriteEffect DEF Write, Quiet, Keeps, Rest, Fields, processVars, printVars
<1>11. CASE Answer(w)
  BY <1>11, AnswerEffect DEF Answer, Quiet, Keeps, Rest, Fields, processVars, printVars
<1>12. CASE Discard(w)
  BY <1>12, DiscardEffect DEF Discard, Quiet, Keeps, Rest, Fields, processVars, printVars
<1>13. CASE Log(w)
  BY <1>13, LogEffect DEF Log, Quiet, Keeps, Rest, Fields, processVars
<1>14. CASE UpdateThroughput(w)
  BY <1>14, SwapEffect DEF UpdateThroughput, Quiet, Keeps, Rest, Fields, processVars, printVars
<1>15. CASE Return(w)
  <2>1. job'[w].pc \in {"idle", "ended"} /\ Moves(w) /\ job[w].pc = "return"
    BY <1>15, ReturnEffect
  <2>2. UNCHANGED <<opt, out, printLock, asks>>
    BY <1>15 DEF Return, processVars, printVars
  <2> QED
    BY <2>1, <2>2 DEF Quiet
<1>16. CASE StopWorker(w)
  BY <1>16, StopWorkerEffect DEF StopWorker, Quiet, Keeps, Rest, Fields, invokeVars, processVars, printVars
<1> QED
  BY <1>1, <1>2, <1>3, <1>4, <1>5, <1>6, <1>7, <1>8, <1>9, <1>10, <1>11, <1>12, <1>13, <1>14,
     <1>15, <1>16 DEF Request

LEMMA QuietBoot ==
    ASSUME Shape, Boot
    PROVE  Starter \in Callers /\ Quiet(Starter)
<1>1. CASE RunInitial
  BY <1>1, RunInitialEffect DEF RunInitial, Quiet, Keeps, Rest, Fields, processVars, Callers
<1>2. CASE ReturnInitial
  BY <1>2, ReturnInitialEffect DEF ReturnInitial, Quiet, Callers, printVars
<1> QED
  BY <1>1, <1>2 DEF Boot

LEMMA QuietBlocks ==
    ASSUME AsksInv, BlocksInv, NEW w \in Callers, Quiet(w)
    PROVE  BlocksInv'
<1>1. /\ UNCHANGED <<opt, out, printLock>> /\ \A v \in Callers : v # w => job'[v] = job[v]
      /\ asks \in Nat /\ asks' \in Nat /\ asks' >= asks
  BY DEF Quiet, Moves, AsksInv
<1>2. \A i \in DOMAIN out : out[i] \in Nat /\ out[i] <= asks
  BY DEF BlocksInv, PrintedInv
<1>3. job'[w].pc \in {"dial", "answer", "process"} => \A i \in DOMAIN out : out[i] # job'[w].ask
  BY <1>1, <1>2 DEF BlocksInv, PrintedInv, Quiet
<1>4. \A i \in DOMAIN out' : out'[i] <= asks'
  BY <1>1, <1>2
<1>5. \A v \in Callers :
         /\ job'[v].pc \in {"dial", "answer", "process"} => \A i \in DOMAIN out' : out'[i] # job'[v].ask
         /\ job'[v].pc = "printResp" => \A i \in DOMAIN out' : out'[i] = job'[v].ask => i = Len(out')
  BY <1>1, <1>3 DEF BlocksInv, PrintedInv, Quiet
<1>6. opt'.printOption # {} => \A v \in Callers : job'[v].pc = "printResp" => printLock' = v
  BY <1>1 DEF BlocksInv, PrintedInv, Quiet
<1>7. PrintedInv'
  BY <1>1, <1>4, <1>5, <1>6 DEF BlocksInv, PrintedInv
<1> QED
  BY <1>1, <1>7 DEF BlocksInv, BlocksWhole

LEMMA AppendFacts ==
    ASSUME NEW s \in Seq(Nat), NEW x \in Nat
    PROVE  /\ Append(s, x) \in Seq(Nat) /\ Len(Append(s, x)) = Len(s) + 1
           /\ DOMAIN Append(s, x) = 1 .. Len(s) + 1 /\ Append(s, x)[Len(s) + 1] = x
           /\ \A i \in 1 .. Len(s) : Append(s, x)[i] = s[i]
OBVIOUS

\* Something of w is printed behind what there is.
LEMMA AppendBlocks ==
    ASSUME AsksInv, BlocksInv, NEW w \in Callers, Keeps(w, {"ask"}), UNCHANGED <<opt, asks>>,
           job[w].pc \in {"process", "printResp"}, job'[w].pc \in {"printResp", "log"},
           opt.printOption # {}, \A v \in Callers : v # w => job[v].pc # "printResp",
           job'[w].pc = "printResp" => job[w].pc = "process" /\ printLock' = w,
           out' \in {out, Append(out, job[w].ask)}
    PROVE  BlocksInv'
<1> DEFINE a == job[w].ask
           n == Len(out)
<1>1. /\ \A v \in Callers : v # w => job'[v] = job[v]
      /\ job'[w].ask = a /\ a \in Nat /\ a <= asks /\ asks \in Nat
  BY DEF Keeps, Moves, AsksInv, Asking
<1>2. /\ out \in Seq(Nat) /\ n \in Nat /\ DOMAIN out = 1 .. n
      /\ \A i \in 1 .. n : out[i] \in Nat /\ out[i] <= asks
  BY DEF BlocksInv, PrintedInv
<1>3. \A i \in 1 .. n : out[i] = a => i = n
  BY <1>2 DEF BlocksInv, PrintedInv
<1>4. job[w].pc = "process" => \A i \in 1 .. n : out[i] # a
  BY <1>2 DEF BlocksInv, PrintedInv
<1>5. \A v \in Callers : v # w /\ job[v].pc \in {"dial", "answer", "process"} =>
         job[v].ask # a /\ \A i \in 1 .. n : out[i] # job[v].ask
  BY <1>2 DEF AsksInv, Asking, BlocksInv, PrintedInv
<1>6. \A v \in Callers : v # w => job'[v].pc # "printResp"
  BY <1>1
<1>7. \A v \in Callers : job'[v].pc = "printResp" => printLock' = v
  BY <1>6
<1>8. \A i, j \in 1 .. n : i < j /\ out[i] = out[j] => \A k \in i .. j : out[k] = out[i]
  BY <1>2 DEF BlocksInv, BlocksWhole
<1>9. out' \in {out, Append(out, a)} /\ opt'.printOption # {} /\ asks' = asks
  OBVIOUS
<1>10. /\ job'[w].pc \in {"printResp", "log"}
       /\ job'[w].pc = "printResp" => job[w].pc = "process"
  OBVIOUS
<1> HIDE DEF a, n
<1>11. CASE out' = out
  <2>1. \A v \in Callers :
         /\ job'[v].pc \in {"dial", "answer", "process"} => \A i \in 1 .. n : out'[i] # job'[v].ask
         /\ job'[v].pc = "printResp" => \A i \in 1 .. n : out'[i] = job'[v].ask => i = n
    BY <1>1, <1>3, <1>4, <1>5, <1>6, <1>10, <1>11
  <2>2. PrintedInv'
    BY <1>1, <1>2, <1>7, <1>9, <1>11, <2>1 DEF PrintedInv, n
  <2> QED
    BY <1>11, <2>2 DEF BlocksInv, BlocksWhole
<1>12. CASE out' = Append(out, a)
  <2>1. /\ Len(out') = n + 1 /\ DOMAIN out' = 1 .. n + 1 /\ out' \in Seq(Nat)
        /\ out'[n + 1] = a /\ \A i \in 1 .. n : out'[i] = out[i]
    <3>1. /\ Append(out, a) \in Seq(Nat) /\ Len(Append(out, a)) = Len(out) + 1
          /\ DOMAIN Append(out, a) = 1 .. Len(out) + 1 /\ Append(out, a)[Len(out) + 1] = a
          /\ \A i \in 1 .. Len(out) : Append(out, a)[i] = out[i]
      BY <1>1, <1>2, AppendFacts
    <3> QED
      BY <1>12, <3>1 DEF n
  <2>2. \A i \in 1 .. n + 1 : out'[i] <= asks
    BY <1>1, <1>2, <2>1
  <2>3. \A v \in Callers :
         /\ job'[v].pc \in {"dial", "answer", "process"} => \A i \in 1 .. n + 1 : out'[i] # job'[v].ask
         /\ job'[v].pc = "printResp" => \A i \in 1 .. n + 1 : out'[i] = job'[v].ask => i = n + 1
    <3>1. ASSUME NEW v \in Callers, job'[v].pc \in {"dial", "answer", "process"}, NEW i \in 1 .. n + 1
          PROVE  out'[i] # job'[v].ask
      <4>1. v # w /\ job[v].pc \in {"dial", "answer", "process"} /\ job'[v].ask = job[v].ask
        BY <1>1, <1>10, <3>1
      <4>2. job'[v].ask # a /\ \A k \in 1 .. n : out[k] # job'[v].ask
        BY <1>5, <4>1
      <4>3. i \in 1 .. n \/ i = n + 1
        BY <1>2
      <4> QED
        BY <2>1, <4>2, <4>3
    <3>2. ASSUME NEW v \in Callers, job'[v].pc = "printResp", NEW i \in 1 .. n + 1, out'[i] = job'[v].ask
          PROVE  i = n + 1
      <4>1. v = w /\ job[w].pc = "process"
        BY <1>6, <1>10, <3>2
      <4>2. i \in 1 .. n \/ i = n + 1
        BY <1>2
      <4> QED
        BY <1>1, <1>4, <2>1, <3>2, <4>1, <4>2
    <3> QED
      BY <3>1, <3>2
  <2>4. PrintedInv'
    BY <1>7, <1>9, <2>1, <2>2, <2>3 DEF PrintedInv
  <2>5. ASSUME NEW i \in 1 .. n + 1, NEW j \in 1 .. n + 1, i < j, out'[i] = out'[j], NEW k \in i .. j
        PROVE  out'[k] = out'[i]
    <3>1. i \in 1 .. n /\ out'[i] = out[i]
      BY <1>2, <2>1, <2>5
    <3>2. CASE j \in 1 .. n
      <4>1. k \in 1 .. n /\ out[k] = out[i]
        <5>1. out[i] = out[j] /\ k \in 1 .. n
          <6>1. out[i] = out[j]
            BY <2>1, <2>5, <3>1, <3>2
          <6>2. i \in Int /\ j \in Int /\ i >= 1 /\ j <= n /\ k \in Int /\ k >= i /\ k <= j
            BY <1>2, <2>5, <3>2
          <6> QED
            BY <1>2, <6>1, <6>2
        <5> QED
          BY <1>8, <2>5, <3>1, <3>2, <5>1
      <4> QED
        BY <2>1, <3>1, <4>1
    <3>3. CASE j = n + 1
      <4>1. out[i] = a
        BY <2>1, <2>5, <3>1, <3>3
      <4>2. i = n
        BY <1>3, <3>1, <4>1
      <4>3. k = n \/ k = n + 1
        BY <1>2, <2>5, <3>3, <4>2
      <4> QED
        BY <2>1, <2>5, <3>3, <4>2, <4>3
    <3> QED
      BY <1>2, <3>2, <3>3
  <2> QED
    BY <2>1, <2>4, <2>5 DEF BlocksInv, BlocksWhole
<1> QED
  BY <1>9, <1>11, <1>12

LEMMA PrintReqBlocks ==
    ASSUME Shape, AsksInv, BlocksInv, NEW w \in Callers, PrintReq(w)
    PROVE  BlocksInv'
<1>1. /\ Keeps(w, {"ask"}) /\ job[w].pc = "process" /\ job'[w].pc = "printResp"
      /\ UNCHANGED <<opt, asks>>
  BY PrintReqEffect DEF Keeps, Rest, Fields, PrintReq, processVars
<1>2. CASE opt.printOption # {}
  <2>1. /\ printLock = Nobody /\ printLock' = w /\ out' \in {out, Append(out, job[w].ask)}
    BY <1>2 DEF PrintReq, CanLock
  <2>2. \A v \in Callers : v # w => job[v].pc # "printResp"
    BY <1>2, <2>1, InvokerAssumption DEF BlocksInv, PrintedInv
  <2> QED
    BY <1>1, <1>2, <2>1, <2>2, AppendBlocks
<1>3. CASE opt.printOption = {}
  <2>1. out' = <<>> /\ out = <<>>
    BY <1>3 DEF PrintReq, PrintsReq, BlocksInv, PrintedInv
  <2> QED
    BY <1>1, <1>3, <2>1 DEF BlocksInv, PrintedInv, BlocksWhole
<1> QED
  BY <1>2, <1>3

LEMMA PrintRespBlocks ==
    ASSUME Shape, AsksInv, BlocksInv, NEW w \in Callers, PrintResp(w)
    PROVE  BlocksInv'
<1>1. /\ Keeps(w, {"ask"}) /\ job[w].pc = "printResp" /\ job'[w].pc = "log"
      /\ UNCHANGED <<opt, asks>>
  BY PrintRespEffect DEF Keeps, Rest, Fields, PrintResp, processVars
<1>2. CASE opt.printOption # {}
  <2>1. out' \in {out, Append(out, job[w].ask)}
    BY DEF PrintResp, PrintRespFails
  <2>2. \A v \in Callers : v # w => job[v].pc # "printResp"
    BY <1>1, <1>2 DEF BlocksInv, PrintedInv
  <2> QED
    BY <1>1, <1>2, <2>1, <2>2, AppendBlocks
<1>3. CASE opt.printOption = {}
  <2>1. out' = <<>> /\ out = <<>>
    BY <1>3 DEF PrintResp, PrintRespFails, Prints, BlocksInv, PrintedInv
  <2> QED
    BY <1>1, <1>3, <2>1 DEF BlocksInv, PrintedInv, BlocksWhole
<1> QED
  BY <1>2, <1>3

LEMMA BlocksStep == Shape /\ AsksInv /\ BlocksInv /\ [Next]_vars => BlocksInv'
<1> SUFFICES ASSUME Shape, AsksInv, BlocksInv, [Next]_vars PROVE BlocksInv'
  OBVIOUS
<1>1. CASE UNCHANGED <<opt, job, out, printLock, asks>>
  BY <1>1 DEF BlocksInv, PrintedInv, BlocksWhole
<1>2. CASE Boot
  BY <1>2, QuietBoot, QuietBlocks
<1>3. ASSUME NEW w \in Callers, Request(w) PROVE BlocksInv'
  BY <1>3, PrintReqBlocks, PrintRespBlocks, QuietRequest, QuietBlocks
<1> QED
  BY <1>1, <1>2, <1>3, StepKinds DEF Elsewhere, Finishes, invokeVars, processVars, printVars

\* What is printed of a request and of its response stands together: the workers print under
\* printLock, which they take before the one and give back after the other.
THEOREM BlocksStayWhole == Spec => []BlocksWhole
<1>1. Init => Shape /\ AsksInv /\ BlocksInv
  BY InitShape DEF Init, InvokeInit, AsksInv, Asking, NoJob, BlocksInv, PrintedInv, BlocksWhole
<1>2. Shape /\ AsksInv /\ BlocksInv /\ [Next]_vars => (Shape /\ AsksInv /\ BlocksInv)'
  BY NextShape, AsksStep, BlocksStep
<1>3. BlocksInv => BlocksWhole
  BY DEF BlocksInv
<1> QED
  BY <1>1, <1>2, <1>3, PTL DEF Spec


(***************************************************************************)
(* ConnectionsOwned                                                        *)
(***************************************************************************)
Up == {"connect", "connected", "handshake", "ready"}

DialInv ==
    /\ dialing = [w \in Callers |-> dialing[w]]
    /\ idle \in Nat /\ leaked \in Nat
    /\ ConnectionsOwned

\* Who waits for an answer has a connection.
ConnInv ==
    /\ DialInv
    /\ \A w \in Callers : job[w].pc = "answer" => dialing[w] = "ready"

LEMMA CallersFinite == IsFiniteSet(Callers)
BY WorkersAssumption, FS_AddElement DEF Callers

LEMMA ConnectedFinite == IsFiniteSet(Connected) /\ Cardinality(Connected) \in Nat
<1>1. Connected \subseteq Callers
  BY DEF Connected
<1> QED
  BY <1>1, CallersFinite, FS_Subset, FS_CardinalityType

\* What one caller's place in the chain of dialers counts for.
LEMMA PlaceMoves ==
    ASSUME DialInv, NEW w \in Callers, NEW s, Through(w, s)
    PROVE  /\ dialing' = [v \in Callers |-> dialing'[v]]
           /\ dialing'[w] = s /\ \A v \in Callers : v # w => dialing'[v] = dialing[v]
           /\ (dialing[w] \in Up <=> s \in Up) => Cardinality(Connected') = Cardinality(Connected)
           /\ dialing[w] \notin Up /\ s \in Up => Cardinality(Connected') = Cardinality(Connected) + 1
           /\ dialing[w] \in Up /\ s \notin Up => Cardinality(Connected') = Cardinality(Connected) - 1
<1>1. /\ dialing' = [v \in Callers |-> dialing'[v]]
      /\ dialing'[w] = s /\ \A v \in Callers : v # w => dialing'[v] = dialing[v]
  BY DEF Through, DialInv
<1>2. \A v \in Callers : v \in Connected <=> dialing[v] \in Up
  BY DEF Connected, Up
<1>3. \A v \in Callers : v \in Connected' <=> dialing'[v] \in Up
  BY DEF Connected, Up
<1>4. Connected \subseteq Callers /\ Connected' \subseteq Callers
  BY DEF Connected
<1>5. ASSUME dialing[w] \in Up <=> s \in Up PROVE Connected' = Connected
  BY <1>1, <1>2, <1>3, <1>4, <1>5
<1>6. ASSUME dialing[w] \notin Up, s \in Up PROVE Cardinality(Connected') = Cardinality(Connected) + 1
  <2>1. Connected' = Connected \cup {w} /\ w \notin Connected
    BY <1>1, <1>2, <1>3, <1>4, <1>6
  <2> QED
    BY <2>1, ConnectedFinite, FS_AddElement
<1>7. ASSUME dialing[w] \in Up, s \notin Up PROVE Cardinality(Connected') = Cardinality(Connected) - 1
  <2>1. Connected' = Connected \ {w} /\ w \in Connected
    BY <1>1, <1>2, <1>3, <1>4, <1>7
  <2> QED
    BY <2>1, ConnectedFinite, FS_RemoveElement
<1> QED
  BY <1>1, <1>5, <1>6, <1>7

\* A step of the chain of dialers that w takes.
Linked(w) == DialInv' /\ \A v \in Callers : v # w => dialing'[v] = dialing[v]

LEMMA AcquireLinked ==
    ASSUME DialInv, NEW w \in Callers, Acquire(w)
    PROVE  Linked(w)
<1>1. CASE idle > 0
  <2>1. Through(w, "ready") /\ dialing[w] \notin Up /\ "ready" \in Up
    BY <1>1 DEF Acquire, Through, Up
  <2>2. idle' = idle - 1 /\ UNCHANGED <<opened, leaked>>
    BY <1>1 DEF Acquire
  <2> QED
    BY <1>1, <2>1, <2>2, PlaceMoves, ConnectedFinite DEF DialInv, Linked, ConnectionsOwned
<1>2. CASE ~(idle > 0)
  <2>1. Through(w, "dial") /\ dialing[w] \notin Up /\ "dial" \notin Up
    BY <1>2 DEF Acquire, Through, Up
  <2>2. UNCHANGED <<idle, opened, leaked>>
    BY <1>2 DEF Acquire
  <2> QED
    BY <2>1, <2>2, PlaceMoves, ConnectedFinite DEF DialInv, Linked, ConnectionsOwned
<1> QED
  BY <1>1, <1>2

\* A step that goes on, that breaks off, that breaks off and leaves the connection open.
LEMMA DialingKinds ==
    ASSUME NEW w \in Callers, Dialing(w)
    PROVE  \/ /\ dialing[w] \notin Up /\ \E s \in Up : Through(w, s)
              /\ opened' = opened + 1 /\ UNCHANGED <<idle, leaked>>
           \/ /\ dialing[w] \in Up /\ \E s \in Up : Through(w, s)
              /\ UNCHANGED <<opened, idle, leaked>>
           \/ /\ dialing[w] \notin Up /\ \E s : s \notin Up /\ Through(w, s)
              /\ UNCHANGED <<opened, idle, leaked>>
           \/ /\ dialing[w] \in Up /\ \E s : s \notin Up /\ Through(w, s)
              /\ opened' = opened - 1 /\ UNCHANGED <<idle, leaked>>
           \/ /\ dialing[w] \in Up /\ \E s : s \notin Up /\ Through(w, s)
              /\ leaked' = leaked + 1 /\ UNCHANGED <<idle, opened>>
<1>1. Last \in Up /\ "connect" \in Up /\ "connected" \in Up /\ "handshake" \in Up /\ "ready" \in Up
      /\ "refused" \notin Up /\ "dial" \notin Up
  BY DEF Last, Up
<1>2. CASE Dial(w)
  BY <1>1, <1>2 DEF Dial
<1>3. CASE ConnectWrite(w)
  BY <1>1, <1>3 DEF ConnectWrite
<1>4. CASE ConnectRead(w)
  BY <1>1, <1>4 DEF ConnectRead, Refuse
<1>5. CASE Handshake(w)
  BY <1>1, <1>5 DEF Handshake, Refuse
<1> QED
  BY <1>2, <1>3, <1>4, <1>5 DEF Dialing

LEMMA DialingLinked ==
    ASSUME DialInv, NEW w \in Callers, Dialing(w)
    PROVE  Linked(w)
<1>1. ASSUME NEW s, Through(w, s), NEW c \in Int, NEW l \in Nat,
             Cardinality(Connected') = Cardinality(Connected) + c, idle' = idle,
             leaked' = leaked + l, opened' = opened + c + l
      PROVE  Linked(w)
  BY <1>1, PlaceMoves, ConnectedFinite DEF DialInv, Linked, ConnectionsOwned
<1>2. opened \in Int /\ leaked \in Nat /\ Cardinality(Connected) \in Nat
  BY ConnectedFinite DEF DialInv, ConnectionsOwned
<1>3. ASSUME dialing[w] \notin Up, NEW s \in Up, Through(w, s), opened' = opened + 1,
             UNCHANGED <<idle, leaked>>
      PROVE  Linked(w)
  <2>1. Cardinality(Connected') = Cardinality(Connected) + 1
    BY <1>3, PlaceMoves
  <2> QED
    BY <1>1, <1>2, <1>3, <2>1
<1>4. ASSUME NEW s, Through(w, s), dialing[w] \in Up <=> s \in Up, UNCHANGED <<opened, idle, leaked>>
      PROVE  Linked(w)
  <2>1. Cardinality(Connected') = Cardinality(Connected) + 0
    BY <1>2, <1>4, PlaceMoves
  <2> QED
    BY <1>1, <1>2, <1>4, <2>1
<1>5. ASSUME dialing[w] \in Up, NEW s, s \notin Up, Through(w, s), opened' = opened - 1,
             UNCHANGED <<idle, leaked>>
      PROVE  Linked(w)
  <2>1. Cardinality(Connected') = Cardinality(Connected) + (-1)
    BY <1>2, <1>5, PlaceMoves
  <2> QED
    BY <1>1, <1>2, <1>5, <2>1
<1>6. ASSUME dialing[w] \in Up, NEW s, s \notin Up, Through(w, s), leaked' = leaked + 1,
             UNCHANGED <<idle, opened>>
      PROVE  Linked(w)
  <2>1. Cardinality(Connected') = Cardinality(Connected) + (-1)
    BY <1>2, <1>6, PlaceMoves
  <2> QED
    BY <1>1, <1>2, <1>6, <2>1
<1> QED
  BY <1>3, <1>4, <1>5, <1>6, DialingKinds

\* A connection that is given back.
LEMMA ReleaseLinked ==
    ASSUME DialInv, NEW w \in Callers, NEW answered, Release(w, answered), dialing[w] = "ready"
    PROVE  Linked(w)
<1>1. Through(w, "none") /\ dialing[w] \in Up /\ "none" \notin Up
  BY DEF Release, Through, Up
<1>2. Cardinality(Connected') = Cardinality(Connected) - 1
  BY <1>1, PlaceMoves
<1>3. /\ leaked' = leaked
      /\ (idle' = idle + 1 /\ opened' = opened) \/ (idle' = idle /\ opened' = opened - 1)
  BY DEF Release
<1> QED
  BY <1>1, <1>2, <1>3, PlaceMoves, ConnectedFinite DEF DialInv, Linked, ConnectionsOwned

LEMMA ForgetLinked ==
    ASSUME DialInv, NEW w \in Callers, Forget(w), dialing[w] = "refused"
    PROVE  Linked(w)
<1>1. Through(w, "none") /\ (dialing[w] \in Up <=> "none" \in Up) /\ UNCHANGED <<idle, opened, leaked>>
  BY DEF Forget, Up
<1> QED
  BY <1>1, PlaceMoves, ConnectedFinite DEF DialInv, Linked, ConnectionsOwned

LEMMA ConnStep == Shape /\ ConnInv /\ [Next]_vars => ConnInv'
<1> SUFFICES ASSUME Shape, ConnInv, [Next]_vars PROVE ConnInv'
  OBVIOUS
<1>1. ASSUME UNCHANGED dialVars,
             \/ UNCHANGED job
             \/ \E w \in Callers : Moves(w) /\ job'[w].pc # "answer"
      PROVE  ConnInv'
  <2>1. DialInv'
    BY <1>1 DEF ConnInv, DialInv, dialVars, ConnectionsOwned, Connected
  <2> QED
    BY <1>1, <2>1 DEF ConnInv, Moves, dialVars
<1>2. ASSUME NEW w \in Callers, Moves(w), Linked(w), job'[w].pc # "answer"
      PROVE  ConnInv'
  BY <1>2 DEF ConnInv, Linked, Moves
<1>3. CASE Boot
  <2>1. UNCHANGED dialVars /\ Starter \in Callers
    BY <1>3 DEF Boot, RunInitial, ReturnInitial, Callers
  <2> QED
    BY <1>1, <1>3, <2>1, RunInitialEffect, ReturnInitialEffect DEF Boot, Keeps
<1>4. ASSUME NEW w \in Callers, Request(w) PROVE ConnInv'
  <2>1. CASE Ask(w)
    BY <1>2, <2>1, AskEffect, AcquireLinked DEF Ask, Keeps, ConnInv
  <2>2. CASE Connect(w)
    <3>1. Dialing(w) \/ (dialing[w] = "refused" /\ Forget(w))
      BY <2>2 DEF Connect
    <3>2. Linked(w)
      BY <3>1, DialingLinked, ForgetLinked DEF ConnInv
    <3> QED
      BY <1>2, <2>2, <3>2, ConnectEffect DEF Keeps
  <2>3. CASE Write(w)
    <3>1. CASE UNCHANGED dialVars
      <4>1. DialInv' /\ dialing' = dialing
        BY <3>1 DEF ConnInv, DialInv, dialVars, ConnectionsOwned, Connected
      <4>2. Moves(w) /\ dialing[w] = "ready"
        BY <2>3, WriteEffect DEF Keeps, Write
      <4> QED
        BY <4>1, <4>2 DEF ConnInv, Moves
    <3>2. CASE Fail(w) /\ Release(w, FALSE)
      <4>1. dialing[w] = "ready"
        BY <2>3 DEF Write
      <4>2. Moves(w) /\ job'[w].pc = "swapRead"
        BY <3>2, FailEffect DEF Keeps
      <4> QED
        BY <1>2, <3>2, <4>1, <4>2, ReleaseLinked DEF ConnInv
    <3> QED
      BY <2>3, <3>1, <3>2 DEF Write
  <2>4. CASE Answer(w)
    <3>1. \E answered : Release(w, answered)
      BY <2>4 DEF Answer
    <3>2. dialing[w] = "ready" /\ DialInv
      BY <2>4, AnswerEffect DEF ConnInv
    <3>3. Linked(w)
      BY <3>1, <3>2, ReleaseLinked
    <3> QED
      BY <1>2, <2>4, <3>3, AnswerEffect DEF Keeps
  <2>5. CASE \/ RunBegin(w) \/ SetReq(w) \/ SetBody(w) \/ SetField(w)
             \/ NextProfile(w) \/ WriteChunk(w)
    <3>1. UNCHANGED dialVars
      BY <2>5 DEF RunBegin, SetReq, SetBody, SetField, NextProfile, WriteChunk
    <3>2. Moves(w) /\ job'[w].pc # "answer"
      BY <2>5, RunBeginEffect, SetReqEffect, SetBodyEffect, SetFieldEffect, NextProfileEffect,
         WriteChunkEffect DEF Keeps
    <3> QED
      BY <1>1, <3>1, <3>2
  <2>6. CASE NextProfileFails(w)
    BY <1>1, <2>6 DEF NextProfileFails
  <2>7. CASE \/ Discard(w) \/ PrintReq(w) \/ PrintResp(w) \/ Log(w) \/ Return(w) \/ StopWorker(w)
    <3>1. UNCHANGED dialVars
      BY <2>7 DEF Discard, PrintReq, PrintResp, Log, Return, StopWorker
    <3>2. Moves(w) /\ job'[w].pc # "answer"
      BY <2>7, DiscardEffect, PrintReqEffect, PrintRespEffect, LogEffect, ReturnEffect,
         StopWorkerEffect DEF Keeps
    <3> QED
      BY <1>1, <3>1, <3>2
  <2>8. CASE UpdateThroughput(w)
    <3>1. UNCHANGED dialVars
      BY <2>8 DEF UpdateThroughput
    <3>2. Moves(w) /\ job'[w].pc # "answer"
      BY <2>8, SwapEffect DEF Keeps
    <3> QED
      BY <1>1, <3>1, <3>2
  <2> QED
    BY <1>4, <2>1, <2>2, <2>3, <2>4, <2>5, <2>6, <2>7, <2>8 DEF Request
<1> QED
  BY <1>1, <1>3, <1>4, StepKinds DEF Elsewhere, Finishes

\* Every connection is in use, kept for later, or one of those that a failed CONNECT left
\* open: whatever the workers do at the same time and whichever step of dialing fails.
THEOREM ConnectionsAreOwned == Spec => []ConnectionsOwned
<1>1. Init => Shape /\ ConnInv
  <2> SUFFICES ASSUME Init PROVE ConnInv
    BY InitShape
  <2>1. Connected = {}
    BY DEF Init, DialInit, Connected
  <2>2. DialInv
    BY <2>1, FS_EmptySet DEF Init, DialInit, DialInv, ConnectionsOwned
  <2> QED
    BY <2>2 DEF Init, InvokeInit, NoJob, ConnInv
<1>2. Shape /\ ConnInv /\ [Next]_vars => (Shape /\ ConnInv)'
  BY NextShape, ConnStep
<1>3. ConnInv => ConnectionsOwned
  BY DEF ConnInv, DialInv
<1> QED
  BY <1>1, <1>2, <1>3, PTL DEF Spec

(***************************************************************************)
(* ValuesWhenShown                                                         *)
(***************************************************************************)
ValuesInv == opt.logf \/ opt.printOption # {} => unset = {} /\ inits \subseteq valued

LEMMA ValuesStep == Shape /\ ValuesInv /\ [Next]_vars => ValuesInv'
<1> SUFFICES ASSUME Shape, ValuesInv, [Next]_vars PROVE ValuesInv'
  OBVIOUS
<1>1. CASE UNCHANGED <<opt, valued, unset, inits>>
  BY <1>1 DEF ValuesInv
<1>2. ASSUME NEW w \in Callers, Request(w) PROVE ValuesInv'
  <2>1. CASE NextProfile(w)
    <3>1. UNCHANGED <<opt, valued, inits>>
      BY <2>1 DEF NextProfile
    <3>2. inits \subseteq valued => unset' = unset
      BY <2>1 DEF NextProfile
    <3> QED
      BY <3>1, <3>2 DEF ValuesInv
  <2>2. CASE Discard(w)
    BY <2>2 DEF Discard, ValuesInv
  <2>3. CASE PrintResp(w)
    <3>1. UNCHANGED opt
      BY <2>3 DEF PrintResp
    <3>2. CASE PrintRespFails(w)
      BY <3>1, <3>2 DEF PrintRespFails, profileVars, ValuesInv
    <3>3. CASE Register(w) /\ Answered(w) /\ UNCHANGED unset
      <4>1. inits \subseteq valued => inits' \subseteq valued'
        BY <3>3 DEF Register, Answered
      <4> QED
        BY <3>1, <3>3, <4>1 DEF ValuesInv
    <3> QED
      BY <2>3, <3>2, <3>3 DEF PrintResp
  <2>4. CASE \/ RunBegin(w) \/ SetReq(w) \/ SetBody(w) \/ SetField(w) \/ NextProfileFails(w)
             \/ Ask(w) \/ Connect(w) \/ WriteChunk(w) \/ Write(w) \/ Answer(w)
             \/ PrintReq(w) \/ Log(w) \/ UpdateThroughput(w) \/ Return(w) \/ StopWorker(w)
    <3>1. UNCHANGED opt
      BY <2>4 DEF RunBegin, SetReq, SetBody, SetBodyStream, SetBodyUpload, SetBodyBytes, SetBodyLine,
         SetBodyRest, SetField, NextProfileFails, Ask, Connect, WriteChunk, Write, Answer, PrintReq,
         Log, UpdateThroughput, Return, StopWorker
    <3>2. UNCHANGED profileVars
      BY <2>4 DEF RunBegin, SetReq, SetBody, SetField, NextProfileFails, Ask, Connect, WriteChunk,
         Write, Answer, PrintReq, Log, UpdateThroughput, Return, StopWorker, invokeVars
    <3> QED
      BY <1>1, <3>1, <3>2 DEF profileVars
  <2> QED
    BY <1>2, <2>1, <2>2, <2>3, <2>4 DEF Request
<1>3. CASE Boot
  BY <1>1, <1>3 DEF Boot, RunInitial, ReturnInitial, profileVars
<1>4. CASE Elsewhere \/ Finishes
  BY <1>1, <1>4 DEF Elsewhere, Finishes, Final, invokeVars, profileVars
<1> QED
  BY <1>2, <1>3, <1>4, StepKinds

\* When details are logged or printed, what an init profile was answered is there for every
\* request after it.
THEOREM ValuesAreReady == Spec => []ValuesWhenShown
<1>1. Init => Shape /\ ValuesInv
  BY InitShape DEF Init, InvokeInit, ValuesInv
<1>2. Shape /\ ValuesInv /\ [Next]_vars => (Shape /\ ValuesInv)'
  BY NextShape, ValuesStep
<1>3. ValuesInv => ValuesWhenShown
  BY DEF ValuesInv, ValuesWhenShown
<1> QED
  BY <1>1, <1>2, <1>3, PTL DEF Spec

(***************************************************************************)
(* DataIsPosted                                                            *)
(***************************************************************************)
Bodied == {"field", "ask", "dial", "answer", "process"}

BodyFits(body) ==
    ~opt.explicit => /\ opt.method = "POST" <=> body # "none"
                     /\ opt.items # {} => body # "none"

\* A plain call never comes to a profile, and once it has a body that is the one for its method.
PlainInv ==
    /\ \E f \in Setups : opt = NewInvoker(f)
    /\ \A w \in Callers :
          /\ job[w].pc \in {"idle", "profile", "ended"} => ~job[w].plain
          /\ job[w].plain /\ job[w].pc \in Bodied => BodyFits(job[w].body)

LEMMA OptFacts ==
    ASSUME NEW f \in Setups, opt = NewInvoker(f)
    PROVE  /\ opt.explicit = (f.method # Unset) /\ opt.method = DetectMethod(f)
           /\ opt.body = ParseBodyArg(f.arg) /\ opt.parts = f.parts
           /\ opt.items = DataOf(f) /\ opt.pieBody = Build(f)
BY DEF NewInvoker, BuildRequestClient, Blow

LEMMA BodyChosen ==
    ASSUME PlainInv, Shape, NEW w \in Callers, SetBody(w), job'[w].pc # "return"
    PROVE  BodyFits(job'[w].body)
<1> SUFFICES ASSUME ~opt.explicit PROVE (opt.method = "POST" <=> job'[w].body # "none")
                                     /\ (opt.items # {} => job'[w].body # "none")
  BY DEF BodyFits
<1>1. PICK f \in Setups : opt = NewInvoker(f)
  BY DEF PlainInv
<1>2. /\ f.method = Unset /\ (opt.method = "POST" <=> MaybePost(f))
      /\ (MaybePost(f) => DetectMethod(f) = "POST")
  BY <1>1, OptFacts DEF DetectMethod
<1>3. MaybePost(f) <=> opt.parts # <<>> \/ opt.body # "none" \/ opt.items # {}
  BY <1>1, OptFacts DEF MaybePost
<1>4. ASSUME NEW kind, HasBody(w, kind) PROVE job'[w].body = kind
  BY <1>4, BodyEffect
<1>5. ASSUME NEW why, Leave(w, why) PROVE FALSE
  BY <1>5, LeaveEffect
<1>6. CASE SetBodyStream(w)
  BY <1>2, <1>3, <1>4, <1>5, <1>6 DEF SetBodyStream
<1>7. CASE SetBodyUpload(w)
  <2>1. job'[w].body = "upload"
    BY <1>5, <1>7, ItemEffect DEF SetBodyUpload
  <2> QED
    BY <1>2, <1>3, <1>7, <2>1 DEF SetBodyUpload, Uploads
<1>8. CASE SetBodyBytes(w)
  <2>1. job'[w].body \in {"bytes", "string"}
    BY <1>4, <1>8 DEF SetBodyBytes
  <2>2. opt.body = "bytes" \/ opt.items # {}
    BY <1>1, <1>8, OptFacts DEF SetBodyBytes, Build
  <2> QED
    BY <1>2, <1>3, <2>1, <2>2
<1>9. CASE SetBodyLine(w)
  BY <1>2, <1>3, <1>4, <1>5, <1>9 DEF SetBodyLine
<1>10. CASE SetBodyRest(w)
  <2>1. job'[w].body = opt.pieBody /\ opt.body = "none" /\ opt.parts = <<>> /\ opt.pieBody # "string"
    BY <1>4, <1>10 DEF SetBodyRest, Uploads
  <2>2. opt.items # {} => opt.pieBody # "none"
    BY <1>1, <1>2, <1>3, OptFacts DEF Build
  <2>3. opt.items = {} => opt.pieBody = "none"
    BY <1>1, OptFacts DEF Build
  <2> QED
    BY <1>2, <1>3, <2>1, <2>2, <2>3
<1> QED
  BY <1>6, <1>7, <1>8, <1>9, <1>10 DEF SetBody

LEMMA PlainStep == Shape /\ PlainInv /\ [Next]_vars => PlainInv'
<1> SUFFICES ASSUME Shape, PlainInv, [Next]_vars PROVE PlainInv'
  OBVIOUS
<1>1. CASE UNCHANGED <<opt, job>>
  BY <1>1 DEF PlainInv, BodyFits
<1>2. ASSUME NEW w \in Callers, Moves(w), UNCHANGED opt,
             job'[w].pc \in {"idle", "profile", "ended"} => ~job'[w].plain,
             job'[w].plain /\ job'[w].pc \in Bodied => BodyFits(job'[w].body)
      PROVE  PlainInv'
  BY <1>2 DEF PlainInv, BodyFits, Moves
<1>3. ASSUME NEW w \in Callers, Request(w) PROVE PlainInv'
  <2>0. UNCHANGED opt
    <3>1. CASE \/ RunBegin(w) \/ SetReq(w) \/ SetBody(w) \/ SetField(w) \/ NextProfile(w)
               \/ NextProfileFails(w) \/ Ask(w) \/ Connect(w) \/ WriteChunk(w) \/ Write(w)
      BY <3>1 DEF RunBegin, SetReq, SetBody, SetBodyStream, SetBodyUpload, SetBodyBytes, SetBodyLine,
         SetBodyRest, SetField, NextProfile, NextProfileFails, Ask, Connect, WriteChunk, Write
    <3>2. CASE \/ Answer(w) \/ Discard(w) \/ PrintReq(w) \/ PrintResp(w) \/ Log(w)
               \/ UpdateThroughput(w) \/ Return(w) \/ StopWorker(w)
      BY <3>2 DEF Answer, Discard, PrintReq, PrintResp, Log, UpdateThroughput, Return, StopWorker
    <3> QED
      BY <1>3, <3>1, <3>2 DEF Request
  <2>1. CASE RunBegin(w)
    <3>1. Moves(w) /\ job'[w].pc \in {"setReq", "profile"} /\ (job'[w].pc = "profile" => ~job'[w].plain)
      BY <2>1, RunBeginEffect
    <3> QED
      BY <1>2, <2>0, <3>1 DEF Bodied
  <2>2. CASE SetBody(w)
    <3>1. /\ Moves(w) /\ job'[w].pc \in {"field", "ask", "return"}
      BY <2>2, SetBodyEffect DEF Keeps
    <3> QED
      BY <1>2, <2>0, <2>2, <3>1, BodyChosen DEF Bodied
  <2>3. CASE NextProfile(w)
    <3>1. Moves(w) /\ job'[w].pc \in {"ask", "swapRead"} /\ ~job'[w].plain
      BY <2>3, NextProfileEffect DEF Keeps, Rest, Fields, PlainInv
    <3> QED
      BY <1>2, <2>0, <3>1
  <2>4. CASE WriteChunk(w)
    <3>1. /\ Moves(w) /\ job'[w].pc = "dial" /\ job[w].pc = "dial" /\ job'[w].plain = job[w].plain
          /\ job[w].body # "none" /\ job'[w].body # "none"
      BY <2>4, WriteChunkEffect DEF Keeps, Rest, Fields
    <3> QED
      BY <1>2, <2>0, <3>1 DEF PlainInv, Bodied, BodyFits
  <2>5. CASE \/ SetReq(w) \/ SetField(w) \/ Ask(w) \/ Connect(w) \/ Write(w) \/ Answer(w)
             \/ PrintReq(w) \/ PrintResp(w) \/ StopWorker(w)
    <3>1. /\ Moves(w) /\ job'[w].plain = job[w].plain /\ job'[w].body = job[w].body
          /\ job'[w].pc \in Bodied => job[w].pc \in Bodied
          /\ job'[w].pc \in {"idle", "profile", "ended"} => job[w].pc = "idle"
      BY <2>5, SetReqEffect, SetFieldEffect, AskEffect, ConnectEffect, WriteEffect, AnswerEffect,
         PrintReqEffect, PrintRespEffect, StopWorkerEffect DEF Keeps, Rest, Fields, Bodied
    <3> QED
      BY <1>2, <2>0, <3>1 DEF PlainInv
  <2>6. CASE Discard(w) \/ Log(w) \/ UpdateThroughput(w)
    <3>1. /\ Moves(w) /\ job'[w].plain = job[w].plain /\ job'[w].pc \notin Bodied
          /\ job'[w].pc \in {"idle", "profile", "ended"} => ~job[w].plain
      <4>1. CASE Discard(w) \/ Log(w)
        BY <4>1, DiscardEffect, LogEffect DEF Keeps, Rest, Fields, Bodied
      <4>2. CASE UpdateThroughput(w)
        <5>1. /\ Moves(w) /\ job'[w].plain = job[w].plain
              /\ job'[w].pc = "swapWrite" \/ job'[w].pc = "return"
          BY <4>2, SwapEffect DEF Keeps, Rest, Fields
        <5> QED
          BY <5>1 DEF Bodied
      <4> QED
        BY <2>6, <4>1, <4>2
    <3> QED
      BY <1>2, <2>0, <3>1
  <2>7. CASE Return(w)
    <3>1. Moves(w) /\ job'[w].pc \notin Bodied /\ ~job'[w].plain
      BY <2>7, ReturnEffect DEF Bodied
    <3> QED
      BY <1>2, <2>0, <3>1
  <2>8. CASE NextProfileFails(w)
    BY <1>1, <2>8 DEF NextProfileFails
  <2> QED
    BY <1>3, <2>1, <2>2, <2>3, <2>4, <2>5, <2>6, <2>7, <2>8 DEF Request
<1>4. CASE Boot
  <2>1. UNCHANGED opt /\ Starter \in Callers
    BY <1>4 DEF Boot, RunInitial, ReturnInitial, Callers
  <2>2. Moves(Starter) /\ job'[Starter].pc \in {"profile", "return", "ended"} /\ ~job'[Starter].plain
    BY <1>4, <2>1, RunInitialEffect, ReturnInitialEffect DEF Boot, Keeps, Rest, Fields, PlainInv
  <2> QED
    BY <1>2, <2>1, <2>2 DEF Bodied
<1> QED
  BY <1>1, <1>3, <1>4, StepKinds DEF Elsewhere, Finishes

\* Unless -m says otherwise a plain request has a body exactly if it is a POST, and is one if
\* there are data items: whatever -b, -u and the items are.
THEOREM DataPosted == Spec => []DataIsPosted
<1>1. Init => Shape /\ PlainInv
  BY InitShape DEF Init, OptInit, InvokeInit, NoJob, PlainInv
<1>2. Shape /\ PlainInv /\ [Next]_vars => (Shape /\ PlainInv)'
  BY NextShape, PlainStep
<1>3. PlainInv => DataIsPosted
  BY DEF PlainInv, DataIsPosted, BodyFits, Bodied, Callers
<1> QED
  BY <1>1, <1>2, <1>3, PTL DEF Spec

(***************************************************************************)
(* TargetsInTurn                                                           *)
(***************************************************************************)

\* The counter is the number of targets given, until it comes round, and nothing but that
\* panics when nothing is uploaded.
TargetsInv ==
    /\ picks \in Seq(Nat) /\ \A i \in DOMAIN picks : picks[i] = ((i - 1) % Targets) + 1
    /\ Targets \in Nat /\ envHostsIndex \in 0 .. Width - 1
    /\ Targets > 1 /\ proc # "panic" => Len(picks) = envHostsIndex
    /\ proc = "panic" /\ ~Uploads => Len(picks) = Width - 1
    /\ ~Uploads => deal = "off"

LEMMA NextCount ==
    ASSUME NEW k \in 0 .. Width - 1
    PROVE  /\ (k + 1) % Width \in 0 .. Width - 1
           /\ (k + 1) % Width = IF k + 1 = Width THEN 0 ELSE k + 1
<1>1. Width \in Nat /\ Width > 0 /\ k \in Nat /\ k + 1 <= Width
  BY InvokerAssumption
<1>2. CASE k + 1 = Width
  BY <1>1, <1>2
<1>3. CASE k + 1 < Width
  BY <1>1, <1>3
<1> QED
  BY <1>1, <1>2, <1>3

LEMMA SetReqTargets ==
    ASSUME TargetsInv, NEW w \in Callers, SetReq(w)
    PROVE  TargetsInv'
<1>1. /\ proc = "up" /\ UNCHANGED <<opt, deal>> /\ Targets' = Targets /\ (Uploads' <=> Uploads)
  BY DEF SetReq, At, Targets, Uploads, uploadVars
<1>2. CASE Targets = 0
  BY <1>1, <1>2 DEF SetReq, targetVars, TargetsInv
<1>3. CASE Targets # 0
  <2>1. envHostsIndex' = (envHostsIndex + 1) % Width /\ Width \in Nat /\ Width > 0
    BY <1>3, InvokerAssumption DEF SetReq
  <2>2. /\ envHostsIndex' \in 0 .. Width - 1
        /\ envHostsIndex' = IF envHostsIndex + 1 = Width THEN 0 ELSE envHostsIndex + 1
    BY <2>1, NextCount DEF TargetsInv
  <2>3. Targets \in Nat /\ Targets > 0 /\ envHostsIndex \in 0 .. Width - 1 /\ picks \in Seq(Nat)
    BY <1>3 DEF TargetsInv
  <2>4. CASE envHostsIndex' = 0 /\ Targets > 1
    <3>1. proc' = "panic" /\ UNCHANGED picks
      BY <1>3, <2>4 DEF SetReq
    <3>2. Len(picks) = envHostsIndex /\ envHostsIndex = Width - 1
      BY <1>1, <2>1, <2>2, <2>3, <2>4 DEF TargetsInv
    <3> QED
      BY <1>1, <2>2, <3>1, <3>2 DEF TargetsInv
  <2>5. CASE ~(envHostsIndex' = 0 /\ Targets > 1)
    <3>1. proc' = proc /\ picks' = Append(picks, ((envHostsIndex' - 1) % Targets) + 1)
      BY <1>3, <2>5 DEF SetReq
    <3>2. Len(picks) \in Nat /\ (Len(picks) % Targets) + 1 \in Nat
      BY <2>3
    <3>3. (envHostsIndex' - 1) % Targets = Len(picks) % Targets
      <4>1. CASE Targets > 1
        <5>1. envHostsIndex' = envHostsIndex + 1 /\ Len(picks) = envHostsIndex
          BY <1>1, <2>2, <2>3, <2>5, <4>1 DEF TargetsInv
        <5> QED
          BY <2>3, <5>1
      <4>2. CASE Targets = 1
        <5>1. envHostsIndex' - 1 \in Int
          BY <2>1, <2>2
        <5>2. \A x \in Int : x % 1 = 0
          OBVIOUS
        <5> QED
          BY <3>2, <4>2, <5>1, <5>2
      <4> QED
        BY <2>3, <4>1, <4>2
    <3>4. /\ picks' \in Seq(Nat) /\ Len(picks') = Len(picks) + 1 /\ DOMAIN picks' = 1 .. Len(picks) + 1
          /\ picks'[Len(picks) + 1] = (Len(picks) % Targets) + 1
          /\ \A i \in 1 .. Len(picks) : picks'[i] = picks[i]
      BY <2>3, <3>1, <3>2, <3>3, AppendFacts
    <3>5. ASSUME NEW i \in DOMAIN picks' PROVE picks'[i] = ((i - 1) % Targets) + 1
      <4>1. CASE i \in 1 .. Len(picks)
        <5>1. i \in DOMAIN picks
          BY <2>3, <4>1
        <5>2. picks[i] = ((i - 1) % Targets) + 1
          BY <5>1 DEF TargetsInv
        <5> QED
          BY <3>4, <4>1, <5>2
      <4>2. CASE i = Len(picks) + 1
        <5>1. i - 1 = Len(picks)
          BY <3>2, <4>2
        <5> QED
          BY <3>4, <4>2, <5>1
      <4> QED
        <5>1. i \in 1 .. Len(picks) \/ i = Len(picks) + 1
          BY <3>2, <3>4, <3>5
        <5> QED
          BY <4>1, <4>2, <5>1
    <3>6. Targets > 1 => Len(picks') = envHostsIndex'
      BY <1>1, <2>2, <2>3, <2>5, <3>4 DEF TargetsInv
    <3> QED
      BY <1>1, <2>2, <2>3, <3>1, <3>4, <3>5, <3>6 DEF TargetsInv
  <2> QED
    BY <2>4, <2>5
<1> QED
  BY <1>2, <1>3

LEMMA OtherTargets ==
    ASSUME TargetsInv, UNCHANGED <<opt, targetVars>>, proc' = "panic" => proc = "panic" \/ Uploads,
           ~Uploads => deal' = "off", proc = "panic" => proc' = proc
    PROVE  TargetsInv'
<1>1. Targets' = Targets /\ (Uploads' <=> Uploads) /\ UNCHANGED <<picks, envHostsIndex>>
  BY DEF Targets, Uploads, targetVars
<1> QED
  BY <1>1 DEF TargetsInv

LEMMA TargetsStep == TargetsInv /\ [Next]_vars => TargetsInv'
<1> SUFFICES ASSUME TargetsInv, [Next]_vars PROVE TargetsInv'
  OBVIOUS
<1>0. ~Uploads => deal = "off"
  BY DEF TargetsInv
<1>1. CASE Dealing
  <2>1. UNCHANGED <<opt, targetVars>> /\ proc = "up" /\ deal # "off"
    <3>1. UNCHANGED <<opt, targetVars>>
      BY <1>1 DEF Dealing, invokeVars
    <3>2. proc = "up" /\ deal # "off"
      BY <1>1 DEF Dealing, Deal, DealNext, Read, ReadRand, ReadFile, ReadGlob, ReadGlobEmpty,
         ReadWalked, ReadClosed, ReadFails, Reads
    <3> QED
      BY <3>1, <3>2
  <2> QED
    BY <1>0, <2>1, OtherTargets
<1>2. ASSUME NEW i \in 1 .. MaxParts, Walking(i) PROVE TargetsInv'
  <2>1. UNCHANGED <<opt, targetVars, proc, deal>>
    BY <1>2 DEF Walking, Walker, WalkSend, WalkEnd, WalkFails, invokeVars
  <2> QED
    BY <1>0, <2>1, OtherTargets
<1>3. CASE Boot
  <2>1. UNCHANGED <<opt, targetVars, proc, deal>>
    BY <1>3 DEF Boot, RunInitial, ReturnInitial, uploadVars
  <2> QED
    BY <1>0, <2>1, OtherTargets
<1>4. ASSUME NEW w \in Callers, Request(w) PROVE TargetsInv'
  <2>1. CASE SetReq(w)
    BY <2>1, SetReqTargets
  <2>2. CASE SetBody(w)
    <3>1. UNCHANGED <<opt, targetVars, proc>>
      BY <2>2 DEF SetBody, SetBodyStream, SetBodyUpload, SetBodyBytes, SetBodyLine, SetBodyRest
    <3>2. ~Uploads => UNCHANGED uploadVars
      BY <2>2 DEF SetBody, SetBodyStream, SetBodyUpload, SetBodyBytes, SetBodyLine, SetBodyRest
    <3> QED
      BY <1>0, <3>1, <3>2, OtherTargets DEF uploadVars
  <2>3. CASE SetField(w) \/ NextProfileFails(w)
    <3>1. UNCHANGED <<opt, targetVars, deal>> /\ proc = "up" /\ proc' # "panic"
      BY <2>3 DEF SetField, NextProfileFails, NewReaderFails, Die, At, invokeVars, uploadVars
    <3> QED
      BY <1>0, <3>1, OtherTargets
  <2>4. CASE \/ RunBegin(w) \/ NextProfile(w) \/ Ask(w) \/ Connect(w) \/ WriteChunk(w) \/ Write(w)
             \/ Answer(w)
    <3>1. UNCHANGED <<opt, targetVars, proc, uploadVars>>
      BY <2>4 DEF RunBegin, NextProfile, Ask, Connect, WriteChunk, Write, Answer, invokeVars
    <3> QED
      BY <1>0, <3>1, OtherTargets DEF uploadVars
  <2>5. CASE \/ Discard(w) \/ PrintReq(w) \/ PrintResp(w) \/ Log(w) \/ UpdateThroughput(w)
             \/ Return(w) \/ StopWorker(w)
    <3>1. UNCHANGED <<opt, targetVars, proc, uploadVars>>
      BY <2>5 DEF Discard, PrintReq, PrintResp, Log, UpdateThroughput, Return, StopWorker, invokeVars
    <3> QED
      BY <1>0, <3>1, OtherTargets DEF uploadVars
  <2> QED
    BY <1>4, <2>1, <2>2, <2>3, <2>4, <2>5 DEF Request
<1>5. CASE Final
  <2>1. UNCHANGED <<opt, targetVars, proc, uploadVars>>
    BY <1>5 DEF Final
  <2> QED
    BY <1>0, <2>1, OtherTargets DEF uploadVars
<1>6. CASE UNCHANGED vars
  <2>1. UNCHANGED <<opt, targetVars, proc, uploadVars>>
    BY <1>6 DEF vars, invokeVars
  <2> QED
    BY <1>0, <2>1, OtherTargets DEF uploadVars
<1> QED
  BY <1>1, <1>2, <1>3, <1>4, <1>5, <1>6 DEF Next, Ended

\* The workers take the targets strictly in turn, whatever their number and the width of the
\* counter, and what panics first, if nothing is uploaded, is its coming round.
THEOREM TargetsTakenInTurn == Spec => []TargetsInTurn
<1>1. Init => TargetsInv
  <2> SUFFICES ASSUME Init PROVE TargetsInv
    OBVIOUS
  <2>1. PICK f \in Setups : opt = NewInvoker(f)
    BY DEF Init, OptInit
  <2>2. Targets \in Nat
    BY <2>1, SetupsAssumption DEF Targets, NewInvoker, BuildRequestClient, Blow
  <2>3. picks = <<>> /\ envHostsIndex = 0 /\ proc = "up" /\ (~Uploads => deal = "off")
    BY DEF Init, InvokeInit, UploadInit
  <2> QED
    BY <2>2, <2>3, InvokerAssumption DEF TargetsInv
<1>2. TargetsInv /\ [Next]_vars => TargetsInv'
  BY TargetsStep
<1>3. TargetsInv => TargetsInTurn
  BY DEF TargetsInv, TargetsInTurn
<1> QED
  BY <1>1, <1>2, <1>3, PTL DEF Spec

(***************************************************************************)
(* LastCallShown                                                           *)
(***************************************************************************)
Apace == {"idle", "ended"}

\* The marked place in the log parts what was there when the last call began from the rest.
MarkInv ==
    /\ begun \in 0 .. asks /\ log \in Seq(Nat) /\ pos \in 0 .. Len(log)
    /\ \A i \in 1 .. Len(log) : log[i] <= asks /\ (i <= pos <=> log[i] <= begun)
    /\ ~opt.logf => log = <<>>
    /\ \A w \in Callers : job[w].pc \in Asking => job[w].ask > begun

\* With -n 1 there is one call of a worker, and it begins when the initial one is over.
OneInv ==
    /\ calls \in {0, 1} /\ (phase = "init" => calls = 0)
    /\ calls = 0 => \A w \in Workers : job[w].pc = "idle"
    /\ phase # "init" => job[Starter].pc = "ended"
    /\ phase = "init" /\ job[Starter].pc = "idle" => log = <<>>
    /\ phase = "final" => \A w \in Workers : job[w].pc = "ended"

LastInv == opt.n = 1 => MarkInv /\ OneInv /\ LastCallShown

LEMMA LastRequest ==
    ASSUME Shape, NEW w \in Callers, Request(w), ~RunBegin(w)
    PROVE  /\ UNCHANGED <<opt, pos, begun, shown, calls, phase>>
           /\ log' = log \/ (Log(w) /\ opt.logf /\ log' = Append(log, job[w].ask))
           /\ job[w].pc \notin Apace \/ (w \in Workers /\ calls = Limit /\ job[w].pc = "idle")
           /\ w \notin Workers => job'[w].pc # "idle"
<1>1. CASE \/ SetReq(w) \/ SetBody(w) \/ SetField(w) \/ NextProfile(w)
           \/ Ask(w) \/ Connect(w) \/ WriteChunk(w) \/ Write(w)
  <2>1. UNCHANGED <<opt, pos, begun, shown, calls, phase, log>>
    BY <1>1 DEF SetReq, SetBody, SetBodyStream, SetBodyUpload, SetBodyBytes, SetBodyLine, SetBodyRest,
       SetField, NextProfile, Ask, Connect, WriteChunk, Write, invokeVars, printVars, processVars
  <2>2. job[w].pc \notin Apace /\ job'[w].pc # "idle"
    BY <1>1, SetReqEffect, SetBodyEffect, SetFieldEffect, NextProfileEffect, AskEffect, ConnectEffect,
       WriteChunkEffect, WriteEffect DEF Apace
  <2> QED
    BY <2>1, <2>2
<1>2. CASE Answer(w) \/ Discard(w) \/ PrintReq(w) \/ PrintResp(w)
  <2>1. UNCHANGED <<opt, pos, begun, shown, calls, phase, log>>
    BY <1>2 DEF Answer, Discard, PrintReq, PrintResp, printVars, processVars
  <2>2. job[w].pc \notin Apace /\ job'[w].pc # "idle"
    BY <1>2, AnswerEffect, DiscardEffect, PrintReqEffect, PrintRespEffect DEF Apace
  <2> QED
    BY <2>1, <2>2
<1>3. CASE Log(w)
  <2>1. UNCHANGED <<opt, pos, begun, shown, calls, phase>>
    BY <1>3 DEF Log, processVars
  <2>2. log' = log \/ (opt.logf /\ log' = Append(log, job[w].ask))
    BY <1>3 DEF Log
  <2>3. job[w].pc \notin Apace /\ job'[w].pc # "idle"
    BY <1>3, LogEffect DEF Apace
  <2> QED
    BY <1>3, <2>1, <2>2, <2>3
<1>4. CASE UpdateThroughput(w)
  <2>1. UNCHANGED <<opt, pos, begun, shown, calls, phase, log>>
    BY <1>4 DEF UpdateThroughput, printVars, processVars
  <2>2. /\ job[w].pc = "swapRead" \/ job[w].pc = "swapWrite"
        /\ job'[w].pc = "swapWrite" \/ job'[w].pc = "return"
    BY <1>4, SwapEffect
  <2> QED
    BY <2>1, <2>2 DEF Apace
<1>5. CASE Return(w)
  <2>1. UNCHANGED <<opt, pos, begun, shown, calls, phase, log>> /\ w \in Workers
    BY <1>5 DEF Return, printVars, processVars
  <2>2. job[w].pc \notin Apace
    BY <1>5, ReturnEffect DEF Apace
  <2> QED
    BY <2>1, <2>2
<1>6. CASE StopWorker(w)
  BY <1>6 DEF StopWorker, At, invokeVars, printVars, processVars
<1>7. CASE NextProfileFails(w)
  <2>1. UNCHANGED <<opt, pos, begun, shown, calls, phase, log, job>> /\ job[w].pc = "profile"
    BY <1>7 DEF NextProfileFails, At, invokeVars, printVars, processVars
  <2> QED
    BY <2>1 DEF Apace
<1> QED
  BY <1>1, <1>2, <1>3, <1>4, <1>5, <1>6, <1>7 DEF Request

\* A step within a call.
LEMMA LastWithin ==
    ASSUME AsksInv, opt.n = 1, MarkInv, OneInv, LastCallShown, NEW w \in Callers, Moves(w),
           UNCHANGED <<opt, pos, begun, shown, calls, phase>>,
           log' = log \/ (job[w].pc = "log" /\ opt.logf /\ log' = Append(log, job[w].ask)),
           job[w].pc \notin Apace \/ (w \in Workers /\ calls = 1 /\ job[w].pc = "idle"),
           w \notin Workers => job'[w].pc # "idle",
           asks' \in {asks, asks + 1},
           job'[w].pc \in Asking => \/ job[w].pc \in Asking /\ job'[w].ask = job[w].ask
                                    \/ job'[w].ask = asks + 1
    PROVE  MarkInv' /\ OneInv' /\ LastCallShown'
<1>1. asks \in Nat /\ asks' \in Nat /\ asks' >= asks /\ begun \in 0 .. asks /\ begun \in Nat
      /\ log \in Seq(Nat) /\ Len(log) \in Nat /\ pos \in 0 .. Len(log)
  BY DEF AsksInv, MarkInv
<1>2. \A v \in Callers : job'[v].pc \in Asking => job'[v].ask > begun
  BY <1>1 DEF Moves, MarkInv
<1>3. phase # "final"
  <2>1. CASE w \in Workers
    BY <2>1 DEF OneInv, Apace
  <2>2. CASE w = Starter
    BY <2>2 DEF OneInv, Apace, Callers
  <2> QED
    BY <2>1, <2>2 DEF Callers
<1>4. OneInv'
  <2>1. calls' \in {0, 1} /\ (phase' = "init" => calls' = 0)
    BY DEF OneInv
  <2>2. ASSUME calls' = 0 PROVE \A v \in Workers : job'[v].pc = "idle"
    <3>1. w \notin Workers
      BY <2>2 DEF OneInv, Apace
    <3> QED
      BY <2>2, <3>1 DEF OneInv, Moves, Callers
  <2>3. ASSUME phase' # "init" PROVE job'[Starter].pc = "ended"
    <3>1. job[Starter].pc = "ended"
      BY <2>3 DEF OneInv
    <3>2. w # Starter
      BY <3>1, StarterAssumption DEF Apace
    <3> QED
      BY <3>1, <3>2 DEF Moves, Callers
  <2>4. ASSUME phase' = "init", job'[Starter].pc = "idle" PROVE log' = <<>>
    <3>1. w # Starter
      BY <2>4, StarterAssumption
    <3>2. w \in Workers /\ calls = 0
      BY <2>4, <3>1 DEF Callers, OneInv
    <3> QED
      BY <3>2 DEF OneInv, Apace
  <2> QED
    BY <1>3, <2>1, <2>2, <2>3, <2>4 DEF OneInv
<1>5. LastCallShown'
  BY <1>3 DEF LastCallShown
<1>6. CASE log' = log
  BY <1>1, <1>2, <1>4, <1>5, <1>6 DEF MarkInv
<1>7. CASE job[w].pc = "log" /\ opt.logf /\ log' = Append(log, job[w].ask)
  <2> DEFINE a == job[w].ask
             n == Len(log)
  <2>1. a \in Nat /\ a <= asks /\ a > begun
    BY <1>7 DEF AsksInv, MarkInv, Asking
  <2>2. /\ log' \in Seq(Nat) /\ Len(log') = n + 1
        /\ log'[n + 1] = a /\ \A i \in 1 .. n : log'[i] = log[i]
    BY <1>1, <1>7, <2>1, AppendFacts
  <2>3. \A i \in 1 .. n : log[i] \in Nat /\ log[i] <= asks /\ (i <= pos <=> log[i] <= begun)
    BY <1>1 DEF MarkInv
  <2>4. opt'.logf
    BY <1>7
  <2> HIDE DEF a, n
  <2>5. n \in Nat /\ pos \in 0 .. n /\ Len(log) = n
    BY <1>1 DEF n
  <2>6. ASSUME NEW i \in 1 .. n + 1 PROVE log'[i] <= asks' /\ (i <= pos <=> log'[i] <= begun)
    <3>1. CASE i \in 1 .. n
      BY <1>1, <2>2, <2>3, <3>1
    <3>2. CASE i = n + 1
      BY <1>1, <2>1, <2>2, <2>5, <3>2
    <3> QED
      BY <2>5, <3>1, <3>2
  <2>7. pos' \in 0 .. Len(log') /\ begun' \in 0 .. asks'
    BY <1>1, <2>2, <2>5
  <2>8. MarkInv'
    BY <1>2, <2>2, <2>4, <2>6, <2>7 DEF MarkInv
  <2> QED
    BY <1>4, <1>5, <2>8
<1> QED
  BY <1>6, <1>7

LEMMA LastStep == Shape /\ AsksInv /\ LastInv /\ [Next]_vars => LastInv'
<1> SUFFICES ASSUME Shape, AsksInv, LastInv, [Next]_vars, opt'.n = 1
             PROVE  MarkInv' /\ OneInv' /\ LastCallShown'
  BY DEF LastInv
<1>1. opt' = opt
  <2>1. CASE Boot
    BY <2>1 DEF Boot, RunInitial, ReturnInitial
  <2>2. ASSUME NEW w \in Callers, RunBegin(w) PROVE opt' = opt
    BY <2>2 DEF RunBegin
  <2> QED
    BY <2>1, <2>2, StepKinds, LastRequest DEF Elsewhere, Finishes
<1>2. opt.n = 1 /\ MarkInv /\ OneInv /\ LastCallShown /\ Limit = 1
  BY <1>1 DEF LastInv, Limit
<1>3. CASE Elsewhere
  BY <1>2, <1>3 DEF Elsewhere, invokeVars, processVars, printVars, MarkInv, OneInv, LastCallShown
<1>4. CASE Finishes
  <2>1. /\ UNCHANGED <<opt, job, log, pos, begun, calls, asks>> /\ phase = "bench" /\ phase' = "final"
        /\ \A w \in Workers : job[w].pc = "ended"
        /\ shown' = IF opt.n = 1 /\ opt.logf /\ opt.printOption = {}
                    THEN SubSeq(log, pos + 1, Len(log)) ELSE <<>>
    BY <1>4 DEF Finishes, Final, At
  <2>2. MarkInv' /\ OneInv'
    BY <1>2, <2>1 DEF MarkInv, OneInv
  <2>3. CASE opt.logf /\ opt.printOption = {}
    <3> DEFINE n == Len(log)
    <3>1. shown' = SubSeq(log, pos + 1, n)
      BY <1>2, <2>1, <2>3
    <3>2. log \in Seq(Nat) /\ n \in Nat /\ pos \in 0 .. n
      BY <1>2 DEF MarkInv
    <3>3. /\ Len(shown') = n - pos /\ DOMAIN shown' = 1 .. n - pos
          /\ \A i \in 1 .. n - pos : shown'[i] = log[pos + i]
      BY <3>1, <3>2
    <3>4. \A i \in 1 .. n : (i <= pos <=> log[i] <= begun) /\ log[i] \in Nat /\ begun \in Nat
      BY <1>2, <3>2 DEF MarkInv, AsksInv
    <3> HIDE DEF n
    <3>5. \A i \in DOMAIN shown' : shown'[i] > begun
      <4>1. ASSUME NEW i \in 1 .. n - pos PROVE shown'[i] > begun
        <5>1. pos + i \in 1 .. n /\ ~(pos + i <= pos)
          BY <3>2
        <5> QED
          BY <3>3, <3>4, <5>1
      <4> QED
        BY <3>3, <4>1
    <3>6. ASSUME NEW i \in 1 .. n, log[i] > begun
          PROVE  \E k \in DOMAIN shown' : shown'[k] = log[i]
      <4>1. ~(i <= pos)
        BY <3>2, <3>4, <3>6
      <4>2. i - pos \in 1 .. n - pos /\ pos + (i - pos) = i
        BY <3>2, <4>1
      <4> QED
        BY <3>3, <4>2
    <3>7. DOMAIN log = 1 .. n
      BY <3>2 DEF n
    <3> QED
      BY <2>1, <2>2, <3>5, <3>6, <3>7 DEF LastCallShown
  <2> QED
    BY <2>1, <2>2, <2>3 DEF LastCallShown
<1>5. CASE RunInitial
  <2>1. /\ phase = "init" /\ job[Starter].pc = "idle" /\ UNCHANGED <<opt, log, begun, phase, calls, asks>>
        /\ pos' = IF opt.logf THEN Len(log) ELSE pos
    BY <1>5 DEF RunInitial, MarkPos, At, processVars
  <2>2. log = <<>> /\ pos = 0 /\ Len(log) = 0
    BY <1>2, <2>1 DEF OneInv, MarkInv
  <2>3. Moves(Starter) /\ job'[Starter].pc \in {"profile", "return"} /\ Starter \in Callers
    BY <1>5, RunInitialEffect DEF Keeps, Callers
  <2>4. OneInv'
    BY <1>2, <2>1, <2>3, StarterAssumption DEF OneInv, Moves, Callers
  <2>5. MarkInv'
    BY <1>2, <2>1, <2>2, <2>3 DEF MarkInv, Moves, Asking
  <2> QED
    BY <2>1, <2>4, <2>5 DEF LastCallShown
<1>6. CASE ReturnInitial
  <2>1. UNCHANGED <<opt, log, begun, pos, calls, asks>> /\ phase' = "bench"
    BY <1>6 DEF ReturnInitial, printVars
  <2>2. Moves(Starter) /\ job'[Starter].pc = "ended" /\ Starter \in Callers
    BY <1>6, ReturnInitialEffect DEF Callers
  <2>3. OneInv'
    BY <1>2, <2>1, <2>2, StarterAssumption DEF OneInv, Moves, Callers
  <2>4. MarkInv'
    BY <1>2, <2>1, <2>2 DEF MarkInv, Moves, Asking
  <2> QED
    BY <2>1, <2>3, <2>4 DEF LastCallShown
<1>7. ASSUME NEW w \in Callers, RunBegin(w) PROVE MarkInv' /\ OneInv' /\ LastCallShown'
  <2>1. /\ phase = "bench" /\ calls < Limit /\ calls' = calls + 1 /\ begun' = asks
        /\ UNCHANGED <<opt, log, phase, asks>> /\ pos' = IF opt.logf THEN Len(log) ELSE pos
    BY <1>7 DEF RunBegin, MarkPos
  <2>2. Moves(w) /\ job'[w].pc \notin Asking /\ w \in Workers
    <3>1. Moves(w) /\ job'[w].pc \in {"setReq", "profile"}
      BY <1>7, RunBeginEffect
    <3> QED
      BY <1>7, <3>1 DEF Asking, RunBegin
  <2>3. calls = 0 /\ calls' = 1
    BY <1>2, <2>1 DEF OneInv
  <2>4. \A v \in Callers : job'[v].pc \notin Asking
    BY <1>2, <2>1, <2>2, <2>3 DEF OneInv, Moves, Callers, Asking
  <2>5. OneInv'
    BY <1>2, <2>1, <2>2, <2>3, StarterAssumption DEF OneInv, Moves, Callers
  <2>6. MarkInv'
    BY <1>2, <2>1, <2>4 DEF MarkInv, AsksInv
  <2> QED
    BY <2>1, <2>5, <2>6 DEF LastCallShown
<1>8. ASSUME NEW w \in Callers, Request(w), ~RunBegin(w)
      PROVE  MarkInv' /\ OneInv' /\ LastCallShown'
  <2>1. Moves(w)
    BY <1>8, RequestShape
  <2>2. asks' \in {asks, asks + 1}
    BY <1>8, CalmRequest DEF Ask, Calm
  <2>3. job'[w].pc \in Asking => \/ job[w].pc \in Asking /\ job'[w].ask = job[w].ask
                                 \/ job'[w].ask = asks + 1
    BY <1>8, CalmRequest, AskEffect DEF Calm
  <2>4. Log(w) => job[w].pc = "log"
    BY DEF Log, At
  <2>5. /\ UNCHANGED <<opt, pos, begun, shown, calls, phase>>
        /\ log' = log \/ (job[w].pc = "log" /\ opt.logf /\ log' = Append(log, job[w].ask))
        /\ job[w].pc \notin Apace \/ (w \in Workers /\ calls = 1 /\ job[w].pc = "idle")
        /\ w \notin Workers => job'[w].pc # "idle"
    BY <1>2, <1>8, <2>4, LastRequest
  <2> QED
    BY <1>2, <2>1, <2>2, <2>3, <2>5, LastWithin
<1> QED
  BY <1>3, <1>4, <1>5, <1>6, <1>7, <1>8, StepKinds DEF Boot

\* With -n 1 what Final shows is what was logged in the one call of the workers, all of it
\* and nothing of the init profiles, however many there are.
THEOREM LastCallIsShown == Spec => []LastCallShown
<1>1. Init => Shape /\ AsksInv /\ LastInv
  <2> SUFFICES ASSUME Init PROVE AsksInv /\ LastInv
    BY InitShape
  <2>1. /\ phase = "init" /\ calls = 0 /\ asks = 0 /\ log = <<>> /\ pos = 0 /\ begun = 0
        /\ \A w \in Callers : job[w].pc = "idle"
    BY DEF Init, InvokeInit, NoJob
  <2> QED
    BY <2>1 DEF AsksInv, Asking, LastInv, MarkInv, OneInv, LastCallShown, Callers
<1>2. Shape /\ AsksInv /\ LastInv /\ [Next]_vars => (Shape /\ AsksInv /\ LastInv)'
  BY NextShape, AsksStep, LastStep
<1>3. LastInv => LastCallShown
  BY DEF LastInv, LastCallShown
<1> QED
  BY <1>1, <1>2, <1>3, PTL DEF Spec


(***************************************************************************)
(* InitFirst                                                               *)
(***************************************************************************)
FreeOfInit(s) == \A i \in DOMAIN s : ~s[i].init

\* The list of a call is one of profiles; a call that asks for one has it first on its list.
ListInv(call) ==
    /\ call.todo \in Seq(ProfileRecords)
    /\ call.pc \in {"setReq", "setBody", "field"} => call.plain
    /\ call.pc \in Asking \cup {"ask"} /\ ~call.plain => call.todo # <<>>

\* Until the initial call has taken them out, the init profiles are on the list of all, and
\* no worker has begun.
InitInv ==
    /\ opt.profiles \in Seq(ProfileRecords) /\ profiles \in Seq(ProfileRecords)
    /\ \A w \in Callers : ListInv(job[w])
    /\ \A w \in Workers : FreeOfInit(job[w].todo) /\ (phase = "init" => job[w].pc = "idle")
    /\ job[Starter].pc = "idle" => phase = "init" /\ profiles = opt.profiles
    /\ job[Starter].pc # "idle" => FreeOfInit(profiles)

LEMMA TailFree ==
    ASSUME NEW s \in Seq(ProfileRecords), s # <<>>
    PROVE  Tail(s) \in Seq(ProfileRecords) /\ (FreeOfInit(s) => FreeOfInit(Tail(s)))
<1>1. /\ Tail(s) \in Seq(ProfileRecords) /\ DOMAIN Tail(s) = 1 .. Len(s) - 1
      /\ \A i \in 1 .. Len(s) - 1 : Tail(s)[i] = s[i + 1] /\ i + 1 \in DOMAIN s
  OBVIOUS
<1> QED
  BY <1>1 DEF FreeOfInit

LEMMA RequestKeeps ==
    ASSUME NEW w \in Callers, Request(w)
    PROVE  UNCHANGED <<opt, phase, profiles>>
<1>1. CASE \/ RunBegin(w) \/ SetReq(w) \/ SetBody(w) \/ SetField(w) \/ NextProfile(w)
           \/ NextProfileFails(w) \/ Ask(w) \/ Connect(w) \/ WriteChunk(w)
  BY <1>1 DEF RunBegin, SetReq, SetBody, SetBodyStream, SetBodyUpload, SetBodyBytes, SetBodyLine,
     SetBodyRest, SetField, NextProfile, NextProfileFails, Ask, Connect, WriteChunk, profileVars,
     processVars, invokeVars
<1>2. CASE \/ Write(w) \/ Answer(w) \/ Discard(w) \/ PrintReq(w) \/ PrintResp(w) \/ Log(w)
           \/ UpdateThroughput(w) \/ Return(w) \/ StopWorker(w)
  BY <1>2 DEF Write, Answer, Discard, PrintReq, PrintResp, PrintRespFails, Log, UpdateThroughput,
     Return, StopWorker, profileVars, processVars, invokeVars
<1> QED
  BY <1>1, <1>2 DEF Request

\* What one step makes of the list of its call.
LEMMA ListsRequest ==
    ASSUME Shape, InitInv, NEW w \in Callers, Request(w)
    PROVE  /\ ListInv(job'[w])
           /\ w \in Workers => phase # "init" /\ FreeOfInit(job'[w].todo)
           /\ w = Starter => job[w].pc # "idle" /\ job'[w].pc # "idle"
<1>1. /\ ListInv(job[w]) /\ Starter \notin Workers
      /\ w \in Workers => FreeOfInit(job[w].todo) /\ (job[w].pc # "idle" => phase # "init")
  BY StarterAssumption DEF InitInv
<1> DEFINE Lists == /\ ListInv(job'[w])
                    /\ w \in Workers => phase # "init" /\ FreeOfInit(job'[w].todo)
                    /\ w = Starter => job[w].pc # "idle" /\ job'[w].pc # "idle"
           Same  == job'[w].todo = job[w].todo /\ job'[w].plain = job[w].plain
<1>2. ASSUME Same, job[w].pc # "idle", job'[w].pc # "idle",
             job'[w].pc \in {"setReq", "setBody", "field"} => job[w].plain,
             job'[w].pc \in Asking \cup {"ask"} =>
                job[w].pc \in Asking \cup {"ask"} \/ job[w].plain \/ job[w].todo # <<>>
      PROVE  Lists
  BY <1>1, <1>2 DEF ListInv
<1>3. ASSUME job[w].pc \in {"process", "log"}, job'[w].pc \in {"profile", "swapRead"},
             job'[w].todo = job[w].todo \/ (~job[w].plain /\ job'[w].todo = Tail(job[w].todo))
      PROVE  Lists
  <2>1. job[w].todo \in Seq(ProfileRecords) /\ (~job[w].plain => job[w].todo # <<>>)
    BY <1>1, <1>3 DEF ListInv, Asking
  <2>2. job'[w].todo \in Seq(ProfileRecords) /\ (FreeOfInit(job[w].todo) => FreeOfInit(job'[w].todo))
    BY <1>3, <2>1, TailFree
  <2>3. ListInv(job'[w])
    BY <1>3, <2>2 DEF ListInv, Asking
  <2> QED
    BY <1>1, <1>3, <2>2, <2>3
<1>4. ASSUME w \in Workers, job'[w].todo = <<>>, job'[w].pc \in {"idle", "ended"}, phase # "init"
      PROVE  Lists
  BY <1>1, <1>4 DEF ListInv, FreeOfInit, Asking
<1>5. CASE RunBegin(w)
  <2>1. phase = "bench" /\ w \in Workers
    BY <1>5 DEF RunBegin
  <2>2. profiles \in Seq(ProfileRecords) /\ FreeOfInit(profiles)
    BY <2>1 DEF InitInv
  <2>3. /\ job'[w].todo = profiles /\ job'[w].plain = (profiles = <<>>)
        /\ job'[w].pc = (IF profiles = <<>> THEN "setReq" ELSE "profile")
    BY <1>5, RunBeginEffect
  <2>4. ListInv(job'[w])
    BY <2>2, <2>3 DEF ListInv, Asking
  <2> QED
    BY <1>1, <2>1, <2>2, <2>3, <2>4
<1> HIDE DEF Lists
<1>6. ASSUME SetReq(w) PROVE Lists
  <2>1. Same /\ job[w].pc = "setReq" /\ job'[w].pc \in {"setReq", "setBody"}
    BY <1>6, SetReqEffect DEF Keeps, Rest, Fields
  <2> QED
    BY <1>1, <1>2, <2>1 DEF ListInv, Asking
<1>7. ASSUME SetBody(w) PROVE Lists
  <2>1. Same /\ job[w].pc = "setBody" /\ job'[w].pc \in {"field", "ask", "return"}
    BY <1>7, SetBodyEffect DEF Keeps, Rest, Fields
  <2> QED
    BY <1>1, <1>2, <2>1 DEF ListInv, Asking
<1>8. ASSUME SetField(w) PROVE Lists
  <2>1. Same /\ job[w].pc = "field" /\ job'[w].pc \in {"field", "ask"}
    BY <1>8, SetFieldEffect DEF Keeps, Rest, Fields
  <2> QED
    BY <1>1, <1>2, <2>1 DEF ListInv, Asking
<1>9. ASSUME NextProfile(w) PROVE Lists
  <2>1. Same /\ job[w].pc = "profile" /\ job'[w].pc \in {"ask", "swapRead"}
    BY <1>9, NextProfileEffect DEF Keeps, Rest, Fields
  <2>2. job[w].todo = <<>> => job'[w].pc = "swapRead"
    BY <1>9, GotoEffect DEF NextProfile
  <2> QED
    BY <1>1, <1>2, <2>1, <2>2 DEF ListInv, Asking
<1>10. ASSUME NextProfileFails(w) PROVE Lists
  <2>1. Same /\ job[w].pc = "profile" /\ job'[w].pc = "profile"
    BY <1>10 DEF NextProfileFails, At
  <2> QED
    BY <1>1, <1>2, <2>1 DEF ListInv, Asking
<1>11. ASSUME \/ Ask(w) \/ Connect(w) \/ WriteChunk(w) \/ Write(w) \/ Answer(w) \/ PrintReq(w) \/ PrintResp(w) PROVE Lists
  <2>1. /\ Same /\ job[w].pc \in {"ask", "dial", "answer", "process", "printResp"}
        /\ job'[w].pc \in {"dial", "answer", "process", "printResp", "log", "swapRead"}
    BY <1>11, AskEffect, ConnectEffect, WriteChunkEffect, WriteEffect, AnswerEffect, PrintReqEffect,
       PrintRespEffect DEF Keeps, Rest, Fields
  <2> QED
    BY <1>1, <1>2, <2>1 DEF ListInv, Asking
<1>12. ASSUME Discard(w) \/ Log(w) PROVE Lists
  <2>1. /\ job[w].pc \in {"process", "log"} /\ job'[w].pc \in {"profile", "swapRead"}
        /\ job'[w].todo = job[w].todo \/ (~job[w].plain /\ job'[w].todo = Tail(job[w].todo))
    BY <1>12, DiscardEffect, LogEffect
  <2> QED
    BY <1>3, <2>1
<1>13. ASSUME UpdateThroughput(w) PROVE Lists
  <2>1. Same /\ job[w].pc \in {"swapRead", "swapWrite"} /\ job'[w].pc \in {"swapWrite", "return"}
    BY <1>13, SwapEffect, ZenonT(40) DEF Keeps, Rest, Fields
  <2> QED
    BY <1>1, <1>2, <2>1 DEF ListInv, Asking
<1>14. ASSUME Return(w) PROVE Lists
  <2>1. w \in Workers /\ job[w].pc = "return" /\ job'[w].todo = <<>> /\ job'[w].pc \in {"idle", "ended"}
    BY <1>14, ReturnEffect DEF Return
  <2> QED
    BY <1>1, <1>4, <2>1
<1>15. ASSUME StopWorker(w) PROVE Lists
  <2>1. /\ w \in Workers /\ phase = "bench" /\ job'[w].pc = "ended"
        /\ job'[w].todo = job[w].todo /\ job'[w].plain = job[w].plain
    BY <1>15, StopWorkerEffect DEF StopWorker, Keeps, Rest, Fields
  <2> QED
    BY <1>1, <2>1 DEF Lists, ListInv, Asking
<1> QED
  BY <1>5, <1>6, <1>7, <1>8, <1>9, <1>10, <1>11, <1>12, <1>13, <1>14, <1>15 DEF Request, Lists

\* The initial Run takes the init profiles out of the list.
LEMMA ListsInitial ==
    ASSUME Shape, InitInv, RunInitial
    PROVE  /\ profiles' \in Seq(ProfileRecords) /\ FreeOfInit(profiles') /\ ListInv(job'[Starter])
           /\ job'[Starter].pc # "idle" /\ Moves(Starter)
<1>1. /\ opt.profiles \in Seq(ProfileRecords) /\ profiles = opt.profiles /\ Starter \in Callers
      /\ ListInv(job[Starter]) /\ Moves(Starter) /\ job'[Starter].pc \in {"profile", "return"}
  BY RunInitialEffect DEF RunInitial, InitInv, At, Callers, Keeps
<1>2. CASE opt.profiles = <<>>
  <2>1. Leave(Starter, "ok") /\ UNCHANGED profiles
    BY <1>2 DEF RunInitial
  <2>2. job'[Starter].todo = job[Starter].todo
    BY <1>1, <2>1, LeaveEffect DEF Keeps, Rest, Fields
  <2>3. ListInv(job'[Starter]) /\ job'[Starter].pc = "return"
    BY <1>1, <2>1, <2>2, LeaveEffect DEF ListInv, Asking
  <2>4. profiles' = <<>> /\ FreeOfInit(<<>>)
    BY <1>1, <1>2, <2>1 DEF FreeOfInit
  <2> QED
    BY <1>1, <2>3, <2>4
<1>3. CASE opt.profiles # <<>>
  <2>1. /\ job' = [job EXCEPT ![Starter].todo = Selection(opt.profiles, InitProfiles), ![Starter].pc = "profile"]
        /\ profiles' = Selection(opt.profiles, OtherProfiles)
    BY <1>3 DEF RunInitial
  <2>2. /\ Selection(opt.profiles, InitProfiles) \in Seq(ProfileRecords)
        /\ Selection(opt.profiles, OtherProfiles) \in Seq(ProfileRecords)
        /\ \A k \in DOMAIN Selection(opt.profiles, OtherProfiles) :
              Selection(opt.profiles, OtherProfiles)[k] \in OtherProfiles
    BY <1>1, SelectionRange
  <2>3. job'[Starter].todo = Selection(opt.profiles, InitProfiles)
    BY <1>1, <2>1 DEF Shape, Fields
  <2> QED
    BY <1>1, <2>1, <2>2, <2>3 DEF ListInv, FreeOfInit, OtherProfiles, Asking
<1> QED
  BY <1>2, <1>3

LEMMA InitFirstStep == Shape /\ InitInv /\ [Next]_vars => InitInv'
<1> SUFFICES ASSUME Shape, InitInv, [Next]_vars PROVE InitInv'
  OBVIOUS
<1>1. Starter \in Callers /\ Starter \notin Workers /\ Workers \subseteq Callers
  BY StarterAssumption DEF Callers
<1>2. CASE UNCHANGED <<opt, job, phase, profiles>>
  BY <1>2 DEF InitInv
<1>3. CASE Finishes
  <2>1. phase' # "init" /\ phase = "bench" /\ UNCHANGED <<opt, job, profiles>>
    BY <1>3 DEF Finishes, Final, profileVars
  <2> QED
    BY <1>1, <2>1 DEF InitInv
<1>4. CASE RunInitial
  <2>1. UNCHANGED <<opt, phase>>
    BY <1>4 DEF RunInitial, processVars
  <2> QED
    BY <1>1, <1>4, <2>1, ListsInitial DEF InitInv, Moves
<1>5. CASE ReturnInitial
  <2>1. phase' = "bench" /\ UNCHANGED <<opt, profiles>> /\ job[Starter].pc = "return"
    BY <1>5 DEF ReturnInitial, profileVars, At
  <2>2. Moves(Starter) /\ job'[Starter].pc = "ended" /\ job'[Starter].todo = <<>>
    BY <1>5, ReturnInitialEffect
  <2>3. ListInv(job'[Starter])
    BY <2>2 DEF ListInv, Asking
  <2> QED
    BY <1>1, <2>1, <2>2, <2>3 DEF InitInv, Moves
<1>6. ASSUME NEW w \in Callers, Request(w) PROVE InitInv'
  <2>1. UNCHANGED <<opt, phase, profiles>> /\ Moves(w)
    BY <1>6, RequestKeeps, RequestShape
  <2>2. /\ ListInv(job'[w])
        /\ w \in Workers => phase # "init" /\ FreeOfInit(job'[w].todo)
        /\ w = Starter => job[w].pc # "idle" /\ job'[w].pc # "idle"
    BY <1>6, ListsRequest
  <2> QED
    BY <1>1, <2>1, <2>2 DEF InitInv, Moves
<1> QED
  BY <1>2, <1>3, <1>4, <1>5, <1>6, StepKinds
     DEF Boot, Elsewhere, invokeVars, processVars, profileVars

LEMMA InitFirstInit == Init => Shape /\ InitInv
<1> SUFFICES ASSUME Init PROVE Shape /\ InitInv
  OBVIOUS
<1>1. PICK f \in Setups : opt = NewInvoker(f)
  BY DEF Init, OptInit
<1>2. opt.profiles \in Seq(ProfileRecords)
  BY <1>1, ProfilesAssumption DEF NewInvoker, BuildRequestClient, Blow
<1>3. /\ profiles = opt.profiles /\ phase = "init"
      /\ \A w \in Callers : job[w].pc = "idle" /\ job[w].todo = <<>>
  BY DEF Init, InvokeInit, NoJob
<1>4. Workers \subseteq Callers /\ Starter \in Callers
  BY DEF Callers
<1>5. ASSUME NEW w \in Callers PROVE ListInv(job[w]) /\ FreeOfInit(job[w].todo)
  <2>1. <<>> \in Seq(ProfileRecords) /\ FreeOfInit(<<>>)
    BY DEF FreeOfInit
  <2>2. ListInv(job[w])
    BY <1>3, <2>1 DEF ListInv, Asking
  <2> QED
    BY <1>3, <2>1, <2>2
<1> QED
  BY <1>2, <1>3, <1>4, <1>5, InitShape DEF InitInv

\* No worker has an init profile on its list, which is what the initial call left of the
\* profiles.
THEOREM InitComesFirst == Spec => []InitFirst
<1>1. Init => Shape /\ InitInv
  BY InitFirstInit
<1>2. Shape /\ InitInv /\ [Next]_vars => Shape' /\ InitInv'
  BY NextShape, InitFirstStep
<1>3. InitInv => InitFirst
  BY DEF InitInv, InitFirst, FreeOfInit
<1> QED
  BY <1>1, <1>2, <1>3, PTL DEF Spec
=============================================================================

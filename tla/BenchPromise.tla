---------------------------- MODULE BenchPromise ----------------------------
(***************************************************************************)
(* What a benchmark promises of its report, without a word on how it is    *)
(* made: targets answer requests, the report takes each answer once and    *)
(* counts it for what it is, and the report is over only when no answer is *)
(* left out.  A process that is killed promises nothing more.              *)
(***************************************************************************)
EXTENDS Naturals, FiniteSets

CONSTANTS
    Requests,  \* the requests there can be
    Statuses,  \* the status codes the report counts one by one
    Endings,   \* every way an answer can be: Statuses, Failed and others
    Failed,    \* the answer that is an error
    Pending    \* no answer yet

VARIABLES
    answers,   \* the answer to each request
    reported,  \* the requests in the report
    count, codes, errors,   \* the report
    status     \* "running", "over" or "killed"

vars == <<answers, reported, count, codes, errors, status>>

Init ==
    /\ answers = [q \in Requests |-> Pending]
    /\ reported = {}
    /\ count = 0
    /\ codes = [c \in Statuses |-> 0]
    /\ errors = 0
    /\ status = "running"

Answer(q, e) ==
    /\ status = "running"
    /\ answers[q] = Pending
    /\ answers' = [answers EXCEPT ![q] = e]
    /\ UNCHANGED <<reported, count, codes, errors, status>>

Report(q) ==
    /\ status = "running"
    /\ answers[q] # Pending /\ q \notin reported
    /\ reported' = reported \cup {q}
    /\ count' = count + 1
    /\ codes' = [c \in Statuses |-> IF answers[q] = c THEN codes[c] + 1 ELSE codes[c]]
    /\ errors' = IF answers[q] = Failed THEN errors + 1 ELSE errors
    /\ UNCHANGED <<answers, status>>

Finish ==
    /\ status = "running"
    /\ reported = {q \in Requests : answers[q] # Pending}
    /\ status' = "over"
    /\ UNCHANGED <<answers, reported, count, codes, errors>>

Kill ==
    /\ status' = "killed"
    /\ UNCHANGED <<answers, reported, count, codes, errors>>

Next ==
    \/ \E q \in Requests : Report(q) \/ \E e \in Endings : Answer(q, e)
    \/ Finish
    \/ Kill

Spec == Init /\ [][Next]_vars
=============================================================================

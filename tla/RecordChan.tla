----------------------------- MODULE RecordChan -----------------------------
(***************************************************************************)
(* The report records (ReportRecord, src/report.go) and the channel that   *)
(* carries them from the workers to StreamReport.Collect.                  *)
(*                                                                         *)
(* A record is a struct that the program hands around by pointer: from     *)
(* recordPool to a worker, over recordChan to Collect, back to the pool.   *)
(* At every moment one of them holds it and the others have dropped the    *)
(* pointer, so a record is modelled by its contents.  What survives a trip *)
(* through the pool is the contents that Collect left in it.               *)
(***************************************************************************)
EXTENDS Naturals, Sequences

CONSTANTS
    Statuses,     \* the merged status codes a target can answer with
    NoStatus,     \* a result without status: len(r.code) = 0
    ChanCap,      \* capacity of recordChan
    MaxRequests   \* bound on the requests one behaviour starts

ASSUME StatusesAssumption == NoStatus \notin Statuses
ASSUME CapAssumption == ChanCap \in Nat \ {0}
ASSUME MaxRequestsAssumption == MaxRequests \in Nat

Requests == 1 .. MaxRequests
Results  == Statuses \cup {NoStatus}

(***************************************************************************)
(* code, error and bytes are fields of ReportRecord: one message stands    *)
(* for every error; bytes stands for readBytes, writeBytes and cost, which *)
(* only a successful Invoke sets.  req is a history field: the request the *)
(* record was filled for, 0 for none.                                      *)
(***************************************************************************)
NoError == "no error"   \* rr.error = ""

Record == [req : Requests \cup {0}, code : Results, error : {NoError, "failed"}, bytes : {0, 1}]

NewRecord == [req |-> 0, code |-> NoStatus, error |-> NoError, bytes |-> 0]

\* Mutant: Reset forgets rr.error.
ResetKeepsError(r) == [NewRecord EXCEPT !.error = r.error]

\* ReportRecord.Reset: every field goes back to its zero value.
Reset(r) == NewRecord

\* What Collect leaves in a record it puts back: it clears code alone.
Used(r) == [r EXCEPT !.req = 0, !.code = NoStatus]

VARIABLES
    recordChan,   \* the records in the buffer of the channel, oldest first
    closed,       \* close(r.recordChan) has been called
    pool          \* the contents of the records put back in recordPool

chanVars == <<recordChan, closed, pool>>

ChanTypeOK ==
    /\ recordChan \in Seq(Record)
    /\ Len(recordChan) <= ChanCap
    /\ closed \in BOOLEAN
    /\ pool \subseteq Record

ChanInit ==
    /\ recordChan = <<>>
    /\ closed = FALSE
    /\ pool = {}

(***************************************************************************)
(* What recordPool.Get() may return: New's record, or one that was put     *)
(* back.  sync.Pool keeps or drops the records it is given as it likes,    *)
(* so the set of their contents only grows.                                *)
(***************************************************************************)
Pooled == pool \cup {NewRecord}

\* Mutant: a channel without a limit.
CanAlwaysSend == ~closed

CanSend == ~closed /\ Len(recordChan) < ChanCap

Send(r) ==
    /\ CanSend
    /\ recordChan' = Append(recordChan, r)
    /\ UNCHANGED <<closed, pool>>

\* A receive from a closed channel first drains what the buffer holds.
CanReceive == recordChan # <<>>

Receive ==
    /\ CanReceive
    /\ recordChan' = Tail(recordChan)
    /\ UNCHANGED <<closed, pool>>

\* Mutant: Collect stops at the close, whatever is left in the buffer.
DrainedUnread == closed

Drained == closed /\ recordChan = <<>>

CloseChan ==
    /\ closed' = TRUE
    /\ UNCHANGED <<recordChan, pool>>

Put(r) ==
    /\ pool' = pool \cup {Used(r)}
    /\ UNCHANGED <<recordChan, closed>>
=============================================================================

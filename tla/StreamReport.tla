---------------------------- MODULE StreamReport ----------------------------
(***************************************************************************)
(* The StreamReport of src/report.go: Collect, which takes the records off *)
(* recordChan, and the goroutine it starts, which closes a window every    *)
(* second for the charts.                                                  *)
(*                                                                         *)
(* Every access to the statistics holds s.lock, and no section under the   *)
(* lock blocks: each section is one step, and the lock is not a variable.  *)
(* latencyStats is modelled by its count; the sums, the quantiles, the     *)
(* histogram and the estimate of distinct countings are left out.          *)
(***************************************************************************)
EXTENDS RecordChan, FiniteSets

VARIABLES
    collect,          \* where Collect is; doneChan is closed when it is done
    held,             \* the record Collect has received
    count,            \* s.latencyStats.count
    codes,            \* s.codes
    errors,           \* s.errors, over all messages
    bytes,            \* s.readBytes and s.writeBytes
    reported,         \* history: the requests whose record is in the above
    sec,              \* where the goroutine of the seconds is
    temp,             \* latencyWithinSecTemp.count
    lastCount,        \* count when the last window was closed
    latencyWithinSec, \* s.latencyWithinSec.count
    rpsWithinSec,     \* s.rpsWithinSec times the seconds it was divided by
    noDateWithinSec   \* s.noDateWithinSec: nothing came in the last second

collectVars == <<collect, held, count, codes, errors, bytes, reported>>
secVars     == <<sec, lastCount, latencyWithinSec, rpsWithinSec, noDateWithinSec>>
reportVars  == <<collectVars, temp, secVars>>

ReportTypeOK ==
    /\ collect \in {"none", "begin", "recv", "update", "done"}
    /\ held \in Record
    /\ count \in Nat
    /\ codes \in [Statuses -> Nat]
    /\ errors \in Nat
    /\ bytes \in Nat
    /\ reported \subseteq Requests \cup {0}
    /\ sec \in {"none", "loop", "over"}
    /\ temp \in Nat
    /\ lastCount \in Nat
    /\ latencyWithinSec \in Nat
    /\ rpsWithinSec \in Nat
    /\ noDateWithinSec \in BOOLEAN

ReportInit ==
    /\ collect = "none"
    /\ held = NewRecord
    /\ count = 0
    /\ codes = [c \in Statuses |-> 0]
    /\ errors = 0
    /\ bytes = 0
    /\ reported = {}
    /\ sec = "none"
    /\ temp = 0
    /\ lastCount = 0
    /\ latencyWithinSec = 0
    /\ rpsWithinSec = 0
    /\ noDateWithinSec = FALSE

DoneClosed == collect = "done"

-----------------------------------------------------------------------------

\* Collect starts the goroutine of the seconds.
CollectBegin ==
    /\ collect = "begin"
    /\ collect' = "recv"
    /\ sec' = "loop"
    /\ UNCHANGED <<held, count, codes, errors, bytes, reported, temp, lastCount,
                   latencyWithinSec, rpsWithinSec, noDateWithinSec, chanVars>>

\* r, ok := <-recordChan with ok
CollectReceive ==
    /\ collect = "recv"
    /\ Receive
    /\ held' = Head(recordChan)
    /\ collect' = "update"
    /\ UNCHANGED <<count, codes, errors, bytes, reported, temp, secVars>>

\* The section under the lock, then recordPool.Put(r).
CollectUpdate ==
    /\ collect = "update"
    /\ temp' = temp + 1
    /\ count' = count + 1
    /\ codes' = IF held.code = NoStatus THEN codes
                ELSE [codes EXCEPT ![held.code] = @ + 1]
    /\ errors' = IF held.error # NoError THEN errors + 1 ELSE errors
    /\ bytes' = bytes + held.bytes
    /\ reported' = reported \cup {held.req}
    /\ Put(held)
    /\ held' = NewRecord
    /\ collect' = "recv"
    /\ UNCHANGED secVars

\* !ok: close(s.doneChan)
CollectDone ==
    /\ collect = "recv" /\ Drained
    /\ collect' = "done"
    /\ UNCHANGED <<held, count, codes, errors, bytes, reported, temp, secVars, chanVars>>

-----------------------------------------------------------------------------

\* Mutant: latencyWithinSecTemp is not reset.
SecondTickNoReset ==
    /\ sec = "loop"
    /\ IF count > lastCount
       THEN /\ rpsWithinSec' = count - lastCount
            /\ latencyWithinSec' = temp
            /\ lastCount' = count
            /\ noDateWithinSec' = FALSE
       ELSE /\ noDateWithinSec' = TRUE
            /\ UNCHANGED <<rpsWithinSec, latencyWithinSec, lastCount>>
    /\ UNCHANGED <<sec, temp, collectVars, chanVars>>

\* <-ticker.C and the section under the lock
SecondTick ==
    /\ sec = "loop"
    /\ IF count > lastCount
       THEN /\ rpsWithinSec' = count - lastCount
            /\ latencyWithinSec' = temp
            /\ lastCount' = count
            /\ temp' = 0
            /\ noDateWithinSec' = FALSE
       ELSE /\ noDateWithinSec' = TRUE
            /\ UNCHANGED <<rpsWithinSec, latencyWithinSec, lastCount, temp>>
    /\ UNCHANGED <<sec, collectVars, chanVars>>

\* <-s.doneChan
SecondsOver ==
    /\ sec = "loop" /\ DoneClosed
    /\ sec' = "over"
    /\ UNCHANGED <<temp, lastCount, latencyWithinSec, rpsWithinSec, noDateWithinSec,
                   collectVars, chanVars>>

Collect == CollectBegin \/ CollectReceive \/ CollectUpdate \/ CollectDone

Seconds == SecondTick \/ SecondsOver
=============================================================================

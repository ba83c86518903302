---------------------------- MODULE PlotsLog ----------------------------
(***************************************************************************)
(* JSONLogFile of pkg/util/util.go: the log of plots that the chart        *)
(* collector writes, one JSON array per file.  The name of the file is the *)
(* minute in which it was opened, so runs of berf that start in the same   *)
(* minute open the same file one after the other.  This module is one such *)
(* minute: its file, the archive made of it, and the run at work, if any.  *)
(*                                                                         *)
(* A file is a sequence of bytes.  The text of a row is long, but only its *)
(* last two bytes can be told apart by a seek from the end: a row is its   *)
(* text (the row itself) and these two bytes.  No file is an empty file,   *)
(* which the code treats alike, and an archive that cannot be unpacked is  *)
(* empty.  A short write stores a prefix.  Nothing is lost by a crash of   *)
(* the process but what it holds in memory.                                *)
(***************************************************************************)
EXTENDS Integers, Sequences, FiniteSets

CONSTANTS Rows,       \* the rows that may be written, each once
          MaxOpens,   \* bound on the runs of this minute
          MayCrash,   \* whether a run may be killed, by its second signal too
          MayFail     \* whether the file system may refuse (a full disk)

LF    == "\n"
Marks == {"[", "]", ",", LF, "quote", "}"}

ASSUME PlotsAssumption ==
    /\ Rows \cap Marks = {}
    /\ MaxOpens \in Nat
    /\ MayCrash \in BOOLEAN
    /\ MayFail \in BOOLEAN

VARIABLES log,       \* the bytes of berf_<minute>.log
          archive,   \* the bytes that berf_<minute>.log.gz unpacks to
          pc,        \* where the run is
          pos,       \* the position in the open file
          hasRows,   \* HasRows
          row,       \* the row WriteJSON is at, or the last one
          failed,    \* whether a write of this WriteJSON was short
          opens,     \* how many runs there were
          tried,     \* history: the rows given to WriteJSON
          kept,      \* history: rows written without an error since the log is there
          rows,      \* history: what the array has, or will have had after a write
          sound,     \* history: the framing at the opening could be continued
          settled    \* history: the log is framed, not between two writes

fileVars    == <<log, archive>>
runVars     == <<pc, pos, hasRows, row, failed, opens, tried>>
historyVars == <<kept, rows, sound, settled>>
vars        == <<fileVars, runVars, historyVars>>

(***************************************************************************)
(* Bytes                                                                   *)
(***************************************************************************)
Text(r) == <<r, "quote", "}">>

\* A short write stores the first n bytes of data at p, over what is there.
Over(file, p, data, n) ==
    [i \in 1 .. (IF p + n > Len(file) THEN p + n ELSE Len(file)) |->
        IF i \in (p + 1) .. (p + n) THEN data[i - p] ELSE file[i]]

Short(data) == IF MayFail THEN 0 .. Len(data) ELSE {Len(data)}

\* All bytes of r are in the file, the last of them at p or before.
IntactBy(file, p, r) ==
    \E i \in 1 .. (p - 2) : \A k \in 1 .. 3 : file[i + k - 1] = Text(r)[k]

Intact(file) == {r \in Rows : IntactBy(file, Len(file), r)}

\* The array of rs without its last line break and bracket.  Each row takes five
\* bytes: a bracket or a comma, a line break, and its text.
Cell(rs, n, k) ==
    IF k = 0 THEN (IF n = 1 THEN "[" ELSE ",")
    ELSE IF k = 1 THEN LF ELSE Text(rs[n])[k - 1]

Opened(rs) ==
    [i \in 1 .. (5 * Len(rs)) |-> Cell(rs, ((i - 1) \div 5) + 1, (i - 1) % 5)]

Closing == <<LF, "]">>

Framed(rs) == IF rs = <<>> THEN <<"[", "]", LF>> ELSE Opened(rs) \o Closing

\* The rows of an array, taken from their places: none if there is anything else.
RowsIn(file) ==
    LET rs == [n \in 1 .. (Len(file) \div 5) |-> file[5 * n - 2]]
    IN  IF \A n \in DOMAIN rs : rs[n] \in Rows THEN rs ELSE <<>>

Cut(file) == SubSeq(file, 1, Len(file) - 2)

(***************************************************************************)
(* NewJsonLogFile                                                          *)
(***************************************************************************)
Init ==
    /\ log = <<>> /\ archive = <<>>
    /\ pc = "off" /\ pos = 0 /\ hasRows = FALSE
    /\ row \in Rows /\ failed = FALSE /\ opens = 0 /\ tried = {}
    /\ kept = {} /\ rows = <<>> /\ sound = FALSE /\ settled = FALSE

\* Mutant: a file that is there already is not recognised as having rows.
OpenForgetful ==
    /\ pc = "off" /\ opens < MaxOpens
    /\ opens' = opens + 1
    /\ pos' = Len(log)
    /\ hasRows' = FALSE
    /\ pc' = IF log = <<>> THEN "fresh" ELSE "idle"
    /\ rows' = RowsIn(Cut(log))
    /\ sound' = (rows' # <<>> /\ Cut(log) = Opened(rows'))
    /\ settled' = (sound' /\ log = Framed(rows'))
    /\ kept' = IF log = <<>> THEN {} ELSE kept
    /\ UNCHANGED <<fileVars, row, failed, tried>>

\* The file is opened and the position is its end.  An empty file is yet to be begun.
Open ==
    /\ pc = "off" /\ opens < MaxOpens
    /\ opens' = opens + 1
    /\ pos' = Len(log)
    /\ hasRows' = (log # <<>>)
    /\ pc' = IF log = <<>> THEN "fresh" ELSE "idle"
    /\ rows' = RowsIn(Cut(log))
    /\ sound' = (rows' # <<>> /\ Cut(log) = Opened(rows'))
    /\ settled' = (sound' /\ log = Framed(rows'))
    /\ kept' = IF log = <<>> THEN {} ELSE kept
    /\ UNCHANGED <<fileVars, row, failed, tried>>

\* A new file gets an empty array.  The result of this write is not looked at.
OpenFresh ==
    /\ pc = "fresh"
    /\ \E n \in Short(Framed(<<>>)) :
          /\ log' = Over(log, pos, Framed(<<>>), n)
          /\ pos' = pos + n
          /\ sound' = (n = Len(Framed(<<>>)))
          /\ settled' = sound'
    /\ pc' = "idle"
    /\ UNCHANGED <<archive, hasRows, row, failed, opens, tried, kept, rows>>

(***************************************************************************)
(* WriteJSON: a seek and three writes, each made whether or not the one    *)
(* before it succeeded                                                     *)
(***************************************************************************)

\* Mutant: the position is computed, whatever the length of the file.
SoughtBlindly == Len(log) - 2

\* Seek(-2, io.SeekEnd), which leaves the position alone where it would be negative.
Sought == IF Len(log) < 2 THEN pos ELSE Len(log) - 2

Separator == IF hasRows THEN <<",", LF>> ELSE <<LF>>

\* One write at p, after which the run is at the step called next.
Write(p, data, next) ==
    /\ pc' = next
    /\ \E n \in Short(data) :
          /\ log' = Over(log, p, data, n)
          /\ pos' = p + n
          /\ failed' = ((failed /\ pc # "idle") \/ n < Len(data))

WriteSeparator(r) ==
    /\ pc = "idle" /\ r \notin tried
    /\ Write(Sought, Separator, "row")
    /\ hasRows' = TRUE
    /\ row' = r /\ tried' = tried \cup {r}
    /\ settled' = FALSE
    /\ UNCHANGED <<archive, opens, kept, rows, sound>>

WriteRow ==
    /\ pc = "row"
    /\ Write(pos, Text(row), "tail")
    /\ UNCHANGED <<archive, hasRows, row, opens, tried, historyVars>>

WriteTail ==
    /\ pc = "tail"
    /\ Write(pos, Closing, "idle")
    /\ IF failed'
       THEN sound' = FALSE /\ UNCHANGED <<kept, rows, settled>>
       ELSE /\ kept' = kept \cup {row}
            /\ rows' = Append(rows, row)
            /\ settled' = TRUE
            /\ UNCHANGED sound
    /\ UNCHANGED <<archive, hasRows, row, opens, tried>>

(***************************************************************************)
(* Close and gzipFile                                                      *)
(***************************************************************************)

\* Stat: more than the three bytes of an empty array.
Packable == Len(log) > 3 \/ \E i \in 1 .. Len(log) : log[i] \in Rows

Close ==
    /\ pc = "idle"
    /\ \/ Packable /\ pc' = "pack"
       \/ (~Packable \/ MayFail) /\ pc' = "off"
    /\ UNCHANGED <<fileVars, pos, hasRows, row, failed, opens, tried, historyVars>>

\* os.Create empties an archive that is there already.
PackCreate ==
    /\ pc = "pack"
    /\ \/ archive' = <<>> /\ pc' = "packing"
       \/ MayFail /\ pc' = "off" /\ UNCHANGED archive
    /\ UNCHANGED <<log, pos, hasRows, row, failed, opens, tried, historyVars>>

\* Mutant: the log is removed although the compressor was closed with an error.
PackWriteRegardless ==
    /\ pc = "packing"
    /\ archive' = log \/ (MayFail /\ UNCHANGED archive)
    /\ pc' = "packed"
    /\ UNCHANGED <<log, pos, hasRows, row, failed, opens, tried, historyVars>>

\* The content, read before, is compressed and the compressor is closed.
PackWrite ==
    /\ pc = "packing"
    /\ \/ archive' = log /\ pc' = "packed"
       \/ MayFail /\ pc' = "off" /\ UNCHANGED archive
    /\ UNCHANGED <<log, pos, hasRows, row, failed, opens, tried, historyVars>>

\* os.Remove, whose error is not looked at.
PackRemove ==
    /\ pc = "packed"
    /\ log' = <<>> \/ (MayFail /\ UNCHANGED log)
    /\ pc' = "off"
    /\ UNCHANGED <<archive, pos, hasRows, row, failed, opens, tried, historyVars>>

\* The run is killed, or its own handler of signals calls os.Exit.
Crash ==
    /\ MayCrash /\ pc # "off"
    /\ pc' = "off"
    /\ UNCHANGED <<fileVars, pos, hasRows, row, failed, opens, tried, historyVars>>

Next ==
    \/ Open \/ OpenFresh
    \/ \E r \in Rows : WriteSeparator(r)
    \/ WriteRow \/ WriteTail
    \/ Close \/ PackCreate \/ PackWrite \/ PackRemove
    \/ Crash

Spec == Init /\ [][Next]_vars

(***************************************************************************)
(* Properties                                                              *)
(***************************************************************************)
Byte == Rows \cup Marks

\* The position of the open file is within it: a write never leaves a hole of
\* zero bytes in the log, and nothing is written while no file is open.
TypeOK ==
    /\ log \in Seq(Byte) /\ archive \in Seq(Byte)
    /\ pc \in {"off", "fresh", "idle", "row", "tail", "pack", "packing", "packed"}
    /\ pos \in Nat /\ (pc \in {"fresh", "idle", "row", "tail"} => pos <= Len(log))
    /\ hasRows \in BOOLEAN /\ failed \in BOOLEAN
    /\ sound \in BOOLEAN /\ settled \in BOOLEAN
    /\ row \in Rows /\ tried \subseteq Rows /\ kept \subseteq Rows
    /\ opens \in 0 .. MaxOpens
    /\ rows \in Seq(Rows)

\* Whatever is killed or refused, and at whichever of the steps of WriteJSON,
\* Close and gzipFile, the rows that WriteJSON wrote without an error since the
\* log was begun are in the log or in its archive, with all their bytes: writing
\* over the end of the log never reaches into them and the log is removed only
\* when its archive can be unpacked.
RowsSurvive == kept \subseteq Intact(log) \cup Intact(archive)

\* Once the framing is sound, the log or the archive is an array of exactly the
\* rows written, in order, at every moment that is not between two writes of
\* WriteJSON: also when the run appends to the log of an earlier one, and when
\* it repairs a log that was left with a separator at its end.
PlotsReadable ==
    sound /\ settled => Framed(rows) \in {log, archive}

\* README.md: the archive is viewed with `berf berf_202111301122.log.gz`.  handleData
\* in charts.go serves it as the array of plots.
ArchiveViewable ==
    archive # <<>> => archive = Framed(RowsIn(archive))
=============================================================================

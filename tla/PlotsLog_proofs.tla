------------------------- MODULE PlotsLog_proofs -------------------------
(***************************************************************************)
(* Theorems about the log of plots, for any number of rows and runs, with  *)
(* and without crashes and short writes.                                   *)
(***************************************************************************)
EXTENDS PlotsLog, SequenceTheorems, TLAPS

(***************************************************************************)
(* Lemmas about files                                                      *)
(***************************************************************************)

\* A write stores a prefix of its data at its position and nothing else.
LEMMA OverWrites ==
    ASSUME NEW S, NEW file \in Seq(S), NEW data \in Seq(S),
           NEW p \in 0 .. Len(file), NEW n \in 0 .. Len(data)
    PROVE  /\ Over(file, p, data, n) \in Seq(S)
           /\ Len(Over(file, p, data, n)) = IF p + n > Len(file) THEN p + n ELSE Len(file)
           /\ \A i \in 1 .. p : Over(file, p, data, n)[i] = file[i]
           /\ \A i \in 1 .. n : Over(file, p, data, n)[p + i] = data[i]
           /\ \A i \in (p + n + 1) .. Len(file) : Over(file, p, data, n)[i] = file[i]
<1> DEFINE m == IF p + n > Len(file) THEN p + n ELSE Len(file)
           g == [i \in 1 .. m |-> IF i \in (p + 1) .. (p + n) THEN data[i - p] ELSE file[i]]
<1>1. m \in Nat /\ Over(file, p, data, n) = g
  BY DEF Over
<1>2. \A i \in 1 .. m : g[i] \in S
  <2> TAKE i \in 1 .. m
  <2>1. CASE i \in (p + 1) .. (p + n)
    <3>1. i - p \in 1 .. Len(data)
      BY <2>1
    <3> QED BY <3>1, <2>1
  <2>2. CASE i \notin (p + 1) .. (p + n)
    <3>1. i \in 1 .. Len(file)
      BY <2>2
    <3> QED BY <3>1, <2>2
  <2> QED BY <2>1, <2>2
<1>3. g \in Seq(S) /\ Len(g) = m
  BY <1>1, <1>2
<1>4. /\ \A i \in 1 .. p : g[i] = file[i]
      /\ \A i \in 1 .. n : g[p + i] = data[i]
      /\ \A i \in (p + n + 1) .. Len(file) : g[i] = file[i]
  BY <1>1
<1> QED BY <1>1, <1>3, <1>4

\* A whole write to an empty file makes the file.
LEMMA WholeFile ==
    ASSUME NEW S, NEW file \in Seq(S), Len(file) = 0, NEW data \in Seq(S)
    PROVE  Over(file, 0, data, Len(data)) = data
<1> DEFINE g == Over(file, 0, data, Len(data))
<1>1. g = [i \in 1 .. Len(data) |-> data[i]]
  <2> DEFINE m == IF 0 + Len(data) > Len(file) THEN 0 + Len(data) ELSE Len(file)
             h == [i \in 1 .. m |->
                     IF i \in (0 + 1) .. (0 + Len(data)) THEN data[i - 0] ELSE file[i]]
  <2>1. g = h
    BY Zenon DEF Over
  <2>2. m = Len(data)
    OBVIOUS
  <2>3. \A i \in 1 .. Len(data) : i \in (0 + 1) .. (0 + Len(data)) /\ i - 0 = i
    OBVIOUS
  <2>4. h = [i \in 1 .. Len(data) |-> data[i]]
    BY <2>2, <2>3
  <2> QED BY <2>1, <2>4, Zenon
<1>2. data = [i \in 1 .. Len(data) |-> data[i]]
  OBVIOUS
<1> QED BY <1>1, <1>2, Zenon

\* What is within the log's first p bytes stays there as long as these bytes do.
LEMMA IntactStays ==
    ASSUME NEW f, NEW g, NEW p \in Int, NEW q \in Int, p <= q,
           \A i \in 1 .. p : g[i] = f[i],
           NEW r, IntactBy(f, p, r)
    PROVE  IntactBy(g, q, r)
<1>1. PICK i \in 1 .. (p - 2) : \A k \in 1 .. 3 : f[i + k - 1] = Text(r)[k]
  BY DEF IntactBy
<1>2. i \in 1 .. (q - 2)
  OBVIOUS
<1>3. \A k \in 1 .. 3 : g[i + k - 1] = Text(r)[k]
  <2> TAKE k \in 1 .. 3
  <2>1. i + k - 1 \in 1 .. p
    OBVIOUS
  <2> QED BY <2>1, <1>1
<1> QED BY <1>2, <1>3 DEF IntactBy

LEMMA Tuples ==
    ASSUME NEW S, NEW a \in S, NEW b \in S, NEW c \in S
    PROVE  /\ <<a>> \in Seq(S) /\ Len(<<a>>) = 1
           /\ <<a, b>> \in Seq(S) /\ Len(<<a, b>>) = 2
           /\ <<a, b, c>> \in Seq(S) /\ Len(<<a, b, c>>) = 3
OBVIOUS

LEMMA EmptyFile == <<>> \in Seq(Byte) /\ <<>> \in Seq(Rows)
OBVIOUS

\* The pieces that are written are sequences of bytes.
LEMMA Pieces ==
    /\ \A r \in Rows : Text(r) \in Seq(Byte) /\ Len(Text(r)) = 3
    /\ Separator \in Seq(Byte) /\ Len(Separator) \in 1 .. 2
    /\ Closing \in Seq(Byte) /\ Len(Closing) = 2
    /\ Framed(<<>>) = <<"[", "]", LF>> /\ Framed(<<>>) \in Seq(Byte) /\ Len(Framed(<<>>)) = 3
<1>1. /\ "[" \in Byte /\ "]" \in Byte /\ "," \in Byte
      /\ LF \in Byte /\ "quote" \in Byte /\ "}" \in Byte
  BY Zenon DEF Byte, Marks
<1>2. \A r \in Rows : r \in Byte
  BY DEF Byte
<1>3. \A r \in Rows : Text(r) \in Seq(Byte) /\ Len(Text(r)) = 3
  BY <1>1, <1>2, Tuples DEF Text
<1>4. Separator \in Seq(Byte) /\ Len(Separator) \in 1 .. 2
  <2>1. <<",", LF>> \in Seq(Byte) /\ Len(<<",", LF>>) = 2
    BY <1>1, Tuples
  <2>2. <<LF>> \in Seq(Byte) /\ Len(<<LF>>) = 1
    BY <1>1, Tuples
  <2>3. Separator = <<",", LF>> \/ Separator = <<LF>>
    BY Zenon DEF Separator
  <2>4. Separator \in Seq(Byte) /\ (Len(Separator) = 1 \/ Len(Separator) = 2)
    BY <2>1, <2>2, <2>3, Zenon
  <2> QED BY <2>4
<1>5. Closing \in Seq(Byte) /\ Len(Closing) = 2
  BY <1>1, Tuples DEF Closing
<1>6. Framed(<<>>) = <<"[", "]", LF>>
  BY DEF Framed
<1>7. Framed(<<>>) \in Seq(Byte) /\ Len(Framed(<<>>)) = 3
  BY <1>1, <1>6, Tuples
<1> QED BY <1>3, <1>4, <1>5, <1>6, <1>7

LEMMA ShortIsPrefix ==
    ASSUME NEW S, NEW data \in Seq(S)
    PROVE  Short(data) \subseteq 0 .. Len(data)
BY DEF Short

LEMMA RowsInType ==
    ASSUME NEW S, NEW file \in Seq(S)
    PROVE  RowsIn(file) \in Seq(Rows)
<1> DEFINE rs == [n \in 1 .. (Len(file) \div 5) |-> file[5 * n - 2]]
<1>1. RowsIn(file) = IF \A n \in DOMAIN rs : rs[n] \in Rows THEN rs ELSE <<>>
  BY DEF RowsIn
<1>2. Len(file) \div 5 \in Nat
  OBVIOUS
<1>3. (\A n \in DOMAIN rs : rs[n] \in Rows) => rs \in Seq(Rows)
  BY <1>2
<1> QED BY <1>1, <1>3

LEMMA CutType ==
    ASSUME NEW S, NEW file \in Seq(S)
    PROVE  /\ Cut(file) \in Seq(S)
           /\ Len(Cut(file)) = IF Len(file) < 2 THEN 0 ELSE Len(file) - 2
           /\ \A i \in 1 .. (Len(file) - 2) : Cut(file)[i] = file[i]
BY DEF Cut

(***************************************************************************)
(* Type correctness                                                        *)
(***************************************************************************)

\* Every write of WriteJSON, at a position in the file, leaves a file of bytes
\* with the position inside it.
LEMMA WriteTypes ==
    ASSUME TypeOK, NEW p \in 0 .. Len(log), NEW data \in Seq(Byte), NEW next,
           Write(p, data, next)
    PROVE  /\ log' \in Seq(Byte) /\ pos' \in p .. Len(log') /\ Len(log) <= Len(log')
           /\ failed' \in BOOLEAN /\ pc' = next
           /\ \A i \in 1 .. p : log'[i] = log[i]
<1> USE DEF TypeOK
<1>1. PICK n \in Short(data) :
          /\ log' = Over(log, p, data, n)
          /\ pos' = p + n
          /\ failed' = ((failed /\ pc # "idle") \/ n < Len(data))
  BY DEF Write
<1>2. n \in 0 .. Len(data)
  BY ShortIsPrefix
<1>3. /\ log' \in Seq(Byte)
      /\ Len(log') = IF p + n > Len(log) THEN p + n ELSE Len(log)
      /\ \A i \in 1 .. p : log'[i] = log[i]
      /\ \A i \in 1 .. n : log'[p + i] = data[i]
  BY <1>1, <1>2, OverWrites
<1>4. failed' \in BOOLEAN
  BY <1>1, Zenon
<1>5. pc' = next
  BY DEF Write
<1>6. pos' \in p .. Len(log') /\ Len(log) <= Len(log')
  BY <1>1, <1>2, <1>3
<1> QED BY <1>3, <1>4, <1>5, <1>6

\* A write without an error is all there.
LEMMA WriteWhole ==
    ASSUME TypeOK, NEW p \in 0 .. Len(log), NEW data \in Seq(Byte), NEW next,
           Write(p, data, next), failed' = FALSE
    PROVE  /\ pos' = p + Len(data)
           /\ \A i \in 1 .. Len(data) : log'[p + i] = data[i]
           /\ Len(log') = IF pos' > Len(log) THEN pos' ELSE Len(log)
           /\ \A i \in (pos' + 1) .. Len(log) : log'[i] = log[i]
           /\ pc # "idle" => failed = FALSE
<1> USE DEF TypeOK
<1>1. PICK n \in Short(data) :
          /\ log' = Over(log, p, data, n)
          /\ pos' = p + n
          /\ failed' = ((failed /\ pc # "idle") \/ n < Len(data))
  BY DEF Write
<1>2. n \in 0 .. Len(data) /\ ~(n < Len(data)) /\ (pc # "idle" => failed = FALSE)
  <2>1. ~(n < Len(data)) /\ (pc # "idle" => ~failed)
    BY <1>1, Zenon
  <2>2. n \in 0 .. Len(data)
    BY ShortIsPrefix
  <2>3. pc # "idle" => failed = FALSE
    BY <2>1
  <2> QED BY <2>1, <2>2, <2>3
<1>3. n = Len(data) /\ pos' = p + Len(data)
  <2>1. n = Len(data)
    BY <1>2
  <2>2. pos' = p + n
    BY <1>1
  <2> QED BY <2>1, <2>2, Zenon
<1>4. log' = Over(log, p, data, n) /\ n \in 0 .. Len(data) /\ log \in Seq(Byte)
  BY <1>1, <1>2
<1>5. /\ Len(log') = IF p + n > Len(log) THEN p + n ELSE Len(log)
      /\ \A i \in 1 .. n : log'[p + i] = data[i]
      /\ \A i \in (p + n + 1) .. Len(log) : log'[i] = log[i]
  BY <1>4, OverWrites
<1> QED BY <1>2, <1>3, <1>5

LEMMA SoughtInFile ==
    ASSUME TypeOK, pc = "idle"
    PROVE  /\ Sought \in 0 .. Len(log)
           /\ Len(log) >= 2 => Sought = Len(log) - 2
BY DEF TypeOK, Sought

LEMMA TypeInit == Init => TypeOK
<1> SUFFICES ASSUME Init PROVE TypeOK
  OBVIOUS
<1>1. log \in Seq(Byte) /\ archive \in Seq(Byte) /\ rows \in Seq(Rows)
  BY EmptyFile DEF Init
<1>2. opens \in 0 .. MaxOpens
  BY PlotsAssumption DEF Init
<1> QED BY <1>1, <1>2 DEF Init, TypeOK

LEMMA TypeNext == TypeOK /\ [Next]_vars => TypeOK'
<1> SUFFICES ASSUME TypeOK, [Next]_vars PROVE TypeOK'
  OBVIOUS
<1> USE PlotsAssumption
<1>1. CASE Open
  <2>1. rows' \in Seq(Rows)
    BY <1>1, CutType, RowsInType DEF Open, TypeOK
  <2>2. sound' \in BOOLEAN /\ settled' \in BOOLEAN /\ hasRows' \in BOOLEAN
    BY <1>1 DEF Open
  <2> QED BY <2>1, <2>2, <1>1 DEF Open, TypeOK, fileVars
<1>2. CASE OpenFresh
  <2>1. PICK n \in Short(Framed(<<>>)) :
          /\ log' = Over(log, pos, Framed(<<>>), n)
          /\ pos' = pos + n
          /\ sound' = (n = Len(Framed(<<>>)))
          /\ settled' = sound'
    BY <1>2 DEF OpenFresh
  <2>2. pos \in 0 .. Len(log)
    BY <1>2 DEF OpenFresh, TypeOK
  <2>3. n \in 0 .. Len(Framed(<<>>))
    BY Pieces, ShortIsPrefix
  <2>4. log' \in Seq(Byte) /\ pos' \in Nat /\ pos' <= Len(log')
    BY <2>1, <2>2, <2>3, Pieces, OverWrites DEF TypeOK
  <2> QED BY <2>1, <2>4, <1>2 DEF OpenFresh, TypeOK
<1>3. ASSUME NEW r \in Rows, WriteSeparator(r) PROVE TypeOK'
  <2>1. log' \in Seq(Byte) /\ pos' \in Nat /\ pos' <= Len(log') /\ failed' \in BOOLEAN /\ pc' = "row"
    BY <1>3, Pieces, SoughtInFile, WriteTypes DEF WriteSeparator, TypeOK
  <2> QED BY <2>1, <1>3 DEF WriteSeparator, TypeOK
<1>4. CASE WriteRow
  <2>1. log' \in Seq(Byte) /\ pos' \in Nat /\ pos' <= Len(log') /\ failed' \in BOOLEAN /\ pc' = "tail"
    <3>1. pos \in 0 .. Len(log) /\ row \in Rows
      BY <1>4 DEF WriteRow, TypeOK
    <3>2. Text(row) \in Seq(Byte) /\ Write(pos, Text(row), "tail")
      BY <1>4, <3>1, Pieces DEF WriteRow
    <3> QED BY <3>1, <3>2, WriteTypes DEF TypeOK
  <2> QED BY <2>1, <1>4 DEF WriteRow, TypeOK, historyVars
<1>5. CASE WriteTail
  <2>1. log' \in Seq(Byte) /\ pos' \in Nat /\ pos' <= Len(log') /\ failed' \in BOOLEAN /\ pc' = "idle"
    <3>1. pos \in 0 .. Len(log)
      BY <1>5 DEF WriteTail, TypeOK
    <3> QED BY <1>5, <3>1, Pieces, WriteTypes DEF WriteTail, TypeOK
  <2>2. rows' \in Seq(Rows) /\ kept' \subseteq Rows /\ sound' \in BOOLEAN /\ settled' \in BOOLEAN
    <3>1. CASE failed'
      BY <1>5, <3>1 DEF WriteTail, TypeOK
    <3>2. CASE ~failed'
      <4>1. rows' = Append(rows, row) /\ kept' = kept \cup {row} /\ settled' = TRUE /\ sound' = sound
        BY <1>5, <3>2 DEF WriteTail
      <4> QED BY <4>1 DEF TypeOK
    <3> QED BY <3>1, <3>2
  <2> QED BY <2>1, <2>2, <1>5 DEF WriteTail, TypeOK
<1>6. CASE Close
  BY <1>6 DEF Close, TypeOK, fileVars, historyVars
<1>7. CASE PackCreate
  <2>1. archive' \in Seq(Byte)
    <3>1. archive' = <<>> \/ archive' = archive
      BY <1>7 DEF PackCreate
    <3>2. archive \in Seq(Byte)
      BY DEF TypeOK
    <3> QED BY <3>1, <3>2, EmptyFile
  <2> QED BY <2>1, <1>7 DEF PackCreate, TypeOK, historyVars
<1>8. CASE PackWrite
  BY <1>8 DEF PackWrite, TypeOK, historyVars
<1>9. CASE PackRemove
  <2>1. log' \in Seq(Byte)
    <3>1. log' = <<>> \/ log' = log
      BY <1>9 DEF PackRemove
    <3>2. log \in Seq(Byte)
      BY DEF TypeOK
    <3> QED BY <3>1, <3>2, EmptyFile
  <2> QED BY <2>1, <1>9 DEF PackRemove, TypeOK, historyVars
<1>10. CASE Crash
  BY <1>10 DEF Crash, TypeOK, fileVars, historyVars
<1>11. CASE UNCHANGED vars
  BY <1>11 DEF vars, fileVars, runVars, historyVars, TypeOK
<1> QED BY <1>1, <1>2, <1>3, <1>4, <1>5, <1>6, <1>7, <1>8, <1>9, <1>10, <1>11 DEF Next

\* The log, its archive and the run at work stay in their types, and the position
\* of the open file within the file.
THEOREM PlotsTypeCorrect == Spec => []TypeOK
<1> QED BY TypeInit, TypeNext, PTL DEF Spec

(***************************************************************************)
(* Rows survive                                                            *)
(***************************************************************************)

\* Between the writes of a row, whatever is before the position is not written
\* any more, nor will the next row reach further back than two bytes before the end.
SafeEnd ==
    IF pc \in {"row", "tail"} /\ pos < Len(log) - 2 THEN pos ELSE Len(log) - 2

\* RowsSurvive says nothing of where in the log a row is, but the next write
\* overwrites its end: the rows kept are in the part that no write reaches, and
\* before the log is removed its archive is the log.
SurviveInv ==
    /\ \/ \A r \in kept : IntactBy(log, SafeEnd, r)
       \/ pc = "off" /\ log = <<>> /\ \A r \in kept : IntactBy(archive, Len(archive), r)
    /\ pc = "tail" /\ failed = FALSE => IntactBy(log, pos, row)
    /\ pc = "packed" => archive = log
    /\ pc = "fresh" => kept = {}

LEMMA SafeEndInt == TypeOK => SafeEnd \in Int /\ SafeEnd <= Len(log) - 2
BY DEF TypeOK, SafeEnd

\* An empty or tiny file holds no row.
LEMMA SurviveInit == Init => SurviveInv
BY DEF Init, SurviveInv

LEMMA Survives == TypeOK /\ SurviveInv => RowsSurvive
<1> SUFFICES ASSUME TypeOK, SurviveInv, NEW r \in kept
             PROVE  r \in Intact(log) \cup Intact(archive)
  BY DEF RowsSurvive
<1>1. r \in Rows
  BY DEF TypeOK
<1>2. CASE IntactBy(log, SafeEnd, r)
  <2>1. IntactBy(log, Len(log), r)
    BY <1>2, IntactStays, SafeEndInt DEF TypeOK
  <2> QED BY <1>1, <2>1 DEF Intact
<1>3. CASE IntactBy(archive, Len(archive), r)
  BY <1>1, <1>3 DEF Intact
<1> QED BY <1>2, <1>3 DEF SurviveInv

\* A write at or after the safe end keeps the rows where they are.
LEMMA WriteKeeps ==
    ASSUME TypeOK, NEW p \in 0 .. Len(log), NEW data \in Seq(Byte), NEW next,
           Write(p, data, next),
           SafeEnd <= p,
           NEW r, IntactBy(log, SafeEnd, r)
    PROVE  IntactBy(log', SafeEnd', r)
<1>1. /\ log' \in Seq(Byte) /\ pos' \in p .. Len(log') /\ Len(log) <= Len(log')
      /\ \A i \in 1 .. p : log'[i] = log[i]
  BY WriteTypes
<1>2. SafeEnd' \in Int /\ SafeEnd <= SafeEnd' /\ SafeEnd \in Int
  BY <1>1, SafeEndInt DEF SafeEnd, TypeOK
<1>3. \A i \in 1 .. SafeEnd : log'[i] = log[i]
  BY <1>1, SafeEndInt
<1> QED BY <1>2, <1>3, IntactStays

\* When the file and the kept rows stay as they are, leaving a write in the
\* middle only moves the safe end on.
LEMMA StandsStill ==
    ASSUME TypeOK, log' = log, pc' \notin {"row", "tail"},
           NEW r, IntactBy(log, SafeEnd, r)
    PROVE  IntactBy(log', SafeEnd', r)
<1>1. SafeEnd \in Int /\ SafeEnd' \in Int /\ SafeEnd <= SafeEnd'
  BY DEF SafeEnd, TypeOK
<1> QED BY <1>1, IntactStays

LEMMA SurviveNext == TypeOK /\ SurviveInv /\ [Next]_vars => SurviveInv'
<1> SUFFICES ASSUME TypeOK, SurviveInv, [Next]_vars PROVE SurviveInv'
  OBVIOUS
<1> DEFINE Held == \A r \in kept : IntactBy(log, SafeEnd, r)
<1>0. pc # "off" => Held
  BY DEF SurviveInv
<1>1. CASE Open
  <2>1. CASE log = <<>>
    <3>1. kept' = {} /\ pc' = "fresh"
      BY <1>1, <2>1 DEF Open
    <3> QED BY <3>1 DEF SurviveInv
  <2>2. CASE log # <<>>
    <3>1. Held /\ kept' = kept /\ log' = log /\ pc' = "idle"
      BY <1>1, <2>2 DEF Open, SurviveInv, fileVars
    <3>2. \A r \in kept' : IntactBy(log', SafeEnd', r)
      BY <3>1, StandsStill
    <3> QED BY <3>1, <3>2 DEF SurviveInv
  <2> QED BY <2>1, <2>2
<1>2. CASE OpenFresh
  <2>1. kept' = {} /\ pc' = "idle"
    BY <1>2 DEF OpenFresh, SurviveInv
  <2> QED BY <2>1 DEF SurviveInv
<1>3. ASSUME NEW r \in Rows, WriteSeparator(r) PROVE SurviveInv'
  <2>1. pc = "idle" /\ pc' = "row" /\ kept' = kept /\ Write(Sought, Separator, "row")
    BY <1>3 DEF WriteSeparator, Write
  <2>2. Sought \in 0 .. Len(log) /\ SafeEnd <= Sought
    BY <2>1, SoughtInFile DEF TypeOK, SafeEnd
  <2>3. \A k \in kept : IntactBy(log', SafeEnd', k)
    BY <1>0, <2>1, <2>2, Pieces, WriteKeeps
  <2> QED BY <2>1, <2>3 DEF SurviveInv
<1>4. CASE WriteRow
  <2>1. pc = "row" /\ pc' = "tail" /\ UNCHANGED <<row, kept>> /\ Write(pos, Text(row), "tail")
    BY <1>4 DEF WriteRow, Write, historyVars
  <2>2. pos \in 0 .. Len(log) /\ SafeEnd <= pos /\ row \in Rows
    BY <2>1 DEF TypeOK, SafeEnd
  <2>3. \A k \in kept : IntactBy(log', SafeEnd', k)
    BY <1>0, <2>1, <2>2, Pieces, WriteKeeps
  <2>4. ASSUME failed' = FALSE PROVE IntactBy(log', pos', row')
    <3> Text(row) \in Seq(Byte) /\ Len(Text(row)) = 3
      BY <2>2, Pieces
    <3>1. pos' = pos + 3 /\ \A i \in 1 .. 3 : log'[pos + i] = Text(row)[i]
      BY <2>1, <2>2, <2>4, WriteWhole, ZenonT(40)
    <3>2. pos + 1 \in 1 .. (pos' - 2) /\ \A k \in 1 .. 3 : log'[(pos + 1) + k - 1] = Text(row)[k]
      BY <3>1, <2>2
    <3> QED BY <3>2, <2>1 DEF IntactBy
  <2> QED BY <2>1, <2>3, <2>4 DEF SurviveInv
<1>5. CASE WriteTail
  <2>1. pc = "tail" /\ pc' = "idle" /\ Write(pos, Closing, "idle")
    BY <1>5 DEF WriteTail, Write
  <2>2. pos \in 0 .. Len(log) /\ SafeEnd <= pos
    BY <2>1 DEF TypeOK, SafeEnd
  <2>3. \A k \in kept : IntactBy(log', SafeEnd', k)
    BY <1>0, <2>1, <2>2, Pieces, WriteKeeps
  <2>4. CASE failed'
    <3>1. kept' = kept
      BY <1>5, <2>4 DEF WriteTail
    <3> QED BY <3>1, <2>1, <2>3 DEF SurviveInv
  <2>5. CASE failed' = FALSE
    <3>1. kept' = kept \cup {row}
      BY <1>5, <2>5 DEF WriteTail
    <3>2. failed = FALSE
      BY <2>1, <2>2, <2>5, Pieces, WriteWhole
    <3>3. IntactBy(log, pos, row)
      BY <2>1, <3>2 DEF SurviveInv
    <3>4. /\ log' \in Seq(Byte) /\ Len(log') >= pos + 2
          /\ \A i \in 1 .. pos : log'[i] = log[i]
      <4>1. /\ log' \in Seq(Byte) /\ pos' \in pos .. Len(log')
            /\ \A i \in 1 .. pos : log'[i] = log[i]
        BY <2>1, <2>2, Pieces, WriteTypes
      <4>2. pos' = pos + 2
        BY <2>1, <2>2, <2>5, Pieces, WriteWhole
      <4> QED BY <2>2, <4>1, <4>2
    <3>5. SafeEnd' \in Int /\ pos <= SafeEnd' /\ pos \in Int
      BY <2>1, <2>2, <3>4 DEF SafeEnd
    <3>6. IntactBy(log', SafeEnd', row)
      BY <3>3, <3>4, <3>5, IntactStays
    <3> QED BY <3>1, <3>6, <2>1, <2>3 DEF SurviveInv
  <2>6. failed' \in BOOLEAN
    BY <2>1, <2>2, Pieces, WriteTypes
  <2> QED BY <2>4, <2>5, <2>6
<1>6. CASE Close
  <2>1. pc = "idle" /\ pc' \in {"pack", "off"} /\ log' = log /\ kept' = kept
    BY <1>6 DEF Close, fileVars, historyVars
  <2>2. \A r \in kept' : IntactBy(log', SafeEnd', r)
    BY <1>0, <2>1, StandsStill
  <2> QED BY <2>1, <2>2 DEF SurviveInv
<1>7. CASE PackCreate
  <2>1. pc = "pack" /\ pc' \in {"packing", "off"} /\ log' = log /\ kept' = kept
    BY <1>7 DEF PackCreate, historyVars
  <2>2. \A r \in kept' : IntactBy(log', SafeEnd', r)
    BY <1>0, <2>1, StandsStill
  <2> QED BY <2>1, <2>2 DEF SurviveInv
<1>8. CASE PackWrite
  <2>1. /\ pc = "packing" /\ pc' \in {"packed", "off"} /\ log' = log /\ kept' = kept
        /\ pc' = "packed" => archive' = log
    BY <1>8 DEF PackWrite, historyVars
  <2>2. \A r \in kept' : IntactBy(log', SafeEnd', r)
    BY <1>0, <2>1, StandsStill
  <2> QED BY <2>1, <2>2 DEF SurviveInv
<1>9. CASE PackRemove
  <2>1. pc = "packed" /\ pc' = "off" /\ archive' = archive /\ archive = log /\ kept' = kept
    BY <1>9 DEF PackRemove, historyVars, SurviveInv
  <2>2. CASE log' = log
    <3>1. \A r \in kept' : IntactBy(log', SafeEnd', r)
      BY <1>0, <2>1, <2>2, StandsStill
    <3> QED BY <2>1, <3>1 DEF SurviveInv
  <2>3. CASE log' = <<>>
    <3>1. \A r \in kept : IntactBy(archive, Len(archive), r)
      BY <1>0, <2>1, IntactStays, SafeEndInt DEF TypeOK
    <3> QED BY <2>1, <2>3, <3>1 DEF SurviveInv
  <2> QED BY <1>9, <2>2, <2>3 DEF PackRemove
<1>10. CASE Crash
  <2>1. pc # "off" /\ pc' = "off" /\ log' = log /\ kept' = kept
    BY <1>10 DEF Crash, fileVars, historyVars
  <2>2. \A r \in kept' : IntactBy(log', SafeEnd', r)
    BY <1>0, <2>1, StandsStill
  <2> QED BY <2>1, <2>2 DEF SurviveInv
<1>11. CASE UNCHANGED vars
  BY <1>11 DEF vars, fileVars, runVars, historyVars, SurviveInv, SafeEnd
<1> QED BY <1>1, <1>2, <1>3, <1>4, <1>5, <1>6, <1>7, <1>8, <1>9, <1>10, <1>11 DEF Next

\* However often the run is killed and whichever writes are short, the rows that
\* were written without an error since the log was begun are whole, in the log or
\* in its archive.
THEOREM RowsKept == Spec => []RowsSurvive
<1> QED BY TypeInit, TypeNext, SurviveInit, SurviveNext, Survives, PTL DEF Spec

(***************************************************************************)
(* The array                                                               *)
(***************************************************************************)

LEMMA CellIs ==
    ASSUME NEW rs, NEW n
    PROVE  /\ Cell(rs, n, 0) = IF n = 1 THEN "[" ELSE ","
           /\ Cell(rs, n, 1) = LF
           /\ \A k \in 1 .. 3 : Cell(rs, n, k + 1) = Text(rs[n])[k]
<1>1. Cell(rs, n, 0) = IF n = 1 THEN "[" ELSE ","
  BY DEF Cell
<1>2. Cell(rs, n, 1) = LF
  BY DEF Cell
<1>3. ASSUME NEW k \in 1 .. 3 PROVE Cell(rs, n, k + 1) = Text(rs[n])[k]
  <2>1. k + 1 # 0 /\ k + 1 # 1 /\ (k + 1) - 1 = k
    OBVIOUS
  <2>2. Cell(rs, n, k + 1) = Text(rs[n])[(k + 1) - 1]
    BY <2>1, Zenon DEF Cell
  <2> QED BY <2>1, <2>2, Zenon
<1> QED BY <1>1, <1>2, <1>3

LEMMA CellType ==
    ASSUME NEW rs \in Seq(Rows), NEW n \in 1 .. Len(rs), NEW k \in 0 .. 4
    PROVE  Cell(rs, n, k) \in Byte
<1>1. "[" \in Byte /\ "," \in Byte /\ LF \in Byte
  BY Zenon DEF Byte, Marks
<1>2. rs[n] \in Rows
  OBVIOUS
<1>3. CASE k = 0
  BY <1>1, <1>3 DEF Cell
<1>4. CASE k = 1
  BY <1>1, <1>4 DEF Cell
<1>5. CASE k \in 2 .. 4
  <2>1. PICK j \in 1 .. 3 : k = j + 1
    <3>1. k - 1 \in 1 .. 3 /\ k = (k - 1) + 1
      BY <1>5
    <3> QED BY <3>1
  <2>2. Cell(rs, n, k) = Text(rs[n])[j]
    BY <2>1, CellIs
  <2>3. Text(rs[n]) \in Seq(Byte) /\ Len(Text(rs[n])) = 3
    BY <1>2, Pieces
  <2> QED BY <2>2, <2>3
<1> QED BY <1>3, <1>4, <1>5

\* Every position belongs to a row, and is one of its five.
LEMMA Fifth ==
    ASSUME NEW m \in Nat, NEW i \in 1 .. (5 * m)
    PROVE  \E n \in 1 .. m : \E k \in 0 .. 4 :
              i = 5 * n - 4 + k /\ ((i - 1) \div 5) + 1 = n /\ (i - 1) % 5 = k
<1>1. /\ ((i - 1) \div 5) + 1 \in 1 .. m
      /\ (i - 1) % 5 \in 0 .. 4
      /\ i = 5 * (((i - 1) \div 5) + 1) - 4 + ((i - 1) % 5)
  OBVIOUS
<1> QED BY <1>1

LEMMA FifthOf ==
    ASSUME NEW m \in Nat, NEW n \in 1 .. m, NEW k \in 0 .. 4
    PROVE  /\ 5 * n - 4 + k \in 1 .. (5 * m)
           /\ (((5 * n - 4 + k) - 1) \div 5) + 1 = n
           /\ ((5 * n - 4 + k) - 1) % 5 = k
OBVIOUS

\* The five bytes of each row of an opened array.
LEMMA OpenedAt ==
    ASSUME NEW rs \in Seq(Rows)
    PROVE  /\ Opened(rs) \in Seq(Byte) /\ Len(Opened(rs)) = 5 * Len(rs)
           /\ \A n \in 1 .. Len(rs) : \A k \in 0 .. 4 :
                 Opened(rs)[5 * n - 4 + k] = Cell(rs, n, k)
<1>1. \A i \in 1 .. (5 * Len(rs)) :
         Opened(rs)[i] = Cell(rs, ((i - 1) \div 5) + 1, (i - 1) % 5)
  BY DEF Opened
<1>2. \A i \in 1 .. (5 * Len(rs)) : Opened(rs)[i] \in Byte
  BY <1>1, Fifth, CellType
<1>3. Opened(rs) \in Seq(Byte) /\ Len(Opened(rs)) = 5 * Len(rs)
  <2>1. 5 * Len(rs) \in Nat
    OBVIOUS
  <2>2. Opened(rs) = [i \in 1 .. (5 * Len(rs)) |-> Opened(rs)[i]]
    BY Zenon DEF Opened
  <2> QED BY <1>2, <2>1, <2>2
<1>4. \A n \in 1 .. Len(rs) : \A k \in 0 .. 4 :
         Opened(rs)[5 * n - 4 + k] = Cell(rs, n, k)
  <2> TAKE n \in 1 .. Len(rs)
  <2> TAKE k \in 0 .. 4
  <2> DEFINE i == 5 * n - 4 + k
  <2>1. i \in 1 .. (5 * Len(rs)) /\ ((i - 1) \div 5) + 1 = n /\ (i - 1) % 5 = k
    BY FifthOf
  <2>2. Opened(rs)[i] = Cell(rs, ((i - 1) \div 5) + 1, (i - 1) % 5)
    BY <1>1, <2>1
  <2> HIDE DEF i
  <2>3. Opened(rs)[i] = Cell(rs, n, k)
    BY <2>1, <2>2, Zenon
  <2> QED BY <2>3 DEF i
<1> QED BY <1>3, <1>4

\* A file that has these bytes is the array.
LEMMA OpenedOnly ==
    ASSUME NEW rs \in Seq(Rows), NEW file \in Seq(Byte), Len(file) = 5 * Len(rs),
           \A i \in 1 .. Len(file) : file[i] = Opened(rs)[i]
    PROVE  file = Opened(rs)
<1>1. Opened(rs) \in Seq(Byte) /\ Len(Opened(rs)) = Len(file)
  BY OpenedAt
<1> QED BY <1>1

\* One more row leaves the bytes of the others as they are.
LEMMA OpenedAppend ==
    ASSUME NEW rs \in Seq(Rows), NEW r \in Rows
    PROVE  /\ Append(rs, r) \in Seq(Rows) /\ Len(Append(rs, r)) = Len(rs) + 1
           /\ \A i \in 1 .. (5 * Len(rs)) : Opened(Append(rs, r))[i] = Opened(rs)[i]
           /\ Opened(Append(rs, r))[5 * Len(rs) + 1] = IF rs = <<>> THEN "[" ELSE ","
           /\ Opened(Append(rs, r))[5 * Len(rs) + 2] = LF
           /\ \A k \in 1 .. 3 : Opened(Append(rs, r))[5 * Len(rs) + 2 + k] = Text(r)[k]
<1> DEFINE rs2 == Append(rs, r)
           n2 == Len(rs) + 1
<1>1. rs2 \in Seq(Rows) /\ Len(rs2) = n2 /\ n2 \in 1 .. Len(rs2) /\ rs2[n2] = r /\ n2 \in Nat
  OBVIOUS
<1>2. \A n \in 1 .. Len(rs) : rs2[n] = rs[n] /\ n \in 1 .. Len(rs2)
  OBVIOUS
<1>3. (n2 = 1) <=> (rs = <<>>)
  OBVIOUS
<1>4. /\ 5 * n2 - 4 + 0 = 5 * Len(rs) + 1
      /\ 5 * n2 - 4 + 1 = 5 * Len(rs) + 2
      /\ \A k \in 1 .. 3 : 5 * n2 - 4 + (k + 1) = 5 * Len(rs) + 2 + k /\ k + 1 \in 0 .. 4
  OBVIOUS
<1> HIDE DEF rs2, n2
<1>5. /\ Opened(rs2)[5 * n2 - 4 + 0] = Cell(rs2, n2, 0)
      /\ Opened(rs2)[5 * n2 - 4 + 1] = Cell(rs2, n2, 1)
      /\ \A k \in 1 .. 3 : Opened(rs2)[5 * n2 - 4 + (k + 1)] = Cell(rs2, n2, k + 1)
  BY <1>1, <1>4, OpenedAt
<1>6. /\ Cell(rs2, n2, 0) = IF rs = <<>> THEN "[" ELSE ","
      /\ Cell(rs2, n2, 1) = LF
      /\ \A k \in 1 .. 3 : Cell(rs2, n2, k + 1) = Text(r)[k]
  <2>1. Cell(rs2, n2, 0) = IF n2 = 1 THEN "[" ELSE ","
    BY CellIs
  <2>2. Cell(rs2, n2, 1) = LF /\ \A k \in 1 .. 3 : Cell(rs2, n2, k + 1) = Text(rs2[n2])[k]
    BY CellIs, ZenonT(40)
  <2> QED BY <2>1, <2>2, <1>1, <1>3, Zenon
<1>7. /\ Opened(rs2)[5 * Len(rs) + 1] = IF rs = <<>> THEN "[" ELSE ","
      /\ Opened(rs2)[5 * Len(rs) + 2] = LF
  BY <1>4, <1>5, <1>6
<1>8. \A k \in 1 .. 3 : Opened(rs2)[5 * Len(rs) + 2 + k] = Text(r)[k]
  BY <1>4, <1>5, <1>6
<1>9. ASSUME NEW i \in 1 .. (5 * Len(rs)) PROVE Opened(rs2)[i] = Opened(rs)[i]
  <2>0. Len(rs) \in Nat
    OBVIOUS
  <2>1. PICK n \in 1 .. Len(rs), k \in 0 .. 4 : i = 5 * n - 4 + k
    BY <2>0, Fifth
  <2>2. Opened(rs)[i] = Cell(rs, n, k)
    BY <2>1, OpenedAt
  <2>3. Opened(rs2)[i] = Cell(rs2, n, k)
    BY <1>1, <1>2, <2>1, OpenedAt
  <2>4. Cell(rs2, n, k) = Cell(rs, n, k)
    BY <1>2 DEF Cell
  <2> QED BY <2>2, <2>3, <2>4
<1> QED BY <1>1, <1>7, <1>8, <1>9 DEF rs2, n2

LEMMA EmptyHasNoRows == Cut(<<>>) = <<>> /\ RowsIn(<<>>) = <<>>
<1>1. Cut(<<>>) = <<>>
  BY DEF Cut
<1>2. RowsIn(<<>>) \in Seq(Rows)
  BY EmptyFile, RowsInType
<1>3. Len(RowsIn(<<>>)) = 0
  <2> DEFINE rs == [n \in 1 .. (Len(<<>>) \div 5) |-> <<>>[5 * n - 2]]
  <2>1. RowsIn(<<>>) = rs \/ RowsIn(<<>>) = <<>>
    BY Zenon DEF RowsIn
  <2>2. Len(rs) = 0
    OBVIOUS
  <2> HIDE DEF rs
  <2>3. Len(<<>>) = 0
    OBVIOUS
  <2> QED BY <2>1, <2>2, <2>3, Zenon
<1> QED BY <1>1, <1>2, <1>3

LEMMA Joined ==
    ASSUME NEW S, NEW a \in Seq(S), NEW b \in Seq(S), Len(b) = 2
    PROVE  /\ a \o b \in Seq(S) /\ Len(a \o b) = Len(a) + 2
           /\ \A i \in 1 .. Len(a) : (a \o b)[i] = a[i]
           /\ (a \o b)[Len(a) + 1] = b[1] /\ (a \o b)[Len(a) + 2] = b[2]
<1> DEFINE c == a \o b
<1>1. /\ c \in Seq(S) /\ Len(c) = Len(a) + Len(b)
      /\ \A i \in 1 .. (Len(a) + Len(b)) : c[i] = IF i <= Len(a) THEN a[i] ELSE b[i - Len(a)]
  BY ConcatProperties
<1> HIDE DEF c
<1>2. \A i \in 1 .. Len(a) : c[i] = a[i]
  BY <1>1
<1>3. \A k \in 1 .. 2 : Len(a) + k \in 1 .. (Len(a) + Len(b)) /\ ~(Len(a) + k <= Len(a)) /\ (Len(a) + k) - Len(a) = k
  OBVIOUS
<1>4. \A k \in 1 .. 2 : c[Len(a) + k] = b[k]
  BY <1>1, <1>3
<1> QED BY <1>1, <1>2, <1>4 DEF c

\* Rows that are framed, and a file whose cut is an opened array.
LEMMA FramedCut ==
    ASSUME NEW rs \in Seq(Rows), rs # <<>>
    PROVE  /\ Framed(rs) \in Seq(Byte) /\ Len(Framed(rs)) = 5 * Len(rs) + 2
           /\ Cut(Framed(rs)) = Opened(rs)
           /\ \A i \in 1 .. (5 * Len(rs)) : Framed(rs)[i] = Opened(rs)[i]
           /\ Framed(rs)[5 * Len(rs) + 1] = Closing[1]
           /\ Framed(rs)[5 * Len(rs) + 2] = Closing[2]
<1>1. Framed(rs) = Opened(rs) \o Closing
  BY DEF Framed
<1>2. /\ Opened(rs) \in Seq(Byte) /\ Len(Opened(rs)) = 5 * Len(rs)
      /\ Closing \in Seq(Byte) /\ Len(Closing) = 2
  BY OpenedAt, Pieces
<1>3. /\ Framed(rs) \in Seq(Byte) /\ Len(Framed(rs)) = 5 * Len(rs) + 2
      /\ \A i \in 1 .. (5 * Len(rs)) : Framed(rs)[i] = Opened(rs)[i]
      /\ Framed(rs)[5 * Len(rs) + 1] = Closing[1]
      /\ Framed(rs)[5 * Len(rs) + 2] = Closing[2]
  <2>1. /\ Framed(rs) \in Seq(Byte) /\ Len(Framed(rs)) = Len(Opened(rs)) + 2
        /\ \A i \in 1 .. Len(Opened(rs)) : Framed(rs)[i] = Opened(rs)[i]
        /\ Framed(rs)[Len(Opened(rs)) + 1] = Closing[1]
        /\ Framed(rs)[Len(Opened(rs)) + 2] = Closing[2]
    <3> DEFINE o == Opened(rs)
    <3>1. Framed(rs) = o \o Closing /\ o \in Seq(Byte)
      BY <1>1, <1>2
    <3> HIDE DEF o
    <3>2. /\ o \o Closing \in Seq(Byte) /\ Len(o \o Closing) = Len(o) + 2
          /\ \A i \in 1 .. Len(o) : (o \o Closing)[i] = o[i]
          /\ (o \o Closing)[Len(o) + 1] = Closing[1]
          /\ (o \o Closing)[Len(o) + 2] = Closing[2]
      BY <1>2, <3>1, Joined
    <3> QED BY <3>1, <3>2, Zenon DEF o
  <2> QED BY <1>2, <2>1
<1>4. /\ Cut(Framed(rs)) \in Seq(Byte) /\ Len(Cut(Framed(rs))) = 5 * Len(rs)
      /\ \A i \in 1 .. (5 * Len(rs)) : Cut(Framed(rs))[i] = Framed(rs)[i]
  <2> DEFINE f == Framed(rs)
  <2>1. f \in Seq(Byte) /\ Len(f) = 5 * Len(rs) + 2 /\ 5 * Len(rs) \in Nat
    BY <1>3
  <2> HIDE DEF f
  <2>2. /\ Cut(f) \in Seq(Byte) /\ Len(Cut(f)) = 5 * Len(rs)
        /\ \A i \in 1 .. (5 * Len(rs)) : Cut(f)[i] = f[i]
    BY <2>1 DEF Cut
  <2> QED BY <2>2 DEF f
<1>5. Cut(Framed(rs)) = Opened(rs)
  BY <1>3, <1>4, OpenedOnly
<1> QED BY <1>3, <1>5

\* What the next row will be written after: an array with rows, open at its end, or
\* the empty array of a new file.
Continues ==
    \/ rows # <<>> /\ hasRows = TRUE /\ Cut(log) = Opened(rows)
    \/ rows = <<>> /\ hasRows = FALSE /\ log = Framed(<<>>)

\* After the separator and after the row, if they were written without an error,
\* the log begins like the array with one more row; behind the separator there is
\* at most one more byte, which the row overwrites.
Begun ==
    /\ pos = 5 * Len(rows) + 2
    /\ Len(log) >= pos /\ Len(log) <= pos + 1
    /\ \A i \in 1 .. pos : log[i] = Opened(Append(rows, row))[i]

\* PlotsReadable speaks of the moments at which a whole row is written.  This says
\* what the log is at the other ones, and that it is the log, not the archive, that
\* is readable as long as the run is at work.
ArrayInv ==
    /\ pc = "fresh" => log = <<>> /\ pos = 0 /\ rows = <<>> /\ hasRows = FALSE /\ sound = FALSE
    /\ pc = "idle" /\ sound = TRUE => Continues
    /\ pc \in {"row", "tail"} => hasRows = TRUE /\ settled = FALSE
    /\ pc = "row" /\ sound = TRUE /\ failed = FALSE => Begun
    /\ pc = "tail" /\ sound = TRUE /\ failed = FALSE => log = Opened(Append(rows, row)) /\ pos = Len(log)
    /\ sound = TRUE /\ settled = TRUE => log = Framed(rows) \/ (pc = "off" /\ archive = Framed(rows))

LEMMA ArrayInit == Init => ArrayInv
BY DEF Init, ArrayInv

LEMMA Readable == ArrayInv => PlotsReadable
BY DEF ArrayInv, PlotsReadable

\* The separator continues a sound array.
LEMMA SeparatorContinues ==
    ASSUME TypeOK, NEW r \in Rows, WriteSeparator(r), Continues, failed' = FALSE
    PROVE  Begun'
<1>1. pc = "idle" /\ row' = r /\ rows' = rows /\ Write(Sought, Separator, "row")
  BY DEF WriteSeparator
<1>2. Sought \in 0 .. Len(log) /\ (Len(log) >= 2 => Sought = Len(log) - 2)
  BY <1>1, SoughtInFile
<1>3. /\ \A i \in 1 .. Sought : log'[i] = log[i]
      /\ pos' = Sought + Len(Separator)
      /\ \A i \in 1 .. Len(Separator) : log'[Sought + i] = Separator[i]
      /\ Len(log') = IF pos' > Len(log) THEN pos' ELSE Len(log)
  <2>1. Separator \in Seq(Byte)
    BY Pieces
  <2>2. \A i \in 1 .. Sought : log'[i] = log[i]
    BY <1>1, <1>2, <2>1, WriteTypes
  <2> QED BY <1>1, <1>2, <2>1, <2>2, WriteWhole
<1>4. rows \in Seq(Rows) /\ log \in Seq(Byte)
  BY DEF TypeOK
<1>5. CASE rows # <<>> /\ hasRows = TRUE /\ Cut(log) = Opened(rows)
  <2>1. Len(log) = 5 * Len(rows) + 2 /\ Len(rows) \in Nat
    <3>1. Len(Cut(log)) = 5 * Len(rows) /\ Len(rows) >= 1
      BY <1>4, <1>5, OpenedAt
    <3> QED BY <3>1, <1>4, CutType
  <2>2. Sought = 5 * Len(rows)
    BY <1>2, <2>1
  <2>3. Separator = <<",", LF>>
    BY <1>5, Zenon DEF Separator
  <2>4. Separator[1] = "," /\ Separator[2] = LF
    BY <2>3
  <2>5a. Len(Separator) = 2
    BY <2>3
  <2>5. /\ pos' = 5 * Len(rows) + 2 /\ Len(log') = pos'
        /\ log'[5 * Len(rows) + 1] = "," /\ log'[5 * Len(rows) + 2] = LF
    <3>1. pos' = 5 * Len(rows) + 2 /\ Len(log') = pos'
      BY <1>3, <2>1, <2>2, <2>5a
    <3>2. 1 \in 1 .. Len(Separator) /\ 2 \in 1 .. Len(Separator)
      BY <2>5a
    <3>3. log'[Sought + 1] = Separator[1] /\ log'[Sought + 2] = Separator[2]
      BY <1>3, <3>2
    <3> QED BY <3>1, <3>3, <2>2, <2>4, Zenon
  <2>6. \A i \in 1 .. (5 * Len(rows)) : log'[i] = Opened(rows)[i]
    <3>1. \A i \in 1 .. (5 * Len(rows)) : log'[i] = log[i]
      BY <1>3, <2>2
    <3>2. \A i \in 1 .. (Len(log) - 2) : Cut(log)[i] = log[i]
      BY <1>4, CutType
    <3>3. Len(log) - 2 = 5 * Len(rows)
      BY <2>1
    <3> QED BY <1>5, <3>1, <3>2, <3>3
  <2>7. \A i \in 1 .. (5 * Len(rows) + 2) : log'[i] = Opened(Append(rows, r))[i]
    <3> TAKE i \in 1 .. (5 * Len(rows) + 2)
    <3>1. CASE i \in 1 .. (5 * Len(rows))
      BY <1>4, <2>6, <3>1, OpenedAppend
    <3>2. CASE i = 5 * Len(rows) + 1
      BY <1>4, <1>5, <2>5, <3>2, OpenedAppend
    <3>3. CASE i = 5 * Len(rows) + 2
      BY <1>4, <2>5, <3>3, OpenedAppend
    <3> QED BY <2>1, <3>1, <3>2, <3>3
  <2>8. \A i \in 1 .. pos' : log'[i] = Opened(Append(rows', row'))[i]
    BY <1>1, <2>5, <2>7, Zenon
  <2>9. pos' = 5 * Len(rows') + 2 /\ Len(log') >= pos' /\ Len(log') <= pos' + 1
    <3>1. pos' = 5 * Len(rows') + 2 /\ Len(log') = pos'
      BY <1>1, <2>5, Zenon
    <3>2. rows' = rows
      BY <1>1
    <3> QED BY <2>1, <3>1, <3>2
  <2> QED BY <2>8, <2>9 DEF Begun
<1>6. CASE rows = <<>> /\ hasRows = FALSE /\ log = Framed(<<>>)
  <2>1. Len(rows) = 0 /\ Len(log) = 3 /\ log[1] = "["
    BY <1>6, Pieces
  <2>2. Sought = 1
    BY <1>2, <2>1
  <2>3. Separator = <<LF>>
    BY <1>6, Zenon DEF Separator
  <2>4. Len(Separator) = 1 /\ Separator[1] = LF
    BY <2>3
  <2>5. pos' = 2 /\ Len(log') = 3 /\ log'[1] = "[" /\ log'[2] = LF
    BY <1>3, <2>1, <2>2, <2>4
  <2>6. Opened(Append(rows, r))[1] = "[" /\ Opened(Append(rows, r))[2] = LF
    <3>1. 5 * Len(rows) + 1 = 1 /\ 5 * Len(rows) + 2 = 2
      BY <2>1
    <3>2. /\ Opened(Append(rows, r))[5 * Len(rows) + 1] = "["
          /\ Opened(Append(rows, r))[5 * Len(rows) + 2] = LF
      BY <1>4, <1>6, OpenedAppend
    <3> QED BY <3>1, <3>2, Zenon
  <2>7. \A i \in 1 .. pos' : log'[i] = Opened(Append(rows, r))[i]
    BY <2>5, <2>6
  <2>8. \A i \in 1 .. pos' : log'[i] = Opened(Append(rows', row'))[i]
    BY <1>1, <2>7, Zenon
  <2>9. pos' = 5 * Len(rows') + 2 /\ Len(log') >= pos' /\ Len(log') <= pos' + 1
    BY <1>1, <2>1, <2>5
  <2> QED BY <2>8, <2>9 DEF Begun
<1> QED BY <1>5, <1>6 DEF Continues

\* The row overwrites what is left behind the separator.
LEMMA RowContinues ==
    ASSUME TypeOK, WriteRow, Begun, failed' = FALSE
    PROVE  log' = Opened(Append(rows, row)) /\ pos' = Len(log')
<1>1. /\ pc = "row" /\ Write(pos, Text(row), "tail")
      /\ pos \in 0 .. Len(log) /\ row \in Rows /\ rows \in Seq(Rows) /\ Len(rows) \in Nat
  BY DEF WriteRow, TypeOK
<1>2. Text(row) \in Seq(Byte) /\ Len(Text(row)) = 3
  BY <1>1, Pieces
<1>3. log' \in Seq(Byte) /\ \A i \in 1 .. pos : log'[i] = log[i]
  BY <1>1, <1>2, WriteTypes
<1>4. /\ pos' = pos + 3
      /\ \A k \in 1 .. 3 : log'[pos + k] = Text(row)[k]
      /\ Len(log') = IF pos' > Len(log) THEN pos' ELSE Len(log)
  BY <1>1, <1>2, WriteWhole, ZenonT(40)
<1>5. /\ pos = 5 * Len(rows) + 2 /\ Len(log) <= pos + 1
      /\ \A i \in 1 .. pos : log[i] = Opened(Append(rows, row))[i]
  BY DEF Begun
<1>6. Len(log') = 5 * (Len(rows) + 1) /\ pos' = Len(log')
  BY <1>1, <1>4, <1>5
<1>7. \A i \in 1 .. Len(log') : log'[i] = Opened(Append(rows, row))[i]
  <2> TAKE i \in 1 .. Len(log')
  <2>1. CASE i \in 1 .. pos
    BY <1>3, <1>5, <2>1
  <2>2. CASE i \in (pos + 1) .. (pos + 3)
    <3>1. PICK k \in 1 .. 3 : i = 5 * Len(rows) + 2 + k
      <4>1. i - pos \in 1 .. 3 /\ i = 5 * Len(rows) + 2 + (i - pos)
        BY <1>1, <1>5, <2>2
      <4> QED BY <4>1
    <3>2. log'[i] = Text(row)[k]
      BY <1>4, <1>5, <3>1
    <3>3. Opened(Append(rows, row))[i] = Text(row)[k]
      BY <1>1, <3>1, OpenedAppend
    <3> QED BY <3>2, <3>3
  <2> QED BY <1>1, <1>5, <1>6, <2>1, <2>2
<1>8. Append(rows, row) \in Seq(Rows) /\ Len(Append(rows, row)) = Len(rows) + 1
  BY <1>1, OpenedAppend
<1> QED BY <1>3, <1>6, <1>7, <1>8, OpenedOnly

\* The closing bracket completes the array.
LEMMA TailCompletes ==
    ASSUME TypeOK, WriteTail, failed' = FALSE,
           log = Opened(Append(rows, row)), pos = Len(log)
    PROVE  /\ rows' = Append(rows, row) /\ rows' # <<>>
           /\ log' = Framed(rows') /\ Cut(log') = Opened(rows')
<1> DEFINE rs == Append(rows, row)
<1>1. /\ pc = "tail" /\ Write(pos, Closing, "idle") /\ rows' = rs
      /\ pos \in 0 .. Len(log) /\ row \in Rows /\ rows \in Seq(Rows) /\ Len(rows) \in Nat
  BY DEF WriteTail, TypeOK
<1>2. rs \in Seq(Rows) /\ rs # <<>> /\ Len(rs) \in Nat
  <2>1. rows \in Seq(Rows) /\ row \in Rows
    BY <1>1
  <2>2. rs \in Seq(Rows) /\ Len(rs) = Len(rows) + 1
    BY ONLY <2>1, OpenedAppend
  <2> HIDE DEF rs
  <2>3. Len(rs) # 0
    BY ONLY <1>1, <2>2
  <2> QED BY <2>2, <2>3
<1>a. log = Opened(rs)
  OBVIOUS
<1>3. pos = 5 * Len(rs) /\ Len(log) = 5 * Len(rs) /\ log = Opened(rs) /\ Len(rs) \in Nat
  <2> HIDE DEF rs
  <2>1. Len(Opened(rs)) = 5 * Len(rs)
    BY <1>2, OpenedAt
  <2> QED BY <1>2, <1>a, <2>1
<1> HIDE DEF rs
<1>4. log' \in Seq(Byte) /\ \A i \in 1 .. pos : log'[i] = log[i]
  BY <1>1, Pieces, WriteTypes
<1>5. /\ pos' = pos + 2
      /\ \A k \in 1 .. 2 : log'[pos + k] = Closing[k]
      /\ Len(log') = IF pos' > Len(log) THEN pos' ELSE Len(log)
  <2>1. Closing \in Seq(Byte) /\ Len(Closing) = 2
    BY Pieces
  <2>2. /\ pos' = pos + Len(Closing)
        /\ \A k \in 1 .. Len(Closing) : log'[pos + k] = Closing[k]
        /\ Len(log') = IF pos' > Len(log) THEN pos' ELSE Len(log)
    BY <1>1, <2>1, WriteWhole
  <2> QED BY <2>1, <2>2
<1>6. Len(log') = 5 * Len(rs) + 2
  BY <1>3, <1>5
<1>7. /\ Framed(rs) \in Seq(Byte) /\ Len(Framed(rs)) = 5 * Len(rs) + 2
      /\ \A i \in 1 .. (5 * Len(rs)) : Framed(rs)[i] = Opened(rs)[i]
      /\ Framed(rs)[5 * Len(rs) + 1] = Closing[1]
      /\ Framed(rs)[5 * Len(rs) + 2] = Closing[2]
      /\ Cut(Framed(rs)) = Opened(rs)
  BY <1>2, FramedCut
<1>8. \A i \in 1 .. (5 * Len(rs) + 2) : log'[i] = Framed(rs)[i]
  <2> TAKE i \in 1 .. (5 * Len(rs) + 2)
  <2>1. CASE i \in 1 .. (5 * Len(rs))
    BY <1>3, <1>4, <1>7, <2>1
  <2>2. CASE i = 5 * Len(rs) + 1
    BY <1>3, <1>5, <1>7, <2>2
  <2>3. CASE i = 5 * Len(rs) + 2
    BY <1>3, <1>5, <1>7, <2>3
  <2> QED BY <1>3, <2>1, <2>2, <2>3
<1>9. log' = Framed(rs)
  BY <1>4, <1>6, <1>7, <1>8
<1> QED BY <1>1, <1>2, <1>7, <1>9 DEF rs

LEMMA ArrayNext == TypeOK /\ TypeOK' /\ SurviveInv /\ ArrayInv /\ [Next]_vars => ArrayInv'
<1> SUFFICES ASSUME TypeOK, TypeOK', SurviveInv, ArrayInv, [Next]_vars PROVE ArrayInv'
  OBVIOUS
<1>0. failed' \in BOOLEAN /\ sound' \in BOOLEAN
  BY DEF TypeOK
<1>1. CASE Open
  <2>1. CASE log = <<>>
    <3>1. /\ pc' = "fresh" /\ log' = <<>> /\ pos' = 0 /\ hasRows' = FALSE
          /\ rows' = RowsIn(Cut(log)) /\ sound' = (rows' # <<>> /\ Cut(log) = Opened(rows'))
      BY <1>1, <2>1 DEF Open, fileVars
    <3>2. rows' = <<>>
      BY <2>1, <3>1, EmptyHasNoRows, Zenon
    <3>3. sound' = FALSE
      BY <1>0, <3>1, <3>2
    <3> QED BY <3>1, <3>2, <3>3 DEF ArrayInv
  <2>2. CASE log # <<>>
    <3>1. /\ pc' = "idle" /\ log' = log /\ hasRows' = TRUE
          /\ sound' = (rows' # <<>> /\ Cut(log) = Opened(rows'))
          /\ settled' = (sound' /\ log = Framed(rows'))
      BY <1>1, <2>2 DEF Open, fileVars
    <3>2. sound' = TRUE => rows' # <<>> /\ Cut(log') = Opened(rows')
      BY <3>1
    <3>3. settled' = TRUE => log' = Framed(rows')
      BY <3>1
    <3>4. sound' = TRUE => Continues'
      BY <3>1, <3>2 DEF Continues
    <3> QED BY <3>1, <3>3, <3>4 DEF ArrayInv
  <2> QED BY <2>1, <2>2
<1>2. CASE OpenFresh
  <2>1. /\ log = <<>> /\ pos = 0 /\ rows' = <<>> /\ hasRows' = FALSE /\ pc' = "idle"
    BY <1>2 DEF OpenFresh, ArrayInv
  <2>2. PICK n \in Short(Framed(<<>>)) :
          /\ log' = Over(log, pos, Framed(<<>>), n)
          /\ sound' = (n = Len(Framed(<<>>)))
    BY <1>2 DEF OpenFresh
  <2>3. ASSUME sound' = TRUE PROVE log' = Framed(<<>>)
    <3>2. Framed(<<>>) \in Seq(Byte) /\ Len(Framed(<<>>)) = 3
      BY Pieces
    <3>3. log \in Seq(Byte) /\ Len(log) = 0
      BY <2>1 DEF TypeOK
    <3>4. log' = Over(log, 0, Framed(<<>>), Len(Framed(<<>>)))
      BY <2>1, <2>2, <2>3, Zenon
    <3>5. Over(log, 0, Framed(<<>>), Len(Framed(<<>>))) = Framed(<<>>)
      BY ONLY <3>2, <3>3, WholeFile
    <3> QED BY <3>4, <3>5, Zenon
  <2>4. sound' = TRUE => Continues' /\ log' = Framed(rows')
    BY <2>1, <2>3 DEF Continues
  <2> QED BY <2>1, <2>4 DEF ArrayInv
<1>3. ASSUME NEW r \in Rows, WriteSeparator(r) PROVE ArrayInv'
  <2>1. pc = "idle" /\ pc' = "row" /\ sound' = sound /\ settled' = FALSE /\ hasRows' = TRUE
    BY <1>3 DEF WriteSeparator, Write
  <2>2. sound' = TRUE /\ failed' = FALSE => Begun'
    BY <1>3, <2>1, SeparatorContinues DEF ArrayInv
  <2> QED BY <2>1, <2>2 DEF ArrayInv
<1>4. CASE WriteRow
  <2>1. /\ pc = "row" /\ pc' = "tail" /\ UNCHANGED <<row, rows, sound, settled, hasRows>>
        /\ Write(pos, Text(row), "tail")
    BY <1>4 DEF WriteRow, Write, historyVars
  <2>2. ASSUME sound' = TRUE, failed' = FALSE
        PROVE  log' = Opened(Append(rows', row')) /\ pos' = Len(log')
    <3>1. failed = FALSE
      <4>1. pos \in 0 .. Len(log) /\ Text(row) \in Seq(Byte)
        BY <2>1, Pieces DEF TypeOK
      <4> QED BY <2>1, <2>2, <4>1, WriteWhole
    <3>2. Begun
      BY <2>1, <2>2, <3>1 DEF ArrayInv
    <3>3. log' = Opened(Append(rows, row)) /\ pos' = Len(log')
      BY <1>4, <2>2, <3>2, RowContinues
    <3> QED BY <2>1, <3>3
  <2> QED BY <2>1, <2>2 DEF ArrayInv
<1>5. CASE WriteTail
  <2>1. pc = "tail" /\ pc' = "idle" /\ hasRows' = TRUE /\ settled = FALSE
    BY <1>5 DEF WriteTail, Write, ArrayInv
  <2>2. CASE failed' = TRUE
    <3>1. sound' = FALSE
      BY <1>5, <2>2 DEF WriteTail
    <3> QED BY <2>1, <3>1 DEF ArrayInv
  <2>3. CASE failed' = FALSE
    <3>1. sound' = sound /\ Write(pos, Closing, "idle")
      BY <1>5, <2>3 DEF WriteTail
    <3>2. failed = FALSE
      <4>1. pos \in 0 .. Len(log)
        BY <2>1 DEF TypeOK
      <4> QED BY <2>1, <2>3, <3>1, <4>1, Pieces, WriteWhole
    <3>3. ASSUME sound' = TRUE PROVE Continues' /\ log' = Framed(rows')
      <4>1. log = Opened(Append(rows, row)) /\ pos = Len(log)
        BY <2>1, <3>1, <3>2, <3>3 DEF ArrayInv
      <4>2. rows' # <<>> /\ log' = Framed(rows') /\ Cut(log') = Opened(rows')
        BY <1>5, <2>3, <4>1, TailCompletes
      <4> QED BY <2>1, <4>2 DEF Continues
    <3> QED BY <2>1, <3>3 DEF ArrayInv
  <2> QED BY <1>0, <2>2, <2>3
<1>6. CASE Close
  BY <1>6 DEF Close, fileVars, historyVars, ArrayInv
<1>7. CASE PackCreate
  BY <1>7 DEF PackCreate, historyVars, ArrayInv
<1>8. CASE PackWrite
  BY <1>8 DEF PackWrite, historyVars, ArrayInv
<1>9. CASE PackRemove
  <2>1. pc = "packed" /\ pc' = "off" /\ archive' = log /\ UNCHANGED <<rows, sound, settled>>
    BY <1>9 DEF PackRemove, historyVars, SurviveInv
  <2> QED BY <2>1 DEF ArrayInv
<1>10. CASE Crash
  BY <1>10 DEF Crash, fileVars, historyVars, ArrayInv
<1>11. CASE UNCHANGED vars
  BY <1>11 DEF vars, fileVars, runVars, historyVars, ArrayInv, Continues, Begun
<1> QED BY <1>1, <1>2, <1>3, <1>4, <1>5, <1>6, <1>7, <1>8, <1>9, <1>10, <1>11 DEF Next

\* From a sound framing on, at every moment that is not between two writes of
\* WriteJSON, the log or its archive is an array of exactly the rows written.
THEOREM ArrayRead == Spec => []PlotsReadable
<1> QED BY TypeInit, TypeNext, SurviveInit, SurviveNext, ArrayInit, ArrayNext, Readable, PTL DEF Spec
=============================================================================

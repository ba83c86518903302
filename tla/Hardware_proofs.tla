-------------------------- MODULE Hardware_proofs --------------------------
(***************************************************************************)
(* Theorems about the hardware charts, for any number of devices, of       *)
(* callers and of pages, and any order of their steps.                     *)
(***************************************************************************)
EXTENDS Hardware, Selections_proofs

(***************************************************************************)
(* Orders of a set                                                         *)
(***************************************************************************)
LEMMA OrderOnto ==
    ASSUME NEW S, IsFiniteSet(S), NEW q \in Orders(S)
    PROVE  /\ q \in Seq(S) /\ Len(q) = Cardinality(S) /\ DOMAIN q = 1 .. Cardinality(S)
           /\ \A i, j \in DOMAIN q : q[i] = q[j] => i = j
           /\ \A x \in S : \E i \in DOMAIN q : q[i] = x
           /\ Range(q) = S
<1> DEFINE n == Cardinality(S)
<1>1. n \in Nat /\ IsFiniteSet(1 .. n) /\ Cardinality(1 .. n) = n
  BY FS_CardinalityType, FS_Interval
<1>2. q \in [1 .. n -> S] /\ DOMAIN q = 1 .. n /\ \A i, j \in 1 .. n : q[i] = q[j] => i = j
  BY DEF Orders
<1>3. q \in Injection(1 .. n, S)
  BY <1>2 DEF Injection, IsInjective
<1>4. q \in Surjection(1 .. n, S)
  BY <1>1, <1>3, FS_Injection
<1>5. \A x \in S : \E i \in 1 .. n : q[i] = x
  BY <1>4 DEF Surjection
<1>6. q \in Seq(S) /\ Len(q) = n
  BY <1>1, <1>2
<1> QED
  BY <1>2, <1>5, <1>6 DEF Range

LEMMA OrderMade ==
    ASSUME NEW S, IsFiniteSet(S), NEW q, NEW n \in Nat, q \in [1 .. n -> S],
           \A i, j \in 1 .. n : q[i] = q[j] => i = j, \A x \in S : \E i \in 1 .. n : q[i] = x
    PROVE  q \in Orders(S) /\ n = Cardinality(S)
<1>1. IsFiniteSet(1 .. n) /\ Cardinality(1 .. n) = n
  BY FS_Interval
<1>2. q \in Injection(1 .. n, S) /\ q \in Surjection(1 .. n, S)
  BY DEF Injection, IsInjective, Surjection
<1>3. n = Cardinality(S)
  BY <1>1, <1>2, FS_Injection
<1> QED
  BY <1>3 DEF Orders

LEMMA SortedExists ==
    ASSUME NEW S \in SUBSET Nat, IsFiniteSet(S)
    PROVE  \E q \in Orders(S) : \A i, j \in DOMAIN q : i < j => q[i] < q[j]
<1> DEFINE Right(q, U) == q \in Orders(U) /\ \A i, j \in DOMAIN q : i < j => q[i] < q[j]
           T == {n \in Nat : \A U \in SUBSET Nat : IsFiniteSet(U) /\ Cardinality(U) = n => \E q : Right(q, U)}
<1>1. 0 \in T
  <2> SUFFICES ASSUME NEW U \in SUBSET Nat, IsFiniteSet(U), Cardinality(U) = 0 PROVE \E q : Right(q, U)
    OBVIOUS
  <2>1. U = {}
    BY FS_EmptySet
  <2>2. Right(<<>>, U)
    BY <2>1, FS_EmptySet DEF Orders
  <2> QED
    BY <2>2
<1>2. ASSUME NEW n \in Nat, n \in T PROVE n + 1 \in T
  <2> SUFFICES ASSUME NEW U \in SUBSET Nat, IsFiniteSet(U), Cardinality(U) = n + 1 PROVE \E q : Right(q, U)
    <3>1. n + 1 \in Nat
      OBVIOUS
    <3> HIDE DEF Right
    <3> QED
      BY <3>1
  <2>1. U # {}
    BY FS_EmptySet
  <2>2. PICK m \in U : \A x \in U : m <= x
    BY <2>1, Least
  <2> DEFINE V == U \ {m}
  <2>3. V \in SUBSET Nat /\ IsFiniteSet(V) /\ Cardinality(V) = n
    <3>1. IsFiniteSet(U \ {m}) /\ Cardinality(U \ {m}) = (n + 1) - 1
      BY FS_RemoveElement
    <3> QED
      BY <3>1
  <2>4. PICK q : Right(q, V)
    <3> HIDE DEF Right, V
    <3> QED
      BY <1>2, <2>3
  <2>5. /\ q \in [1 .. n -> V] /\ DOMAIN q = 1 .. n
        /\ \A i, j \in 1 .. n : i # j => q[i] # q[j]
        /\ \A i, j \in 1 .. n : i < j => q[i] < q[j]
    BY <2>3, <2>4 DEF Orders
  <2> DEFINE p == [i \in 1 .. n + 1 |-> IF i = 1 THEN m ELSE q[i - 1]]
  <2>6. ASSUME NEW i \in 1 .. n + 1, i # 1 PROVE i - 1 \in 1 .. n /\ p[i] = q[i - 1] /\ p[i] \in V
    BY <2>5, <2>6
  <2>7. p[1] = m /\ \A x \in V : m < x
    BY <2>2
  <2>8. p \in [1 .. n + 1 -> U]
    BY <2>2, <2>6
  <2>9. ASSUME NEW i \in 1 .. n + 1, NEW j \in 1 .. n + 1, i < j PROVE p[i] < p[j]
    <3>1. j # 1 /\ p[j] = q[j - 1] /\ p[j] \in V /\ j - 1 \in 1 .. n
      BY <2>6, <2>9
    <3>2. CASE i = 1
      BY <2>7, <3>1, <3>2
    <3>3. CASE i # 1
      <4>1. p[i] = q[i - 1] /\ i - 1 \in 1 .. n /\ i - 1 < j - 1
        BY <2>6, <2>9, <3>3
      <4> QED
        BY <2>5, <3>1, <4>1
    <3> QED
      BY <3>2, <3>3
  <2> HIDE DEF p
  <2>10. ASSUME NEW i \in 1 .. n + 1, NEW j \in 1 .. n + 1, i # j PROVE p[i] # p[j]
    <3>1. p[i] \in Nat /\ p[j] \in Nat
      <4>1. p[i] \in U /\ p[j] \in U
        BY <2>8
      <4> QED
        BY <4>1
    <3>2. i < j \/ j < i
      BY <2>10
    <3> QED
      BY <2>9, <3>1, <3>2
  <2>11. Right(p, U)
    BY <2>8, <2>9, <2>10 DEF Orders
  <2> QED
    BY <2>11
<1> HIDE DEF T
<1>3. Cardinality(S) \in T
  BY <1>1, <1>2, Induction, FS_CardinalityType
<1>4. \E q : Right(q, S)
  <2> HIDE DEF Right
  <2> QED
    BY <1>3 DEF T
<1> QED
  BY <1>4

LEMMA SortedOrder ==
    ASSUME NEW S \in SUBSET Nat, IsFiniteSet(S)
    PROVE  Sorted(S) \in Orders(S)
BY SortedExists DEF Sorted

(***************************************************************************)
(* The types.  A sample is one of the machine as it was: since then its    *)
(* counter grew by no more than 1 at every tick, or was reset.             *)
(***************************************************************************)
Samples ==
    {s \in [dev : Devices, epoch : Nat, total : Nat, at : 0 .. now] :
       /\ s.epoch <= epoch[s.dev]
       /\ s.epoch = epoch[s.dev] => s.total <= total[s.dev] /\ total[s.dev] - s.total <= now - s.at}

Spans == 0 .. setup.time \cup {Ages}

Rows == {r \in [dev : Devices, epoch : Nat, total : Nat, growth : Growths, span : Spans] : r.epoch <= epoch[r.dev]}

StepsOf(i) ==
    CASE i = "net"    -> {"keep", "store", "since", "stamp", "load", "diff"}
      [] i = "diskio" -> {"select", "keep", "store", "since", "stamp", "load", "diff"}
      [] i = "disk"   -> {"select", "report"}
      [] i = "system" -> {"swap", "report"}
      [] OTHER        -> {"percent"}

Size == Cardinality(Devices)

Jobs ==
    [step : {"idle"} \cup StepsOf(input), list : Seq(Samples), k : Nat \ {0}, stat : Seq(Samples), rows : Seq(Rows),
     span : Spans, alone : BOOLEAN, steady : BOOLEAN, from : 0 .. now]

\* How far the call has come, by what it has gathered.
Sized(call) ==
    /\ Len(call.list) <= Size
    /\ call.step = "idle" => call = Idle
    /\ call.step = "select" => Len(call.stat) < call.k /\ call.k <= Len(call.list) + 1 /\ call.rows = <<>>
    /\ call.step \in {"diff", "percent"} => Len(call.rows) = call.k - 1 /\ call.k <= Len(call.list) + 1
    /\ call.step \in {"keep", "store", "since", "stamp", "load", "swap"} => call.rows = <<>>
    /\ call.step = "swap" => Len(call.list) = 1
    /\ call.step = "report" => Len(call.rows) <= Size

Reports == [alone : BOOLEAN, steady : BOOLEAN, from : 0 .. now, to : 0 .. now, rows : Seq(Rows)]

MachineType ==
    /\ setup \in Setups /\ now \in 1 .. setup.time
    /\ present \subseteq Devices /\ total \in [Devices -> Nat] /\ epoch \in [Devices -> Nat]

PluginType ==
    /\ names \subseteq Devices /\ path \in Devices \cup {0}
    /\ cur \in Seq(Samples) /\ Len(cur) <= Size /\ prev \in Seq(Samples) /\ last \in 0 .. now
    /\ cpu \in [Devices -> Samples] /\ \A d \in Devices : cpu[d].dev = d

CallsType == job \in [Gatherers -> Jobs] /\ \A g \in Gatherers : Sized(job[g])

PagesType ==
    /\ page \in [Pages -> [step : {"idle", "add"}, list : Seq(Devices), k : Nat \ {0}, steady : BOOLEAN]]
    /\ series \in [devs : Seq(Devices), steady : BOOLEAN]

ReportsType == report \in Reports /\ before \in Reports

TypesInv == MachineType /\ PluginType /\ CallsType /\ PagesType /\ ReportsType

LEMMA Inputs ==
    ASSUME MachineType
    PROVE  /\ input \in {"net", "diskio", "disk", "system", "procstat"}
           /\ IsFiniteSet(Devices) /\ Devices \subseteq Nat \ {0} /\ Size \in Nat
           /\ setup.time \in Nat \ {0} /\ setup.time <= Width /\ Width \in Nat \ {0} /\ Start \in Nat
           /\ now \in Nat /\ 1 <= now /\ now <= setup.time
<1>1. IsFiniteSet(Devices)
  BY SetupsAssumption DEF MachineType, Devices
<1>2. Size \in Nat
  BY <1>1, FS_CardinalityType DEF Size
<1> QED
  BY <1>1, <1>2, SetupsAssumption, CountersAssumption DEF MachineType, Devices, input

LEMMA SameSets ==
    ASSUME setup' = setup, now' = now, total' = total, epoch' = epoch
    PROVE  /\ Samples' = Samples /\ Jobs' = Jobs /\ Reports' = Reports /\ Rows' = Rows /\ Size' = Size
           /\ Devices' = Devices /\ input' = input
<1>1. Devices' = Devices /\ input' = input /\ Spans' = Spans
  BY DEF Devices, input, Spans
<1>2. Samples' = Samples
  BY <1>1 DEF Samples
<1>3. Rows' = Rows /\ Size' = Size
  BY <1>1 DEF Rows, Size, Growths
<1>4. Reports' = Reports
  BY <1>3 DEF Reports
<1>5. Jobs' = Jobs
  BY <1>1, <1>2, <1>3 DEF Jobs
<1> QED
  BY <1>1, <1>2, <1>3, <1>4, <1>5

(***************************************************************************)
(* Samples and rows                                                        *)
(***************************************************************************)
LEMMA SampleType ==
    ASSUME MachineType, NEW d \in Devices
    PROVE  Sample(d) \in Samples /\ Sample(d).dev = d /\ Sample(d).at = now
BY Inputs DEF MachineType, Sample, Samples

LEMMA SampleFields ==
    ASSUME MachineType, NEW s \in Samples
    PROVE  /\ s.dev \in Devices /\ s.epoch \in Nat /\ s.total \in Nat /\ s.at \in 0 .. now /\ s.at \in Nat
           /\ s.epoch <= epoch[s.dev] /\ epoch[s.dev] \in Nat /\ total[s.dev] \in Nat
           /\ s.epoch = epoch[s.dev] => s.total <= total[s.dev] /\ total[s.dev] - s.total <= now - s.at
BY Inputs DEF MachineType, Samples

LEMMA RowType ==
    ASSUME MachineType, NEW s \in Samples, NEW growth \in Growths, NEW span \in Spans
    PROVE  Row(s, growth, span) \in Rows
BY SampleFields DEF Row, Rows

LEMMA NatGrows == \A n \in Nat : n \in Growths
BY DEF Growths

LEMMA SpansHave ==
    ASSUME MachineType
    PROVE  0 \in Spans /\ 1 \in Spans /\ \A t \in 0 .. now : Since(t) \in Spans
BY Inputs DEF Spans, Since, Ages

LEMMA BusyType ==
    ASSUME MachineType, NEW t1 \in Samples, NEW t2 \in Samples
    PROVE  BusyRow(t1, t2) \in Rows
<1>1. 0 \in Nat /\ 1 \in Nat /\ 0 \in Spans /\ 1 \in Spans
  BY SpansHave
<1>2. Row(t2, 0, 1) \in Rows /\ Row(t2, 1, 1) \in Rows
  BY <1>1, RowType, NatGrows
<1>3. ASSUME ~(t2.total <= t1.total), ~(t2.at <= t1.at) PROVE Row(t2, t2.total - t1.total, t2.at - t1.at) \in Rows
  <2>1. t2.total - t1.total \in Nat /\ t2.at - t1.at \in 0 .. setup.time
    BY <1>3, SampleFields, Inputs
  <2>2. t2.at - t1.at \in Spans
    BY <2>1 DEF Spans
  <2> QED
    BY <2>1, <2>2, RowType, NatGrows
<1> QED
  BY <1>2, <1>3 DEF BusyRow

LEMMA PercentType ==
    ASSUME MachineType, input = "procstat", NEW t1 \in Samples, NEW t2 \in Samples, t1.at <= t2.at
    PROVE  PercentRow(t1, t2) \in Rows
<1>1. Growths = Int
  BY DEF Growths
<1>2. 0 \in Int /\ 1 \in Spans
  BY SpansHave
<1>3. t2.total - t1.total \in Int /\ t2.at - t1.at \in 0 .. setup.time
  BY SampleFields, Inputs
<1>4. t2.at - t1.at \in Spans
  BY <1>3 DEF Spans
<1> QED
  BY <1>1, <1>2, <1>3, <1>4, RowType DEF PercentRow

\* The sample that getNetDevStatDiff finds.
LEMMA StatFound ==
    ASSUME NEW A, prev \in Seq(A), NEW s, NEW i \in DOMAIN prev, prev[i].dev = s.dev
    PROVE  \E k \in DOMAIN prev : prev[k].dev = s.dev /\ StatDiff(s) = Adjust(s.total % Width, prev[k].total % Width)
<1> DEFINE before_ == {n \in DOMAIN prev : prev[n].dev = s.dev}
           k == CHOOSE n \in before_ : \A j \in before_ : n <= j
<1>1. before_ # {} /\ before_ \in SUBSET Nat
  OBVIOUS
<1>2. \E n \in before_ : \A j \in before_ : n <= j
  <2> HIDE DEF before_
  <2> QED
    BY <1>1, Least
<1>3. k \in before_
  BY <1>2
<1>4. StatDiff(s) = Adjust(s.total % Width, prev[k].total % Width)
  BY <1>1 DEF StatDiff
<1> QED
  BY <1>3, <1>4

LEMMA AdjustType ==
    ASSUME NEW c \in 0 .. Width - 1, NEW p \in 0 .. Width - 1, Width \in Nat \ {0}
    PROVE  Adjust(c, p) \in Nat
BY DEF Adjust

LEMMA StatType ==
    ASSUME MachineType, prev \in Seq(Samples), NEW s \in Samples
    PROVE  StatDiff(s) \in Nat
<1>1. s.total \in Nat /\ Width \in Nat \ {0} /\ s.total % Width \in 0 .. Width - 1
  BY SampleFields, Inputs, Division
<1>2. CASE \A i \in DOMAIN prev : prev[i].dev # s.dev
  <2>1. StatDiff(s) = s.total % Width
    BY <1>2 DEF StatDiff
  <2> QED
    BY <1>1, <2>1
<1>3. ASSUME NEW i \in DOMAIN prev, prev[i].dev = s.dev PROVE StatDiff(s) \in Nat
  <2>1. PICK k \in DOMAIN prev : StatDiff(s) = Adjust(s.total % Width, prev[k].total % Width)
    BY <1>3, StatFound
  <2>2. prev[k] \in Samples
    BY <2>1
  <2>3. prev[k].total % Width \in 0 .. Width - 1
    BY <1>1, <2>2, SampleFields, Division
  <2> QED
    BY <1>1, <2>1, <2>3, AdjustType
<1> QED
  BY <1>2, <1>3

(***************************************************************************)
(* TypeOK: the calls of Gather                                             *)
(***************************************************************************)
LEMMA CallFields ==
    ASSUME CallsType, NEW g \in Gatherers
    PROVE  /\ job[g] \in Jobs /\ Sized(job[g])
           /\ job[g].step \in {"idle"} \cup StepsOf(input) /\ job[g].list \in Seq(Samples)
           /\ job[g].k \in Nat \ {0} /\ job[g].stat \in Seq(Samples) /\ job[g].rows \in Seq(Rows)
           /\ job[g].span \in Spans /\ job[g].alone \in BOOLEAN /\ job[g].steady \in BOOLEAN /\ job[g].from \in 0 .. now
BY DEF CallsType, Jobs

LEMMA ThisType ==
    ASSUME CallsType, NEW g \in Gatherers, More(g)
    PROVE  This(g) \in Samples /\ job[g].k \in 1 .. Len(job[g].list)
BY CallFields DEF More, This

LEMMA NewCall ==
    ASSUME CallsType, setup' = setup, now' = now, total' = total, epoch' = epoch,
           NEW g \in Gatherers, NEW c \in Jobs, Sized(c), job' = [job EXCEPT ![g] = c]
    PROVE  CallsType'
<1>1. Jobs' = Jobs /\ Size' = Size
  BY SameSets
<1>2. job' \in [Gatherers -> Jobs] /\ \A h \in Gatherers : Sized(job'[h])
  BY DEF CallsType
<1>3. \A h \in Gatherers : Sized(job[h])'
  BY <1>1, <1>2 DEF Sized
<1> QED
  BY <1>1, <1>2, <1>3 DEF CallsType

LEMMA OthersKept ==
    ASSUME TypesInv, setup' = setup, now' = now, total' = total, epoch' = epoch
    PROVE  /\ present' = present => MachineType'
           /\ UNCHANGED plugin => PluginType'
           /\ UNCHANGED <<page, series>> => PagesType'
           /\ UNCHANGED history => ReportsType'
<1>1. Samples' = Samples /\ Reports' = Reports /\ Size' = Size /\ Devices' = Devices
  BY SameSets
<1> QED
  BY <1>1 DEF TypesInv, MachineType, PluginType, PagesType, ReportsType, plugin, history

LEMMA IdleKept ==
    ASSUME NEW call, call = Idle
    PROVE  [call EXCEPT !.alone = FALSE] = Idle /\ [call EXCEPT !.steady = FALSE] = Idle
<1>1. call.alone = FALSE /\ call.steady = FALSE /\ call = [x \in DOMAIN call |-> call[x]]
  BY DEF Idle
<1>2. /\ \A x \in DOMAIN call : [call EXCEPT !.alone = FALSE][x] = call[x]
      /\ \A x \in DOMAIN call : [call EXCEPT !.steady = FALSE][x] = call[x]
  BY <1>1
<1>3. /\ [call EXCEPT !.alone = FALSE] = [x \in DOMAIN call |-> [call EXCEPT !.alone = FALSE][x]]
      /\ [call EXCEPT !.steady = FALSE] = [x \in DOMAIN call |-> [call EXCEPT !.steady = FALSE][x]]
  OBVIOUS
<1> QED
  BY <1>1, <1>2, <1>3

\* What a call begins with.
Begins(c, s, list, alone, steady) ==
    c = [Idle EXCEPT !.step = s, !.list = list, !.from = now, !.alone = alone, !.steady = steady]

LEMMA Begun ==
    ASSUME MachineType, NEW s \in StepsOf(input), NEW list \in Seq(Samples), NEW alone \in BOOLEAN, NEW steady \in BOOLEAN,
           NEW c, Begins(c, s, list, alone, steady)
    PROVE  /\ c \in Jobs
           /\ c.step = s /\ c.list = list /\ c.k = 1 /\ c.stat = <<>> /\ c.rows = <<>> /\ c.span = 0
           /\ c.alone = alone /\ c.steady = steady /\ c.from = now
<1>1. 0 \in Spans /\ now \in 0 .. now /\ 0 \in 0 .. now /\ <<>> \in Seq(Samples) /\ <<>> \in Seq(Rows)
  BY SpansHave, Inputs
<1>2. Idle \in Jobs
  BY <1>1 DEF Idle, Jobs
<1>3. c \in Jobs
  BY <1>1, <1>2 DEF Jobs, Begins
<1> QED
  BY <1>3 DEF Idle, Begins

LEMMA BeginTypes ==
    ASSUME TypesInv, NEW g \in Gatherers, NEW s \in StepsOf(input) \cap {"keep", "select", "swap", "percent"},
           NEW list \in Seq(Samples), Len(list) <= Size, s = "swap" => Len(list) = 1, Begin(g, s, list)
    PROVE  TypesInv'
<1>1. setup' = setup /\ now' = now /\ total' = total /\ epoch' = epoch /\ present' = present
  BY DEF Begin, machine
<1>2. MachineType' /\ PluginType' /\ PagesType' /\ ReportsType'
  BY <1>1, OthersKept DEF Begin
<1> DEFINE alone  == \A o \in Gatherers : job[o].step = "idle"
           steady == series.steady /\ \A o \in Gatherers : job[o].step = "idle" \/ job[o].steady
           c == [Idle EXCEPT !.step = s, !.list = list, !.from = now, !.alone = alone, !.steady = steady]
<1>3. job' = [h \in Gatherers |-> IF h = g THEN c ELSE [job[h] EXCEPT !.alone = FALSE]]
  BY DEF Begin
<1>4. alone \in BOOLEAN /\ steady \in BOOLEAN
  BY DEF TypesInv, PagesType
<1> HIDE DEF alone, steady
<1>5. c \in Jobs /\ c.step = s /\ c.list = list /\ c.k = 1 /\ c.stat = <<>> /\ c.rows = <<>>
  <2>1. MachineType /\ s \in StepsOf(input) /\ Begins(c, s, list, alone, steady)
    BY DEF TypesInv, Begins
  <2> HIDE DEF c
  <2> QED
    BY <1>4, <2>1, Begun
<1> HIDE DEF c
<1>6. c \in Jobs
  BY <1>5
<1>7. Sized(c)
  <2>1. s \notin {"idle", "report", "diff"} /\ Size \in Nat
    BY Inputs DEF TypesInv
  <2> QED
    BY <1>5, <2>1 DEF Sized
<1>8. ASSUME NEW h \in Gatherers PROVE [job[h] EXCEPT !.alone = FALSE] \in Jobs /\ Sized([job[h] EXCEPT !.alone = FALSE])
  <2>1. job[h] \in Jobs /\ Sized(job[h])
    BY CallFields DEF TypesInv
  <2>2. [job[h] EXCEPT !.alone = FALSE] \in Jobs
    BY <2>1 DEF Jobs
  <2>3. job[h].step = "idle" => [job[h] EXCEPT !.alone = FALSE] = Idle
    BY <2>1, IdleKept DEF Sized
  <2>4. Sized([job[h] EXCEPT !.alone = FALSE])
    BY <2>1, <2>3 DEF Sized, Jobs
  <2> QED
    BY <2>2, <2>4
<1>9. job' \in [Gatherers -> Jobs] /\ \A h \in Gatherers : Sized(job'[h])
  BY <1>3, <1>6, <1>7, <1>8
<1>10. CallsType'
  <2>1. Jobs' = Jobs /\ Size' = Size
    BY <1>1, SameSets
  <2>2. \A h \in Gatherers : Sized(job[h])'
    BY <1>9, <2>1 DEF Sized
  <2> QED
    BY <1>9, <2>1, <2>2 DEF CallsType
<1> QED
  BY <1>2, <1>10 DEF TypesInv

\* The samples of the devices of an order.
LEMMA OrderSampled ==
    ASSUME MachineType, NEW S \in SUBSET Devices, NEW q \in Orders(S)
    PROVE  /\ [i \in DOMAIN q |-> Sample(q[i])] \in Seq(Samples)
           /\ Len([i \in DOMAIN q |-> Sample(q[i])]) = Cardinality(S) /\ Cardinality(S) <= Size
           /\ \A i \in DOMAIN q : q[i] \in Devices
           /\ DOMAIN q = 1 .. Cardinality(S) /\ Cardinality(S) \in Nat
<1>1. IsFiniteSet(S) /\ Cardinality(S) \in Nat /\ Cardinality(S) <= Size
  BY Inputs, FS_Subset, FS_CardinalityType DEF Size
<1>2. DOMAIN q = 1 .. Cardinality(S) /\ \A i \in DOMAIN q : q[i] \in S
  BY <1>1, OrderOnto
<1>3. \A i \in DOMAIN q : q[i] \in Devices /\ Sample(q[i]) \in Samples
  BY <1>2, SampleType
<1> HIDE DEF Sample
<1> QED
  BY <1>1, <1>2, <1>3

LEMMA ReadTypes ==
    ASSUME TypesInv, NEW g \in Gatherers, ReadNet(g) \/ ReadDisks(g) \/ ReadTimes(g) \/ ReadProcs(g)
    PROVE  TypesInv'
<1>1. MachineType /\ names \in SUBSET Devices /\ present \in SUBSET Devices /\ DiskUsage \in SUBSET Devices
  BY DEF TypesInv, MachineType, PluginType, DiskUsage
<1>2. CASE ReadNet(g)
  <2> DEFINE S == present \cap names
             list == [i \in 1 .. Cardinality(S) |-> Sample(Sorted(S)[i])]
  <2>1. S \in SUBSET Devices /\ IsFiniteSet(S) /\ S \in SUBSET Nat
    BY <1>1, Inputs, FS_Subset
  <2>2. Sorted(S) \in Orders(S)
    BY <2>1, SortedOrder
  <2>3. list \in Seq(Samples) /\ Len(list) <= Size
    <3>1. DOMAIN Sorted(S) = 1 .. Cardinality(S)
      BY <1>1, <2>1, <2>2, OrderSampled
    <3> HIDE DEF S
    <3> QED
      BY <1>1, <2>1, <2>2, <3>1, OrderSampled
  <2>4. Begin(g, "keep", list) /\ input = "net"
    BY <1>2 DEF ReadNet
  <2> HIDE DEF list
  <2> QED
    BY <2>3, <2>4, BeginTypes DEF StepsOf
<1>3. CASE ReadDisks(g)
  <2> DEFINE S == IF input = "disk" THEN DiskUsage ELSE present
  <2>1. S \in SUBSET Devices
    BY <1>1
  <2>2. PICK q \in Orders(S) : Begin(g, "select", [i \in DOMAIN q |-> Sample(q[i])])
    BY <1>3 DEF ReadDisks
  <2> HIDE DEF S
  <2>3. [i \in DOMAIN q |-> Sample(q[i])] \in Seq(Samples) /\ Len([i \in DOMAIN q |-> Sample(q[i])]) <= Size
    BY <1>1, <2>1, OrderSampled
  <2>4. "select" \in StepsOf(input)
    BY <1>3 DEF ReadDisks, StepsOf
  <2> QED
    BY <2>2, <2>3, <2>4, BeginTypes
<1>4. CASE ReadTimes(g)
  <2>1. PICK d \in names : Begin(g, "swap", <<Sample(d)>>)
    BY <1>4 DEF ReadTimes
  <2>2. <<Sample(d)>> \in Seq(Samples) /\ Len(<<Sample(d)>>) = 1
    BY <1>1, SampleType
  <2>3. 1 <= Size
    <3>1. Devices # {}
      BY <1>1
    <3> QED
      BY <1>1, <3>1, Inputs, FS_EmptySet DEF Size
  <2>4. "swap" \in StepsOf(input)
    BY <1>4 DEF ReadTimes, StepsOf
  <2> QED
    BY <2>1, <2>2, <2>3, <2>4, BeginTypes
<1>5. CASE ReadProcs(g)
  <2>1. PICK q \in Orders(names) : Begin(g, "percent", [i \in DOMAIN q |-> Sample(q[i])])
    BY <1>5 DEF ReadProcs
  <2>2. [i \in DOMAIN q |-> Sample(q[i])] \in Seq(Samples) /\ Len([i \in DOMAIN q |-> Sample(q[i])]) <= Size
    BY <1>1, OrderSampled
  <2>3. "percent" \in StepsOf(input)
    BY <1>5 DEF ReadProcs, StepsOf
  <2> QED
    BY <2>1, <2>2, <2>3, BeginTypes
<1> QED
  BY <1>2, <1>3, <1>4, <1>5

\* A step of a call that began changes only this call and the plugin.
LEMMA CallTypes ==
    ASSUME TypesInv, UNCHANGED Kept, NEW g \in Gatherers, NEW c \in Jobs, Sized(c), job' = [job EXCEPT ![g] = c]
    PROVE  PluginType' => TypesInv'
<1>1. /\ setup' = setup /\ now' = now /\ total' = total /\ epoch' = epoch /\ present' = present
      /\ UNCHANGED <<page, series>> /\ UNCHANGED history
  BY DEF Kept, machine
<1>2. MachineType' /\ PagesType' /\ ReportsType'
  BY <1>1, OthersKept
<1>3. CallsType'
  BY <1>1, NewCall DEF TypesInv
<1> QED
  BY <1>2, <1>3 DEF TypesInv

LEMMA PluginKept ==
    ASSUME TypesInv, UNCHANGED Kept, UNCHANGED plugin
    PROVE  PluginType'
BY OthersKept DEF Kept, machine

LEMMA SelectTypes ==
    ASSUME TypesInv, NEW g \in Gatherers, Select(g)
    PROVE  TypesInv'
<1> DEFINE stat == IF Chosen(This(g).dev) THEN Append(job[g].stat, This(g)) ELSE job[g].stat
           c == [job[g] EXCEPT !.k = @ + 1, !.stat = stat]
<1>1. /\ job[g] \in Jobs /\ Sized(job[g]) /\ job[g].step = "select" /\ More(g)
      /\ job[g].k \in Nat \ {0} /\ job[g].stat \in Seq(Samples) /\ job[g].list \in Seq(Samples)
  BY CallFields DEF TypesInv, Select, At
<1>2. This(g) \in Samples /\ job[g].k \in 1 .. Len(job[g].list)
  BY <1>1, ThisType DEF TypesInv
<1>3. stat \in Seq(Samples) /\ Len(stat) <= Len(job[g].stat) + 1
  BY <1>1, <1>2
<1>4. job' = [job EXCEPT ![g] = c] /\ UNCHANGED <<Kept, plugin>>
  <2>1. job' = [job EXCEPT ![g].k = @ + 1, ![g].stat = stat] /\ UNCHANGED <<Kept, plugin>>
    BY DEF Select
  <2> HIDE DEF stat
  <2>2. [job EXCEPT ![g].k = @ + 1, ![g].stat = stat] = [job EXCEPT ![g] = c]
    BY DEF CallsType, TypesInv
  <2> QED
    BY <2>1, <2>2
<1> HIDE DEF stat
<1>5. c \in Jobs /\ c.step = "select" /\ c.list = job[g].list /\ c.k = job[g].k + 1 /\ c.stat = stat /\ c.rows = job[g].rows
  <2>1. job[g] \in Jobs /\ job[g].k + 1 \in Nat \ {0} /\ stat \in Seq(Samples)
    BY <1>1, <1>3
  <2>2. c \in Jobs
    BY <2>1 DEF Jobs
  <2> QED
    BY <1>1, <2>1, <2>2 DEF Jobs
<1> HIDE DEF c
<1>6. Sized(c)
  BY <1>1, <1>2, <1>3, <1>5 DEF Sized
<1> QED
  BY <1>4, <1>5, <1>6, CallTypes, PluginKept

LEMMA SelectedTypes ==
    ASSUME TypesInv, NEW g \in Gatherers, Selected(g)
    PROVE  TypesInv'
<1> DEFINE stat == job[g].stat
           rows == [i \in DOMAIN stat |-> Row(stat[i], stat[i].total, 0)]
           c1 == [job[g] EXCEPT !.step = "keep", !.list = stat]
           c2 == [job[g] EXCEPT !.step = "report", !.rows = rows]
           c == IF input = "diskio" THEN c1 ELSE c2
<1>1. /\ job[g] \in Jobs /\ Sized(job[g]) /\ job[g].step = "select" /\ ~More(g)
      /\ job[g].k \in Nat \ {0} /\ job[g].stat \in Seq(Samples) /\ job[g].list \in Seq(Samples)
      /\ job[g].step \in {"idle"} \cup StepsOf(input)
  BY CallFields DEF TypesInv, Selected, At
<1>2. Len(stat) <= Size /\ job[g].rows = <<>> /\ Len(stat) \in Nat /\ Size \in Nat
  <2>1. Len(stat) < job[g].k /\ job[g].k <= Len(job[g].list) + 1 /\ Len(job[g].list) <= Size /\ job[g].rows = <<>>
    BY <1>1 DEF Sized
  <2>2. Size \in Nat
    BY Inputs DEF TypesInv
  <2> QED
    BY <1>1, <2>1, <2>2
<1>3. rows \in Seq(Rows) /\ Len(rows) = Len(stat)
  <2>1. ASSUME NEW i \in DOMAIN stat PROVE Row(stat[i], stat[i].total, 0) \in Rows
    <3>1. MachineType /\ stat[i] \in Samples /\ stat[i].total \in Nat /\ 0 \in Spans
      BY <1>1, SampleFields, SpansHave DEF TypesInv
    <3> QED
      BY <3>1, RowType, NatGrows
  <2> HIDE DEF Row
  <2> QED
    BY <1>1, <2>1
<1>4. job' = [job EXCEPT ![g] = c] /\ UNCHANGED <<Kept, plugin>>
  BY DEF Selected
<1> HIDE DEF rows
<1>5. CASE input = "diskio"
  <2>1. "keep" \in StepsOf(input)
    BY <1>5 DEF StepsOf
  <2>2. c1 \in Jobs /\ c1.step = "keep" /\ c1.list = stat /\ c1.rows = job[g].rows
    BY <1>1, <2>1 DEF Jobs
  <2>3. c = c1
    BY <1>5
  <2> HIDE DEF c, c1
  <2>4. c \in Jobs /\ Sized(c)
    BY <1>2, <2>2, <2>3 DEF Sized
  <2> QED
    BY <1>4, <2>4, CallTypes, PluginKept
<1>6. CASE input # "diskio"
  <2>1. "report" \in StepsOf(input)
    <3>1. "select" \in StepsOf(input)
      BY <1>1
    <3> QED
      BY <1>6, <3>1 DEF StepsOf
  <2>2. c2 \in Jobs /\ c2.step = "report" /\ c2.list = job[g].list /\ c2.rows = rows
    BY <1>1, <1>3, <2>1 DEF Jobs
  <2>3. c = c2
    BY <1>6
  <2> HIDE DEF c, c2
  <2>4. c \in Jobs /\ Sized(c)
    BY <1>1, <1>2, <1>3, <2>2, <2>3 DEF Sized
  <2> QED
    BY <1>4, <2>4, CallTypes, PluginKept
<1> QED
  BY <1>5, <1>6

\* diff, of net and of diskio.
LEMMA DiffSteps ==
    ASSUME TypesInv, NEW g \in Gatherers, job[g].step \in {"keep", "store", "since", "stamp", "load", "diff"}
    PROVE  /\ input \in {"net", "diskio"}
           /\ {"keep", "store", "since", "stamp", "load", "diff"} \subseteq StepsOf(input)
<1>1. job[g].step \in {"idle"} \cup StepsOf(input)
  BY CallFields DEF TypesInv
<1> QED
  BY <1>1 DEF StepsOf

LEMMA KeepTypes ==
    ASSUME TypesInv, NEW g \in Gatherers, Keep(g) \/ Store(g)
    PROVE  TypesInv'
<1> DEFINE c(s) == [job[g] EXCEPT !.step = s]
<1>1. job[g] \in Jobs /\ Sized(job[g]) /\ job[g].step \in {"keep", "store"} /\ job[g].list \in Seq(Samples)
  BY CallFields DEF TypesInv, Keep, Store, At
<1>2. ASSUME NEW s \in {"store", "since"} PROVE c(s) \in Jobs /\ Sized(c(s))
  <2>1. s \in StepsOf(input)
    BY <1>1, DiffSteps
  <2>2. c(s) \in Jobs /\ c(s).step = s /\ c(s).list = job[g].list /\ c(s).rows = job[g].rows
    BY <1>1, <2>1 DEF Jobs
  <2> HIDE DEF c
  <2>3. Sized(c(s))
    BY <1>1, <2>2 DEF Sized
  <2> QED
    BY <2>2, <2>3
<1>3. setup' = setup /\ now' = now /\ total' = total /\ epoch' = epoch /\ UNCHANGED Kept
  BY DEF Keep, Store, Kept, machine
<1>4. Samples' = Samples /\ Size' = Size /\ Devices' = Devices
  BY <1>3, SameSets
<1>5. PluginType'
  <2>1. PluginType /\ Len(job[g].list) <= Size
    BY <1>1 DEF TypesInv, Sized
  <2>2. UNCHANGED <<names, path, last, cpu, now>>
    BY <1>3 DEF Keep, Store
  <2>3. cur' \in Seq(Samples) /\ Len(cur') <= Size /\ prev' \in Seq(Samples)
    BY <1>1, <2>1 DEF Keep, Store, PluginType
  <2> QED
    BY <1>4, <2>1, <2>2, <2>3 DEF PluginType
<1>6. CASE Keep(g)
  <2>1. job' = [job EXCEPT ![g] = c("store")]
    BY <1>6 DEF Keep
  <2> HIDE DEF c
  <2> QED
    BY <1>2, <1>3, <1>5, <2>1, CallTypes
<1>7. CASE Store(g)
  <2>1. job' = [job EXCEPT ![g] = c("since")]
    BY <1>7 DEF Store
  <2> HIDE DEF c
  <2> QED
    BY <1>2, <1>3, <1>5, <2>1, CallTypes
<1> QED
  BY <1>6, <1>7

LEMMA LapseTypes ==
    ASSUME TypesInv, NEW g \in Gatherers, Lapse(g)
    PROVE  TypesInv'
<1> DEFINE c == [job[g] EXCEPT !.step = "stamp", !.span = Since(last)]
<1>1. job[g] \in Jobs /\ Sized(job[g]) /\ job[g].step = "since" /\ MachineType /\ PluginType
  BY CallFields DEF TypesInv, Lapse, At
<1>2. "stamp" \in StepsOf(input) /\ Since(last) \in Spans
  BY <1>1, DiffSteps, SpansHave DEF PluginType
<1>3. job' = [job EXCEPT ![g] = c] /\ UNCHANGED Kept /\ UNCHANGED plugin
  BY DEF Lapse
<1>4. c \in Jobs /\ c.step = "stamp" /\ c.list = job[g].list /\ c.rows = job[g].rows
  <2> HIDE DEF Since
  <2> QED
    BY <1>1, <1>2 DEF Jobs
<1> HIDE DEF c
<1>5. Sized(c)
  BY <1>1, <1>4 DEF Sized
<1>6. PluginType'
  BY <1>3, PluginKept
<1> QED
  BY <1>3, <1>4, <1>5, <1>6, CallTypes

LEMMA StampTypes ==
    ASSUME TypesInv, NEW g \in Gatherers, Stamp(g)
    PROVE  TypesInv'
<1> DEFINE c == [job[g] EXCEPT !.step = "load"]
<1>1. job[g] \in Jobs /\ Sized(job[g]) /\ job[g].step = "stamp" /\ MachineType /\ PluginType
  BY CallFields DEF TypesInv, Stamp, At
<1>2. "load" \in StepsOf(input)
  BY <1>1, DiffSteps
<1>3. job' = [job EXCEPT ![g] = c] /\ UNCHANGED Kept /\ last' = now /\ UNCHANGED <<names, path, cur, prev, cpu>>
  BY DEF Stamp
<1>4. c \in Jobs /\ c.step = "load" /\ c.list = job[g].list /\ c.rows = job[g].rows
  BY <1>1, <1>2 DEF Jobs
<1> HIDE DEF c
<1>5. Sized(c)
  BY <1>1, <1>4 DEF Sized
<1>6. setup' = setup /\ now' = now /\ total' = total /\ epoch' = epoch
  BY <1>3 DEF Kept, machine
<1>7. PluginType'
  <2>1. Samples' = Samples /\ Size' = Size /\ Devices' = Devices /\ now \in 0 .. now
    BY <1>1, <1>6, SameSets, Inputs
  <2> QED
    BY <1>1, <1>3, <1>6, <2>1 DEF PluginType
<1> QED
  BY <1>3, <1>4, <1>5, <1>7, CallTypes

LEMMA LoadTypes ==
    ASSUME TypesInv, NEW g \in Gatherers, Load(g)
    PROVE  TypesInv'
<1> DEFINE c == [job[g] EXCEPT !.step = "diff", !.list = cur, !.k = 1]
<1>1. job[g] \in Jobs /\ Sized(job[g]) /\ job[g].step = "load" /\ MachineType /\ PluginType
  BY CallFields DEF TypesInv, Load, At
<1>2. "diff" \in StepsOf(input) /\ cur \in Seq(Samples) /\ 1 \in Nat \ {0}
  BY <1>1, DiffSteps DEF PluginType
<1>3. job' = [job EXCEPT ![g] = c] /\ UNCHANGED Kept /\ UNCHANGED plugin
  BY DEF Load
<1>4. c \in Jobs /\ c.step = "diff" /\ c.list = cur /\ c.k = 1 /\ c.rows = job[g].rows
  BY <1>1, <1>2 DEF Jobs
<1> HIDE DEF c
<1>5. Sized(c)
  BY <1>1, <1>2, <1>4 DEF Sized, PluginType
<1>6. PluginType'
  BY <1>3, PluginKept
<1> QED
  BY <1>3, <1>4, <1>5, <1>6, CallTypes

LEMMA DiffTypes ==
    ASSUME TypesInv, NEW g \in Gatherers, Diff(g)
    PROVE  TypesInv'
<1> DEFINE r == Row(This(g), StatDiff(This(g)), job[g].span)
           c == [job[g] EXCEPT !.k = @ + 1, !.rows = Append(@, r)]
<1>1. /\ job[g] \in Jobs /\ Sized(job[g]) /\ job[g].step = "diff" /\ More(g) /\ MachineType
      /\ job[g].k \in Nat \ {0} /\ job[g].rows \in Seq(Rows) /\ job[g].span \in Spans /\ prev \in Seq(Samples)
  BY CallFields DEF TypesInv, Diff, At, PluginType
<1>2. This(g) \in Samples /\ job[g].k \in 1 .. Len(job[g].list)
  BY <1>1, ThisType DEF TypesInv
<1>3. r \in Rows
  BY <1>1, <1>2, StatType, RowType, NatGrows
<1>4. job' = [job EXCEPT ![g] = c] /\ UNCHANGED <<Kept, plugin>>
  <2>1. job' = [job EXCEPT ![g].k = @ + 1, ![g].rows = Append(@, r)] /\ UNCHANGED <<Kept, plugin>>
    BY DEF Diff
  <2> HIDE DEF r
  <2>2. [job EXCEPT ![g].k = @ + 1, ![g].rows = Append(@, r)] = [job EXCEPT ![g] = c]
    BY DEF CallsType, TypesInv
  <2> QED
    BY <2>1, <2>2
<1> HIDE DEF r
<1>5. /\ c \in Jobs /\ c.step = "diff" /\ c.list = job[g].list /\ c.k = job[g].k + 1
      /\ c.rows = Append(job[g].rows, r) /\ Len(c.rows) = Len(job[g].rows) + 1
  <2>1. /\ job[g] \in Jobs /\ job[g].k + 1 \in Nat \ {0} /\ Append(job[g].rows, r) \in Seq(Rows)
        /\ Len(Append(job[g].rows, r)) = Len(job[g].rows) + 1
    BY <1>1, <1>3
  <2>2. c \in Jobs
    BY <2>1 DEF Jobs
  <2>3. c.step = "diff" /\ c.list = job[g].list /\ c.k = job[g].k + 1 /\ c.rows = Append(job[g].rows, r)
    BY <1>1, <2>1 DEF Jobs
  <2> QED
    BY <2>1, <2>2, <2>3
<1> HIDE DEF c
<1>6. Sized(c)
  BY <1>1, <1>2, <1>5, SMTT(40) DEF Sized
<1> QED
  BY <1>4, <1>5, <1>6, CallTypes, PluginKept

LEMMA SwapTypes ==
    ASSUME TypesInv, NEW g \in Gatherers, SwapTimes(g)
    PROVE  TypesInv'
<1> DEFINE t == job[g].list[1]
           c == [job[g] EXCEPT !.step = "report", !.rows = <<BusyRow(cpu[t.dev], t)>>]
<1>1. /\ job[g] \in Jobs /\ Sized(job[g]) /\ job[g].step = "swap" /\ MachineType /\ PluginType
      /\ job[g].list \in Seq(Samples) /\ job[g].step \in {"idle"} \cup StepsOf(input)
  BY CallFields DEF TypesInv, SwapTimes, At
<1>2. t \in Samples /\ Len(job[g].list) = 1 /\ 1 <= Size
  <2>1. Len(job[g].list) = 1 /\ Len(job[g].list) <= Size
    BY <1>1 DEF Sized
  <2> QED
    BY <1>1, <2>1
<1>3. t.dev \in Devices /\ cpu[t.dev] \in Samples
  BY <1>1, <1>2, SampleFields DEF PluginType
<1>4. <<BusyRow(cpu[t.dev], t)>> \in Seq(Rows) /\ Len(<<BusyRow(cpu[t.dev], t)>>) = 1
  BY <1>1, <1>2, <1>3, BusyType
<1>5. job' = [job EXCEPT ![g] = c] /\ UNCHANGED Kept /\ cpu' = [cpu EXCEPT ![t.dev] = t] /\ UNCHANGED <<names, path, cur, prev, last>>
  <2>1. job' = [job EXCEPT ![g].step = "report", ![g].rows = <<BusyRow(cpu[t.dev], t)>>]
    BY DEF SwapTimes
  <2>2. [job EXCEPT ![g].step = "report", ![g].rows = <<BusyRow(cpu[t.dev], t)>>] = [job EXCEPT ![g] = c]
    BY DEF CallsType, TypesInv
  <2> QED
    BY <2>1, <2>2 DEF SwapTimes
<1>6. "report" \in StepsOf(input)
  BY <1>1 DEF StepsOf
<1>7. c \in Jobs /\ c.step = "report" /\ c.list = job[g].list /\ Len(c.rows) = 1
  BY <1>1, <1>4, <1>6 DEF Jobs
<1> HIDE DEF c
<1>8. Sized(c)
  BY <1>1, <1>2, <1>7 DEF Sized
<1>9. PluginType'
  <2>1. setup' = setup /\ now' = now /\ total' = total /\ epoch' = epoch
    BY <1>5 DEF Kept, machine
  <2>2. Samples' = Samples /\ Size' = Size /\ Devices' = Devices
    BY <2>1, SameSets
  <2>3. cpu' \in [Devices -> Samples] /\ \A d \in Devices : cpu'[d].dev = d
    BY <1>1, <1>2, <1>3, <1>5 DEF PluginType
  <2> QED
    BY <1>1, <1>5, <2>1, <2>2, <2>3 DEF PluginType
<1> QED
  BY <1>5, <1>7, <1>8, <1>9, CallTypes

LEMMA PercentTypes ==
    ASSUME TypesInv, NEW g \in Gatherers, Percent(g)
    PROVE  TypesInv'
<1> DEFINE d == This(g).dev
           t == Sample(d)
           r == IF d \notin present \/ FirstPercent(d) THEN Row(t, 0, 1) ELSE PercentRow(cpu[d], t)
           c == [job[g] EXCEPT !.k = @ + 1, !.rows = Append(@, r)]
<1>1. /\ job[g] \in Jobs /\ Sized(job[g]) /\ job[g].step = "percent" /\ More(g) /\ MachineType /\ PluginType
      /\ job[g].k \in Nat \ {0} /\ job[g].rows \in Seq(Rows)
  BY CallFields DEF TypesInv, Percent, At
<1>2. This(g) \in Samples /\ job[g].k \in 1 .. Len(job[g].list)
  BY <1>1, ThisType DEF TypesInv
<1>3. d \in Devices /\ t \in Samples /\ t.dev = d /\ cpu[d] \in Samples
  BY <1>1, <1>2, SampleFields, SampleType DEF PluginType
<1>4. job' = [job EXCEPT ![g] = c] /\ UNCHANGED Kept /\ cpu' = (IF d \in present THEN [cpu EXCEPT ![d] = t] ELSE cpu)
      /\ UNCHANGED <<names, path, cur, prev, last>>
  <2>1. /\ job' = [job EXCEPT ![g].k = @ + 1, ![g].rows = Append(@, r)]
        /\ cpu' = (IF d \in present THEN [cpu EXCEPT ![d] = t] ELSE cpu)
        /\ UNCHANGED Kept /\ UNCHANGED <<names, path, cur, prev, last>>
    BY DEF Percent
  <2> HIDE DEF r
  <2>2. [job EXCEPT ![g].k = @ + 1, ![g].rows = Append(@, r)] = [job EXCEPT ![g] = c]
    BY DEF CallsType, TypesInv
  <2> QED
    BY <2>1, <2>2
<1> HIDE DEF t, d
<1>5. r \in Rows
  <2>1. Row(t, 0, 1) \in Rows
    BY <1>1, <1>3, SpansHave, RowType, NatGrows, 0 \in Nat
  <2>2. PercentRow(cpu[d], t) \in Rows
    <3>1. input = "procstat"
      <4>1. job[g].step \in {"idle"} \cup StepsOf(input)
        BY CallFields DEF TypesInv
      <4> QED
        BY <1>1, <4>1, Inputs DEF StepsOf
    <3>2. cpu[d].at <= t.at
      BY <1>1, <1>3, SampleFields, SampleType DEF t
    <3> QED
      BY <1>1, <1>3, <3>1, <3>2, PercentType
  <2> QED
    BY <2>1, <2>2
<1> HIDE DEF r
<1>6. /\ c \in Jobs /\ c.step = "percent" /\ c.list = job[g].list /\ c.k = job[g].k + 1
      /\ Len(c.rows) = Len(job[g].rows) + 1
  <2>1. /\ job[g] \in Jobs /\ job[g].k + 1 \in Nat \ {0} /\ Append(job[g].rows, r) \in Seq(Rows)
        /\ Len(Append(job[g].rows, r)) = Len(job[g].rows) + 1
    BY <1>1, <1>5
  <2>2. c \in Jobs
    BY <2>1 DEF Jobs
  <2>3. c.step = "percent" /\ c.list = job[g].list /\ c.k = job[g].k + 1 /\ c.rows = Append(job[g].rows, r)
    BY <1>1, <2>1 DEF Jobs
  <2> QED
    BY <2>1, <2>2, <2>3
<1> HIDE DEF c
<1>7. Sized(c)
  BY <1>1, <1>2, <1>6, SMTT(40) DEF Sized
<1>8. PluginType'
  <2>1. setup' = setup /\ now' = now /\ total' = total /\ epoch' = epoch
    BY <1>4 DEF Kept, machine
  <2>2. Samples' = Samples /\ Size' = Size /\ Devices' = Devices
    BY <2>1, SameSets
  <2>3. cpu' \in [Devices -> Samples] /\ \A e \in Devices : cpu'[e].dev = e
    BY <1>1, <1>3, <1>4 DEF PluginType
  <2> QED
    BY <1>1, <1>4, <2>1, <2>2, <2>3 DEF PluginType
<1> QED
  BY <1>4, <1>6, <1>7, <1>8, CallTypes

LEMMA ReportTypes ==
    ASSUME TypesInv, NEW g \in Gatherers, Report(g)
    PROVE  TypesInv'
<1>1. setup' = setup /\ now' = now /\ total' = total /\ epoch' = epoch /\ present' = present
      /\ UNCHANGED <<page, series>> /\ UNCHANGED plugin
  BY DEF Report, machine
<1>2. MachineType' /\ PagesType' /\ PluginType'
  BY <1>1, OthersKept
<1>3. CallsType'
  <2>1. job' = [job EXCEPT ![g] = Idle] /\ CallsType /\ MachineType
    BY DEF Report, TypesInv
  <2>2. Idle \in Jobs
    <3>1. 0 \in Spans /\ 0 \in 0 .. now /\ <<>> \in Seq(Samples) /\ <<>> \in Seq(Rows)
      BY <2>1, SpansHave, Inputs
    <3> QED
      BY <3>1 DEF Idle, Jobs
  <2>3. Sized(Idle)
    <3>1. Idle.step = "idle" /\ Len(Idle.list) = 0 /\ Size \in Nat
      BY <2>1, Inputs DEF Idle
    <3> QED
      BY <3>1 DEF Sized
  <2> QED
    BY <1>1, <2>1, <2>2, <2>3, NewCall
<1>4. ReportsType'
  <2>1. /\ job[g].alone \in BOOLEAN /\ job[g].steady \in BOOLEAN /\ job[g].from \in 0 .. now /\ job[g].rows \in Seq(Rows)
        /\ now \in 0 .. now
    BY CallFields, Inputs DEF TypesInv
  <2>2. report' \in Reports
    BY <2>1 DEF Report, Reports
  <2>3. before' \in Reports /\ Reports' = Reports
    BY <1>1, SameSets DEF Report, TypesInv, ReportsType
  <2> QED
    BY <2>2, <2>3 DEF ReportsType
<1> QED
  BY <1>2, <1>3, <1>4 DEF TypesInv

LEMMA GatherTypes ==
    ASSUME TypesInv, NEW g \in Gatherers, Gather(g)
    PROVE  TypesInv'
<1>1. CASE SelectCrash(g)
  <2>1. UNCHANGED Kept /\ UNCHANGED plugin /\ job' = job
    BY <1>1 DEF SelectCrash
  <2>2. /\ setup' = setup /\ now' = now /\ total' = total /\ epoch' = epoch /\ present' = present
        /\ UNCHANGED <<page, series>> /\ UNCHANGED history
    BY <2>1 DEF Kept, machine
  <2>3. MachineType' /\ PagesType' /\ ReportsType' /\ PluginType'
    BY <2>1, <2>2, OthersKept
  <2>4. Jobs' = Jobs /\ Size' = Size
    BY <2>2, SameSets
  <2>5. CallsType'
    BY <2>1, <2>4 DEF TypesInv, CallsType, Sized
  <2> QED
    BY <2>3, <2>5 DEF TypesInv
<1> QED
  BY <1>1, ReadTypes, SelectTypes, SelectedTypes, KeepTypes, LapseTypes, StampTypes, LoadTypes, DiffTypes, SwapTypes, PercentTypes, ReportTypes
     DEF Gather

(***************************************************************************)
(* TypeOK: the pages and the machine                                       *)
(***************************************************************************)
Epochs == \A d \in Devices : epoch'[d] \in Nat /\ epoch[d] <= epoch'[d]

LEMMA MoreSets ==
    ASSUME TypesInv, setup' = setup, Samples \subseteq Samples', now' \in Nat, now <= now', Epochs
    PROVE  /\ Jobs \subseteq Jobs' /\ Reports \subseteq Reports' /\ Seq(Samples) \subseteq Seq(Samples')
           /\ Size' = Size /\ Devices' = Devices
<1>1. Devices' = Devices /\ input' = input /\ Spans' = Spans
  BY DEF Devices, input, Spans
<1>2. Seq(Rows) \subseteq Seq(Rows') /\ Size' = Size /\ Seq(Samples) \subseteq Seq(Samples')
  <2>1. Size' = Size
    BY <1>1 DEF Size
  <2>2. Rows \subseteq Rows'
    <3>1. epoch \in [Devices -> Nat]
      BY DEF TypesInv, MachineType
    <3>2. Growths' = Growths
      BY <1>1 DEF Growths
    <3> QED
      BY <1>1, <3>1, <3>2 DEF Rows, Epochs
  <2>3. ASSUME NEW A, NEW B, A \subseteq B, NEW s \in Seq(A) PROVE s \in Seq(B)
    <3>1. Len(s) \in Nat /\ s \in [1 .. Len(s) -> A]
      OBVIOUS
    <3>2. s \in [1 .. Len(s) -> B]
      BY <2>3, <3>1
    <3> QED
      BY <3>1, <3>2
  <2> QED
    BY <2>1, <2>2, <2>3
<1>3. 0 .. now \subseteq 0 .. now'
  BY Inputs DEF TypesInv
<1>4. Reports \subseteq Reports'
  BY <1>2, <1>3 DEF Reports
<1>5. Jobs \subseteq Jobs'
  BY <1>1, <1>2, <1>3 DEF Jobs
<1> QED
  BY <1>1, <1>2, <1>4, <1>5

LEMMA UnsteadyTypes ==
    ASSUME TypesInv, setup' = setup, Samples \subseteq Samples', now' \in Nat, now <= now', Epochs,
           Unsteady \/ UNCHANGED <<job, report>>, before' = before
    PROVE  CallsType' /\ ReportsType'
<1>1. Jobs \subseteq Jobs' /\ Reports \subseteq Reports' /\ Size' = Size
  BY MoreSets
<1>2. job' \in [Gatherers -> Jobs] /\ \A g \in Gatherers : Sized(job'[g])
  <2>1. CASE Unsteady
    <3>1. ASSUME NEW h \in Gatherers PROVE [job[h] EXCEPT !.steady = FALSE] \in Jobs /\ Sized([job[h] EXCEPT !.steady = FALSE])
      <4>1. job[h] \in Jobs /\ Sized(job[h])
        BY CallFields DEF TypesInv
      <4>2. [job[h] EXCEPT !.steady = FALSE] \in Jobs
        BY <4>1 DEF Jobs
      <4>3. job[h].step = "idle" => [job[h] EXCEPT !.steady = FALSE] = Idle
        BY <4>1, IdleKept DEF Sized
      <4>4. Sized([job[h] EXCEPT !.steady = FALSE])
        BY <4>1, <4>3 DEF Sized, Jobs
      <4> QED
        BY <4>2, <4>4
    <3> QED
      BY <2>1, <3>1 DEF Unsteady
  <2>2. CASE job' = job
    BY <2>2 DEF TypesInv, CallsType
  <2> QED
    BY <2>1, <2>2
<1>3. CallsType'
  <2>1. \A g \in Gatherers : Sized(job[g])'
    BY <1>1, <1>2 DEF Sized
  <2> QED
    BY <1>1, <1>2, <2>1 DEF CallsType
<1>4. report' \in Reports /\ before' \in Reports
  <2>1. report \in Reports /\ before \in Reports
    BY DEF TypesInv, ReportsType
  <2>2. CASE Unsteady
    BY <2>1, <2>2 DEF Unsteady, Reports
  <2> QED
    BY <2>1, <2>2
<1> QED
  BY <1>1, <1>3, <1>4 DEF ReportsType

LEMMA SeriesKeeps ==
    ASSUME TypesInv, UNCHANGED PageKept
    PROVE  /\ MachineType' /\ setup' = setup /\ Samples' = Samples /\ now' = now /\ now \in Nat /\ before' = before
           /\ Size' = Size /\ Devices' = Devices
           /\ UNCHANGED plugin => PluginType'
           /\ present' = present /\ total' = total /\ epoch' = epoch
BY OthersKept, SameSets, Inputs DEF PageKept, machine, TypesInv

LEMMA ShowTypes ==
    ASSUME TypesInv, Devices' = Devices, NEW p \in Pages, NEW devs \in Seq(Devices), NEW steady \in BOOLEAN, Show(p, devs, steady)
    PROVE  PagesType'
<1>1. NoPage \in [step : {"idle", "add"}, list : Seq(Devices), k : Nat \ {0}, steady : BOOLEAN]
  <2>1. <<>> \in Seq(Devices)
    OBVIOUS
  <2> QED
    BY <2>1 DEF NoPage
<1>2. series' \in [devs : Seq(Devices), steady : BOOLEAN]
  BY DEF Show
<1> HIDE DEF NoPage
<1> QED
  BY <1>1, <1>2 DEF Show, TypesInv, PagesType

LEMMA OrdersListed ==
    ASSUME MachineType, NEW S \in SUBSET Devices
    PROVE  IsFiniteSet(S) /\ Sorted(S) \in Orders(S) /\ \A q \in Orders(S) : q \in Seq(Devices) /\ Len(q) = Cardinality(S)
<1>1. IsFiniteSet(S) /\ S \in SUBSET Nat
  BY Inputs, FS_Subset
<1>2. ASSUME NEW q \in Orders(S) PROVE q \in Seq(Devices) /\ Len(q) = Cardinality(S)
  <2>1. q \in Seq(S) /\ Len(q) = Cardinality(S)
    BY <1>1, OrderOnto
  <2> QED
    BY <2>1
<1> QED
  BY <1>1, <1>2, SortedOrder

LEMMA SeriesTypes ==
    ASSUME TypesInv, NEW p \in Pages, Series(p)
    PROVE  TypesInv'
<1>1. MachineType /\ names \in SUBSET Devices /\ present \in SUBSET Devices /\ DiskUsage \in SUBSET Devices /\ PluginType
  BY DEF TypesInv, MachineType, PluginType, DiskUsage
<1>2. UNCHANGED PageKept /\ (Unsteady \/ UNCHANGED <<job, report>>)
  BY DEF Series, PageFixed, PageProcs, PageFails, PageDisk, PageDiskIO, AddName, AddCrash, ShowDiskIO, Open
<1>3. MachineType' /\ CallsType' /\ ReportsType'
  <2>1. setup' = setup /\ Samples' = Samples /\ now' \in Nat /\ now <= now' /\ before' = before /\ MachineType'
    BY <1>1, <1>2, SeriesKeeps
  <2>2. Samples \subseteq Samples' /\ Epochs
    BY <1>1, <1>2, <2>1, SeriesKeeps DEF MachineType, Epochs
  <2> QED
    BY <1>2, <2>1, <2>2, UnsteadyTypes
<1>4. Samples' = Samples /\ Size' = Size /\ Devices' = Devices /\ now' = now /\ (UNCHANGED plugin => PluginType')
  BY <1>2, SeriesKeeps
<1>5. CASE PageFixed(p)
  <2>1. Sorted(names) \in Seq(Devices)
    BY <1>1, OrdersListed
  <2>2. PagesType' /\ PluginType'
    BY <1>4, <1>5, <2>1, ShowTypes DEF PageFixed
  <2> QED
    BY <1>3, <2>2 DEF TypesInv
<1>6. CASE PageProcs(p)
  <2>1. PICK q \in Orders(names) : Show(p, q, TRUE)
    BY <1>6 DEF PageProcs
  <2>2. q \in Seq(Devices)
    BY <1>1, <2>1, OrdersListed
  <2>3. PagesType' /\ PluginType'
    BY <1>4, <1>6, <2>1, <2>2, ShowTypes DEF PageProcs
  <2> QED
    BY <1>3, <2>3 DEF TypesInv
<1>7. CASE PageFails(p)
  <2>1. <<>> \in Seq(Devices)
    OBVIOUS
  <2>2. PagesType' /\ PluginType'
    BY <1>4, <1>7, <2>1, ShowTypes DEF PageFails
  <2> QED
    BY <1>3, <2>2 DEF TypesInv
<1>8. CASE PageDisk(p)
  <2>1. CASE DiskUsage = {}
    <3>1. path' = path /\ Show(p, <<>>, TRUE) /\ UNCHANGED <<names, cur, prev, last, cpu>>
      BY <1>8, <2>1 DEF PageDisk
    <3>2. <<>> \in Seq(Devices)
      OBVIOUS
    <3>3. PagesType' /\ PluginType'
      BY <1>4, <3>1, <3>2, ShowTypes DEF plugin
    <3> QED
      BY <1>3, <3>3 DEF TypesInv
  <2>2. CASE DiskUsage # {}
    <3>1. path' = Sorted(DiskUsage)[1] /\ Show(p, <<path'>>, TRUE) /\ UNCHANGED <<names, cur, prev, last, cpu>>
      BY <1>8, <2>2 DEF PageDisk
    <3>2. path' \in DiskUsage
      <4>1. IsFiniteSet(DiskUsage) /\ Sorted(DiskUsage) \in Orders(DiskUsage)
        BY <1>1, OrdersListed
      <4>2. Cardinality(DiskUsage) \in Nat /\ Cardinality(DiskUsage) # 0
        BY <2>2, <4>1, FS_CardinalityType, FS_EmptySet
      <4> QED
        BY <3>1, <4>1, <4>2 DEF Orders
    <3>3. <<path'>> \in Seq(Devices)
      BY <1>1, <3>2
    <3>4. PagesType'
      BY <1>4, <3>1, <3>3, ShowTypes
    <3>5. PluginType'
      BY <1>1, <1>4, <3>1, <3>2 DEF PluginType
    <3> QED
      BY <1>3, <3>4, <3>5 DEF TypesInv
  <2> QED
    BY <2>1, <2>2
<1>9. CASE PageDiskIO(p)
  <2>1. PICK q \in Orders(present) :
          page' = [o \in Pages |->
                     IF o # p THEN [page[o] EXCEPT !.steady = FALSE]
                     ELSE [NoPage EXCEPT !.step = "add", !.list = q,
                             !.steady = \A r \in Pages : page[r].step = "idle"]]
    BY <1>9 DEF PageDiskIO
  <2> DEFINE Type == [step : {"idle", "add"}, list : Seq(Devices), k : Nat \ {0}, steady : BOOLEAN]
             steady == \A r \in Pages : page[r].step = "idle"
  <2>2. q \in Seq(Devices) /\ <<>> \in Seq(Devices) /\ steady \in BOOLEAN
    BY <1>1, OrdersListed
  <2> HIDE DEF steady
  <2>3. NoPage \in Type
    BY <2>2 DEF NoPage
  <2>4. [NoPage EXCEPT !.step = "add", !.list = q, !.steady = steady] \in Type
    BY <2>2, <2>3
  <2>5. \A o \in Pages : page[o] \in Type
    BY DEF TypesInv, PagesType
  <2>6. \A o \in Pages : [page[o] EXCEPT !.steady = FALSE] \in Type
    BY <2>5
  <2>7. page' \in [Pages -> Type]
    <3> HIDE DEF Type
    <3> QED
      BY <2>1, <2>4, <2>6 DEF steady
  <2>8. series' \in [devs : Seq(Devices), steady : BOOLEAN]
    BY <1>9 DEF PageDiskIO, TypesInv, PagesType
  <2>9. PagesType'
    BY <1>4, <2>7, <2>8 DEF PagesType
  <2>10. PluginType'
    <3>1. names' = {} /\ UNCHANGED <<path, cur, prev, last, cpu>>
      BY <1>9 DEF PageDiskIO
    <3> QED
      BY <1>1, <1>4, <3>1 DEF PluginType
  <2> QED
    BY <1>3, <2>9, <2>10 DEF TypesInv
<1>10. CASE AddName(p)
  <2>1. /\ page' = [page EXCEPT ![p].k = @ + 1] /\ page[p].k <= Len(page[p].list) /\ series' = series
        /\ UNCHANGED <<path, cur, prev, last, cpu>>
    BY <1>10 DEF AddName
  <2>2. page \in [Pages -> [step : {"idle", "add"}, list : Seq(Devices), k : Nat \ {0}, steady : BOOLEAN]]
    BY DEF TypesInv, PagesType
  <2>3. page[p].list[page[p].k] \in Devices
    BY <2>1, <2>2
  <2>4. names' \subseteq Devices
    BY <1>1, <1>10, <2>3 DEF AddName
  <2>5. PluginType'
    BY <1>1, <1>4, <2>1, <2>4 DEF PluginType
  <2>6. PagesType'
    <3>1. page' \in [Pages -> [step : {"idle", "add"}, list : Seq(Devices), k : Nat \ {0}, steady : BOOLEAN]]
      <4> DEFINE Type == [step : {"idle", "add"}, list : Seq(Devices), k : Nat \ {0}, steady : BOOLEAN]
                 c == [page[p] EXCEPT !.k = @ + 1]
      <4>1. page[p] \in Type /\ page[p].k + 1 \in Nat \ {0}
        BY <2>2
      <4>2. c \in Type
        BY <4>1
      <4>3. page' = [page EXCEPT ![p] = c]
        BY <2>1, <2>2
      <4> HIDE DEF c, Type
      <4> QED
        BY <2>2, <4>2, <4>3 DEF Type
    <3>2. series' \in [devs : Seq(Devices), steady : BOOLEAN]
      BY <2>1 DEF TypesInv, PagesType
    <3> QED
      BY <1>4, <3>1, <3>2 DEF PagesType
  <2> QED
    BY <1>3, <2>5, <2>6 DEF TypesInv
<1>11. CASE AddCrash(p)
  <2>1. UNCHANGED <<page, series>> /\ UNCHANGED plugin
    BY <1>11 DEF AddCrash
  <2>2. PagesType' /\ PluginType'
    BY <1>4, <2>1 DEF TypesInv, PagesType
  <2> QED
    BY <1>3, <2>2 DEF TypesInv
<1>12. CASE ShowDiskIO(p)
  <2>1. PICK q \in Orders(names \cap Range(page[p].list)) : Show(p, q, page[p].steady)
    BY <1>12 DEF ShowDiskIO
  <2>2. q \in Seq(Devices) /\ page[p].steady \in BOOLEAN
    <3>1. names \cap Range(page[p].list) \in SUBSET Devices
      BY <1>1
    <3>2. page[p].steady \in BOOLEAN
      BY DEF TypesInv, PagesType
    <3> QED
      BY <1>1, <2>1, <3>1, <3>2, OrdersListed
  <2>3. PagesType' /\ PluginType'
    BY <1>4, <1>12, <2>1, <2>2, ShowTypes DEF ShowDiskIO
  <2> QED
    BY <1>3, <2>3 DEF TypesInv
<1> QED
  BY <1>5, <1>6, <1>7, <1>8, <1>9, <1>10, <1>11, <1>12 DEF Series

LEMMA TickTypes ==
    ASSUME TypesInv, Tick
    PROVE  TypesInv'
<1>1. PICK S \in SUBSET present : total' = [d \in Devices |-> IF d \in S THEN total[d] + 1 ELSE total[d]]
  BY DEF Tick
<1>2. /\ now' = now + 1 /\ now < setup.time /\ setup' = setup /\ present' = present /\ epoch' = epoch
      /\ UNCHANGED <<names, path, cur, prev, last, cpu, page, series>> /\ UNCHANGED <<job, report>> /\ before' = before
  BY DEF Tick, plugin, history
<1>3. MachineType /\ PluginType /\ PagesType /\ total \in [Devices -> Nat] /\ epoch \in [Devices -> Nat] /\ Devices' = Devices
  BY <1>2 DEF TypesInv, MachineType, Devices
<1>4. now \in Nat /\ now' \in Nat /\ now <= now' /\ now' \in 1 .. setup.time
  BY <1>2, <1>3, Inputs
<1>5. total' \in [Devices -> Nat] /\ \A d \in Devices : total[d] <= total'[d] /\ total'[d] <= total[d] + 1
  BY <1>1, <1>3
<1>6. Samples \subseteq Samples'
  <2>1. ASSUME NEW s \in Samples PROVE s \in Samples'
    <3>1. /\ s.dev \in Devices /\ s.epoch \in Nat /\ s.total \in Nat /\ s.at \in 0 .. now
          /\ s.epoch <= epoch[s.dev] /\ total[s.dev] \in Nat /\ s.at \in Nat
          /\ s.epoch = epoch[s.dev] => s.total <= total[s.dev] /\ total[s.dev] - s.total <= now - s.at
      BY <1>3, SampleFields
    <3>2. s \in [dev : Devices, epoch : Nat, total : Nat, at : 0 .. now']
      <4>1. s \in [dev : Devices, epoch : Nat, total : Nat, at : 0 .. now] /\ s.at \in 0 .. now'
        BY <1>4, <3>1 DEF Samples
      <4> QED
        BY <4>1
    <3>3. total'[s.dev] \in Nat /\ total[s.dev] <= total'[s.dev] /\ total'[s.dev] <= total[s.dev] + 1
      BY <1>5, <3>1
    <3>4. s.epoch = epoch[s.dev] => s.total <= total'[s.dev] /\ total'[s.dev] - s.total <= now' - s.at
      BY <1>2, <1>4, <3>1, <3>3
    <3> QED
      BY <1>2, <1>3, <3>1, <3>2, <3>4 DEF Samples
  <2> QED
    BY <2>1
<1>7. Epochs
  BY <1>2, <1>3 DEF Epochs
<1>8. CallsType' /\ ReportsType'
  BY <1>2, <1>4, <1>6, <1>7, UnsteadyTypes
<1>9. MachineType'
  BY <1>2, <1>3, <1>4, <1>5 DEF MachineType
<1>10. Seq(Samples) \subseteq Seq(Samples') /\ Size' = Size
  BY <1>2, <1>4, <1>6, <1>7, MoreSets
<1>11. PluginType'
  <2>1. last' \in 0 .. now' /\ cpu' \in [Devices -> Samples'] /\ \A d \in Devices : cpu'[d].dev = d
    BY <1>2, <1>3, <1>4, <1>6 DEF PluginType
  <2> QED
    BY <1>2, <1>3, <1>10, <2>1 DEF PluginType
<1>12. PagesType'
  BY <1>2, <1>3 DEF PagesType
<1> QED
  BY <1>8, <1>9, <1>11, <1>12 DEF TypesInv

LEMMA ChangeTypes ==
    ASSUME TypesInv, NEW d \in Devices, Change(d)
    PROVE  TypesInv'
<1>1. /\ now' = now /\ setup' = setup /\ UNCHANGED <<names, path, cur, prev, last, cpu>> /\ Unsteady /\ before' = before
      /\ series' = [series EXCEPT !.steady = FALSE] /\ page' = [p \in Pages |-> [page[p] EXCEPT !.steady = FALSE]]
      /\ IF d \in present
         THEN present' = present \ {d} /\ UNCHANGED <<total, epoch>>
         ELSE present' = present \cup {d} /\ total' = [total EXCEPT ![d] = 0] /\ epoch' = [epoch EXCEPT ![d] = @ + 1]
  BY DEF Change, plugin
<1>2. MachineType /\ PluginType /\ PagesType /\ total \in [Devices -> Nat] /\ epoch \in [Devices -> Nat] /\ Devices' = Devices
  BY <1>1 DEF TypesInv, MachineType, Devices
<1>3. now \in Nat
  BY <1>2, Inputs
<1>4. /\ total' \in [Devices -> Nat] /\ epoch' \in [Devices -> Nat] /\ present' \subseteq Devices
      /\ \A e \in Devices : epoch[e] <= epoch'[e] /\ (epoch'[e] # epoch[e] \/ total'[e] = total[e])
  <2>1. CASE d \in present
    BY <1>1, <1>2, <2>1 DEF MachineType
  <2>2. CASE d \notin present
    BY <1>1, <1>2, <2>2 DEF MachineType
  <2> QED
    BY <2>1, <2>2
<1>5. Samples \subseteq Samples'
  <2>1. ASSUME NEW s \in Samples PROVE s \in Samples'
    <3>1. /\ s \in [dev : Devices, epoch : Nat, total : Nat, at : 0 .. now] /\ s.dev \in Devices /\ s.epoch \in Nat
          /\ s.epoch <= epoch[s.dev] /\ epoch[s.dev] \in Nat
          /\ s.epoch = epoch[s.dev] => s.total <= total[s.dev] /\ total[s.dev] - s.total <= now - s.at
      BY <1>2, SampleFields DEF Samples
    <3>2. epoch'[s.dev] \in Nat /\ epoch[s.dev] <= epoch'[s.dev] /\ (epoch'[s.dev] # epoch[s.dev] \/ total'[s.dev] = total[s.dev])
      BY <1>4, <3>1
    <3>3. s.epoch <= epoch'[s.dev] /\ (s.epoch = epoch'[s.dev] => s.epoch = epoch[s.dev] /\ total'[s.dev] = total[s.dev])
      BY <3>1, <3>2
    <3> QED
      BY <1>1, <1>2, <3>1, <3>3 DEF Samples
  <2> QED
    BY <2>1
<1>6. Epochs
  BY <1>4 DEF Epochs
<1>7. CallsType' /\ ReportsType'
  <2>1. now' \in Nat /\ now <= now'
    BY <1>1, <1>3
  <2> QED
    BY <1>1, <1>5, <1>6, <2>1, UnsteadyTypes
<1>8. MachineType'
  BY <1>1, <1>2, <1>4 DEF MachineType
<1>9. Seq(Samples) \subseteq Seq(Samples') /\ Size' = Size
  BY <1>1, <1>3, <1>5, <1>6, MoreSets
<1>10. PluginType'
  <2>1. cpu' \in [Devices -> Samples']
    BY <1>1, <1>2, <1>5 DEF PluginType
  <2> QED
    BY <1>1, <1>2, <1>9, <2>1 DEF PluginType
<1>11. PagesType'
  <2>1. series' \in [devs : Seq(Devices), steady : BOOLEAN]
    BY <1>1, <1>2 DEF PagesType
  <2>2. page' \in [Pages -> [step : {"idle", "add"}, list : Seq(Devices), k : Nat \ {0}, steady : BOOLEAN]]
    BY <1>1, <1>2, ZenonT(40) DEF PagesType
  <2> QED
    BY <1>2, <2>1, <2>2 DEF PagesType
<1> QED
  BY <1>7, <1>8, <1>10, <1>11 DEF TypesInv

LEMMA TypesInit ==
    ASSUME Init
    PROVE  TypesInv
<1>1. setup \in Setups /\ now = 1 /\ path = 0 /\ cur = <<>> /\ prev = <<>> /\ last = 0
  BY DEF Init
<1>2. IsFiniteSet(Devices) /\ Size \in Nat /\ 1 \in 1 .. setup.time /\ Start \in Nat
  <2>1. IsFiniteSet(Devices) /\ setup.time \in Nat \ {0} /\ Start \in Nat
    BY <1>1, SetupsAssumption, CountersAssumption DEF Devices
  <2> QED
    BY <2>1, FS_CardinalityType DEF Size
<1>3. MachineType
  <2>1. present \subseteq Devices
    BY DEF Init
  <2>2. total \in [Devices -> Nat] /\ epoch \in [Devices -> Nat]
    BY <1>2 DEF Init
  <2> QED
    BY <1>1, <1>2, <2>1, <2>2 DEF MachineType
<1>4. names \subseteq Devices
  BY <1>3 DEF Init, InitNet, InitProcstat, UpdateProcesses, MachineType
<1>5. cpu \in [Devices -> Samples] /\ \A d \in Devices : cpu[d].dev = d
  <2>1. ASSUME NEW d \in Devices PROVE Sample(d) \in Samples /\ [Sample(d) EXCEPT !.at = 0] \in Samples
    <3>1. epoch[d] \in Nat /\ total[d] \in Nat /\ now = 1
      BY <1>1, <1>3 DEF MachineType
    <3>2. [Sample(d) EXCEPT !.at = 0] = [dev |-> d, epoch |-> epoch[d], total |-> total[d], at |-> 0]
      BY DEF Sample
    <3>3. [dev |-> d, epoch |-> epoch[d], total |-> total[d], at |-> 0] \in Samples
      BY <3>1 DEF Samples
    <3> QED
      BY <1>3, <3>2, <3>3, SampleType
  <2>2. cpu = [d \in Devices |-> IF input = "system" THEN Sample(d) ELSE [Sample(d) EXCEPT !.at = 0]]
    BY DEF Init, InitSystem
  <2>3. \A d \in Devices : Sample(d).dev = d /\ [Sample(d) EXCEPT !.at = 0].dev = d
    BY DEF Sample
  <2> HIDE DEF Sample
  <2> QED
    BY <2>1, <2>2, <2>3
<1>6. PluginType
  <2>1. <<>> \in Seq(Samples) /\ Len(<<>>) <= Size /\ 0 \in 0 .. now
    BY <1>1, <1>2
  <2> QED
    BY <1>1, <1>4, <1>5, <2>1 DEF PluginType
<1>7. CallsType
  <2>1. 0 \in Spans /\ 0 \in 0 .. now /\ <<>> \in Seq(Samples) /\ <<>> \in Seq(Rows)
    BY <1>1, <1>3, SpansHave
  <2>2. Idle \in Jobs
    BY <2>1 DEF Idle, Jobs
  <2>3. Sized(Idle)
    <3>1. Idle.step = "idle" /\ Len(Idle.list) = 0
      BY DEF Idle
    <3> QED
      BY <1>2, <3>1 DEF Sized
  <2>4. job = [g \in Gatherers |-> Idle]
    BY DEF Init
  <2> QED
    BY <2>2, <2>3, <2>4 DEF CallsType
<1>8. PagesType
  <2>1. <<>> \in Seq(Devices)
    OBVIOUS
  <2>2. NoPage \in [step : {"idle", "add"}, list : Seq(Devices), k : Nat \ {0}, steady : BOOLEAN]
    BY <2>1 DEF NoPage
  <2>3. page = [p \in Pages |-> NoPage] /\ series = [devs |-> <<>>, steady |-> FALSE]
    BY DEF Init
  <2> QED
    BY <2>1, <2>2, <2>3 DEF PagesType
<1>9. ReportsType
  <2>1. <<>> \in Seq(Rows) /\ 0 \in 0 .. now
    BY <1>1
  <2>2. NoReport \in Reports
    BY <2>1 DEF NoReport, Reports
  <2> QED
    BY <2>2 DEF ReportsType, Init
<1> QED
  BY <1>3, <1>6, <1>7, <1>8, <1>9 DEF TypesInv

LEMMA TypesStep ==
    ASSUME TypesInv, [Next]_vars
    PROVE  TypesInv'
<1>1. CASE UNCHANGED vars
  <2>1. setup' = setup /\ now' = now /\ total' = total /\ epoch' = epoch /\ present' = present /\ UNCHANGED plugin
        /\ UNCHANGED <<page, series>> /\ UNCHANGED <<job, report>> /\ before' = before /\ UNCHANGED history
    BY <1>1 DEF vars, machine, history
  <2>2. MachineType' /\ PluginType' /\ PagesType' /\ ReportsType'
    BY <2>1, OthersKept
  <2>3. Jobs' = Jobs /\ Size' = Size
    BY <2>1, SameSets
  <2>4. CallsType'
    BY <2>1, <2>3 DEF TypesInv, CallsType, Sized
  <2> QED
    BY <2>2, <2>4 DEF TypesInv
<1> QED
  BY <1>1, GatherTypes, SeriesTypes, ChangeTypes, TickTypes DEF Next, TypesInv

LEMMA TypesImply ==
    ASSUME TypesInv
    PROVE  TypeOK
<1>1. ASSUME NEW g \in Gatherers
      PROVE  (\A i \in DOMAIN job[g].rows : RowOK(job[g].rows[i])) /\ Len(job[g].rows) <= Cardinality(Devices)
  <2>1. job[g].rows \in Seq(Rows) /\ Sized(job[g]) /\ job[g].step \in {"idle"} \cup StepsOf(input) /\ job[g].list \in Seq(Samples)
    BY CallFields DEF TypesInv
  <2>2. \A i \in DOMAIN job[g].rows : job[g].rows[i] \in Rows
    BY <2>1
  <2>3. \A r \in Rows : RowOK(r)
    BY DEF Rows, RowOK, Spans
  <2>4. Size \in Nat /\ job[g].k \in Nat \ {0} /\ Len(job[g].rows) \in Nat /\ Len(job[g].list) \in Nat
    BY <2>1, Inputs, CallFields DEF TypesInv
  <2>5. job[g].step \in {"idle", "keep", "store", "since", "stamp", "load", "diff", "select", "report", "swap", "percent"}
    BY <2>1 DEF StepsOf
  <2>6. Idle.rows = <<>> /\ Len(<<>>) = 0
    BY DEF Idle
  <2>7. Len(job[g].rows) <= Size
    BY <2>1, <2>4, <2>5, <2>6 DEF Sized
  <2> QED
    BY <2>2, <2>3, <2>7 DEF Size
<1> QED
  BY <1>1 DEF TypesInv, PluginType, PagesType, TypeOK

\* No row but one of a process has a negative growth, none a span that is out of its bounds,
\* and no report has more rows than there are devices, whichever calls of Gather and of
\* Series run at once.
\* (Gather of the plugins, internal.Adjust)
THEOREM HardwareTypeCorrect == Spec => []TypeOK
<1>1. Init => TypesInv
  BY TypesInit
<1>2. TypesInv /\ [Next]_vars => TypesInv'
  BY TypesStep
<1>3. TypesInv => TypeOK
  BY TypesImply
<1> QED
  BY <1>1, <1>2, <1>3, PTL DEF Spec

(***************************************************************************)
(* What a step does to a call                                              *)
(***************************************************************************)
Others(g) == \A h \in Gatherers \ {g} : job'[h] = job[h]

\* These stay, whichever step of a call it is.
Same(g) == /\ job'[g].alone = job[g].alone /\ job'[g].steady = job[g].steady /\ job'[g].from = job[g].from
           /\ setup' = setup /\ now' = now /\ present' = present /\ total' = total /\ epoch' = epoch
           /\ page' = page /\ series' = series /\ report' = report /\ before' = before
           /\ names' = names /\ path' = path

LEMMA SelectEffect ==
    ASSUME TypesInv, NEW g \in Gatherers, Select(g)
    PROVE  /\ Others(g) /\ Same(g) /\ UNCHANGED plugin
           /\ job[g].step = "select" /\ More(g)
           /\ job'[g].step = "select" /\ job'[g].list = job[g].list /\ job'[g].k = job[g].k + 1
           /\ job'[g].stat = IF Chosen(This(g).dev) THEN Append(job[g].stat, This(g)) ELSE job[g].stat
           /\ job'[g].rows = job[g].rows /\ job'[g].span = job[g].span
<1> DEFINE stat == IF Chosen(This(g).dev) THEN Append(job[g].stat, This(g)) ELSE job[g].stat
<1>1. /\ job' = [job EXCEPT ![g].k = @ + 1, ![g].stat = stat] /\ UNCHANGED <<Kept, plugin>>
      /\ job[g].step = "select" /\ More(g) /\ job \in [Gatherers -> Jobs]
  BY DEF Select, At, TypesInv, CallsType
<1> HIDE DEF stat
<1>2. UNCHANGED <<setup, now, present, total, epoch, page, series, report, before, names, path>>
  BY <1>1 DEF Kept, machine, history, plugin
<1> QED
  BY <1>1, <1>2 DEF Others, Same, Jobs, stat

LEMMA SelectedEffect ==
    ASSUME TypesInv, NEW g \in Gatherers, Selected(g)
    PROVE  /\ Others(g) /\ Same(g) /\ UNCHANGED plugin
           /\ job[g].step = "select" /\ ~More(g)
           /\ job'[g].k = job[g].k /\ job'[g].stat = job[g].stat /\ job'[g].span = job[g].span
           /\ input = "diskio" => job'[g].step = "keep" /\ job'[g].list = job[g].stat /\ job'[g].rows = job[g].rows
           /\ input # "diskio" => /\ job'[g].step = "report" /\ job'[g].list = job[g].list
                                  /\ job'[g].rows = [i \in DOMAIN job[g].stat |-> Row(job[g].stat[i], job[g].stat[i].total, 0)]
<1> DEFINE stat == job[g].stat
           rows == [i \in DOMAIN stat |-> Row(stat[i], stat[i].total, 0)]
           c == IF input = "diskio" THEN [job[g] EXCEPT !.step = "keep", !.list = stat]
                ELSE [job[g] EXCEPT !.step = "report", !.rows = rows]
<1>1. /\ job' = [job EXCEPT ![g] = c] /\ UNCHANGED <<Kept, plugin>>
      /\ job[g].step = "select" /\ ~More(g) /\ job \in [Gatherers -> Jobs]
  BY DEF Selected, At, TypesInv, CallsType
<1> HIDE DEF rows
<1>2. UNCHANGED <<setup, now, present, total, epoch, page, series, report, before, names, path>>
  BY <1>1 DEF Kept, machine, history, plugin
<1>3. job'[g] = c /\ Others(g)
  BY <1>1 DEF Others
<1>4. CASE input = "diskio"
  BY <1>1, <1>2, <1>3, <1>4 DEF Same, Jobs
<1>5. CASE input # "diskio"
  BY <1>1, <1>2, <1>3, <1>5 DEF Same, Jobs, rows
<1> QED
  BY <1>4, <1>5

LEMMA KeepEffect ==
    ASSUME TypesInv, NEW g \in Gatherers, Keep(g)
    PROVE  /\ Others(g) /\ Same(g) /\ cur' = cur /\ prev' = cur /\ last' = last /\ cpu' = cpu
           /\ job[g].step = "keep" /\ job'[g].step = "store"
           /\ job'[g].list = job[g].list /\ job'[g].k = job[g].k /\ job'[g].rows = job[g].rows /\ job'[g].span = job[g].span
<1>1. /\ job' = [job EXCEPT ![g].step = "store"] /\ UNCHANGED Kept /\ UNCHANGED <<names, path, cur, last, cpu>> /\ prev' = cur
      /\ job[g].step = "keep" /\ job \in [Gatherers -> Jobs]
  BY DEF Keep, At, TypesInv, CallsType
<1> QED
  BY <1>1 DEF Others, Same, Jobs, Kept, machine, history

LEMMA StoreEffect ==
    ASSUME TypesInv, NEW g \in Gatherers, Store(g)
    PROVE  /\ Others(g) /\ Same(g) /\ cur' = job[g].list /\ prev' = prev /\ last' = last /\ cpu' = cpu
           /\ job[g].step = "store" /\ job'[g].step = "since"
           /\ job'[g].list = job[g].list /\ job'[g].k = job[g].k /\ job'[g].rows = job[g].rows /\ job'[g].span = job[g].span
<1>1. /\ job' = [job EXCEPT ![g].step = "since"] /\ UNCHANGED Kept /\ UNCHANGED <<names, path, prev, last, cpu>>
      /\ cur' = job[g].list /\ job[g].step = "store" /\ job \in [Gatherers -> Jobs]
  BY DEF Store, At, TypesInv, CallsType
<1> QED
  BY <1>1 DEF Others, Same, Jobs, Kept, machine, history

LEMMA LapseEffect ==
    ASSUME TypesInv, NEW g \in Gatherers, Lapse(g)
    PROVE  /\ Others(g) /\ Same(g) /\ UNCHANGED plugin
           /\ job[g].step = "since" /\ job'[g].step = "stamp"
           /\ job'[g].list = job[g].list /\ job'[g].k = job[g].k /\ job'[g].rows = job[g].rows /\ job'[g].span = Since(last)
<1> DEFINE c == [job[g] EXCEPT !.step = "stamp", !.span = Since(last)]
<1>1. /\ job' = [job EXCEPT ![g] = c] /\ UNCHANGED Kept /\ UNCHANGED plugin
      /\ job[g].step = "since" /\ job \in [Gatherers -> Jobs]
  BY DEF Lapse, At, TypesInv, CallsType
<1>2. UNCHANGED <<setup, now, present, total, epoch, page, series, report, before, names, path>>
  BY <1>1 DEF Kept, machine, history, plugin
<1>3. job'[g] = c /\ Others(g)
  BY <1>1 DEF Others
<1> HIDE DEF Since
<1> QED
  BY <1>1, <1>2, <1>3 DEF Same, Jobs

LEMMA StampEffect ==
    ASSUME TypesInv, NEW g \in Gatherers, Stamp(g)
    PROVE  /\ Others(g) /\ Same(g) /\ cur' = cur /\ prev' = prev /\ last' = now /\ cpu' = cpu
           /\ job[g].step = "stamp" /\ job'[g].step = "load"
           /\ job'[g].list = job[g].list /\ job'[g].k = job[g].k /\ job'[g].rows = job[g].rows /\ job'[g].span = job[g].span
<1>1. /\ job' = [job EXCEPT ![g].step = "load"] /\ UNCHANGED Kept /\ UNCHANGED <<names, path, cur, prev, cpu>>
      /\ last' = now /\ job[g].step = "stamp" /\ job \in [Gatherers -> Jobs]
  BY DEF Stamp, At, TypesInv, CallsType
<1> QED
  BY <1>1 DEF Others, Same, Jobs, Kept, machine, history

LEMMA LoadEffect ==
    ASSUME TypesInv, NEW g \in Gatherers, Load(g)
    PROVE  /\ Others(g) /\ Same(g) /\ UNCHANGED plugin
           /\ job[g].step = "load" /\ job'[g].step = "diff"
           /\ job'[g].list = cur /\ job'[g].k = 1 /\ job'[g].rows = job[g].rows /\ job'[g].span = job[g].span
<1> DEFINE c == [job[g] EXCEPT !.step = "diff", !.list = cur, !.k = 1]
<1>1. /\ job' = [job EXCEPT ![g] = c] /\ UNCHANGED Kept /\ UNCHANGED plugin
      /\ job[g].step = "load" /\ job \in [Gatherers -> Jobs]
  BY DEF Load, At, TypesInv, CallsType
<1>2. UNCHANGED <<setup, now, present, total, epoch, page, series, report, before, names, path>>
  BY <1>1 DEF Kept, machine, history, plugin
<1>3. job'[g] = c /\ Others(g)
  BY <1>1 DEF Others
<1> QED
  BY <1>1, <1>2, <1>3 DEF Same, Jobs

LEMMA DiffEffect ==
    ASSUME TypesInv, NEW g \in Gatherers, Diff(g)
    PROVE  /\ Others(g) /\ Same(g) /\ UNCHANGED plugin
           /\ job[g].step = "diff" /\ job'[g].step = "diff" /\ More(g)
           /\ job'[g].list = job[g].list /\ job'[g].k = job[g].k + 1 /\ job'[g].span = job[g].span
           /\ job'[g].rows = Append(job[g].rows, Row(This(g), StatDiff(This(g)), job[g].span))
<1> DEFINE r == Row(This(g), StatDiff(This(g)), job[g].span)
<1>1. /\ job' = [job EXCEPT ![g].k = @ + 1, ![g].rows = Append(@, r)] /\ UNCHANGED <<Kept, plugin>>
      /\ job[g].step = "diff" /\ More(g) /\ job \in [Gatherers -> Jobs]
  BY DEF Diff, At, TypesInv, CallsType
<1> HIDE DEF r
<1>2. UNCHANGED <<setup, now, present, total, epoch, page, series, report, before, names, path>>
  BY <1>1 DEF Kept, machine, history, plugin
<1> QED
  BY <1>1, <1>2 DEF Others, Same, Jobs, r

LEMMA SwapEffect ==
    ASSUME TypesInv, NEW g \in Gatherers, SwapTimes(g)
    PROVE  LET t == job[g].list[1] IN
           /\ Others(g) /\ Same(g) /\ cur' = cur /\ prev' = prev /\ last' = last /\ cpu' = [cpu EXCEPT ![t.dev] = t]
           /\ job[g].step = "swap" /\ job'[g].step = "report"
           /\ job'[g].list = job[g].list /\ job'[g].rows = <<BusyRow(cpu[t.dev], t)>>
<1> DEFINE t == job[g].list[1]
           rows == <<BusyRow(cpu[t.dev], t)>>
<1>1. /\ job' = [job EXCEPT ![g].step = "report", ![g].rows = rows] /\ UNCHANGED Kept
      /\ UNCHANGED <<names, path, cur, prev, last>> /\ cpu' = [cpu EXCEPT ![t.dev] = t]
      /\ job[g].step = "swap" /\ job \in [Gatherers -> Jobs]
  BY DEF SwapTimes, At, TypesInv, CallsType
<1> HIDE DEF rows
<1>2. UNCHANGED <<setup, now, present, total, epoch, page, series, report, before, names, path>>
  BY <1>1 DEF Kept, machine, history
<1> QED
  BY <1>1, <1>2 DEF Others, Same, Jobs, rows

LEMMA PercentEffect ==
    ASSUME TypesInv, NEW g \in Gatherers, Percent(g)
    PROVE  LET d == This(g).dev
               t == Sample(d)
           IN
           /\ Others(g) /\ Same(g) /\ cur' = cur /\ prev' = prev /\ last' = last
           /\ cpu' = IF d \in present THEN [cpu EXCEPT ![d] = t] ELSE cpu
           /\ job[g].step = "percent" /\ job'[g].step = "percent" /\ More(g)
           /\ job'[g].list = job[g].list /\ job'[g].k = job[g].k + 1
           /\ job'[g].rows = Append(job[g].rows, IF d \notin present \/ FirstPercent(d) THEN Row(t, 0, 1) ELSE PercentRow(cpu[d], t))
<1> DEFINE d == This(g).dev
           t == Sample(d)
           r == IF d \notin present \/ FirstPercent(d) THEN Row(t, 0, 1) ELSE PercentRow(cpu[d], t)
<1>1. /\ job' = [job EXCEPT ![g].k = @ + 1, ![g].rows = Append(@, r)] /\ UNCHANGED Kept
      /\ UNCHANGED <<names, path, cur, prev, last>> /\ cpu' = IF d \in present THEN [cpu EXCEPT ![d] = t] ELSE cpu
      /\ job[g].step = "percent" /\ More(g) /\ job \in [Gatherers -> Jobs]
  BY DEF Percent, At, TypesInv, CallsType
<1> HIDE DEF r
<1>2. UNCHANGED <<setup, now, present, total, epoch, page, series, report, before, names, path>>
  BY <1>1 DEF Kept, machine, history
<1>3. Others(g) /\ Same(g)
  BY <1>1, <1>2 DEF Others, Same, Jobs
<1>4. /\ job'[g].step = "percent" /\ job'[g].list = job[g].list /\ job'[g].k = job[g].k + 1
      /\ job'[g].rows = Append(job[g].rows, r)
  BY <1>1 DEF Jobs
<1> QED
  BY <1>1, <1>3, <1>4 DEF r

LEMMA ReportEffect ==
    ASSUME TypesInv, NEW g \in Gatherers, Report(g)
    PROVE  /\ Others(g) /\ job'[g] = Idle /\ UNCHANGED plugin
           /\ UNCHANGED <<setup, now, present, total, epoch, page, series, names, path>>
           /\ before' = report
           /\ report' = [alone |-> job[g].alone, steady |-> job[g].steady, from |-> job[g].from,
                         to |-> now, rows |-> job[g].rows]
           /\ job[g].step = "report" \/ (job[g].step \in {"diff", "percent"} /\ ~More(g))
BY DEF Report, At, TypesInv, CallsType, Others, machine, plugin

(***************************************************************************)
(* AloneExact                                                              *)
(***************************************************************************)
Matches(s, r) == s.dev = r.dev /\ s.epoch = r.epoch /\ s.total = r.total

Distinct(list) == \A i, j \in DOMAIN list : list[i].dev = list[j].dev => i = j

\* s is not older than p.
Later(p, s) ==
    p.dev = s.dev /\ p.epoch = s.epoch =>
      p.at <= s.at /\ p.total <= s.total /\ s.total - p.total <= s.at - p.at

LaterAll(base, list) == \A j \in DOMAIN base, i \in DOMAIN list : Later(base[j], list[i])

\* The samples behind the rows of R.
Behind(list, R) ==
    /\ Distinct(list) /\ Len(list) = Len(R.rows)
    /\ \A i \in DOMAIN R.rows : Matches(list[i], R.rows[i]) /\ list[i].at \in R.from .. R.to

IdleAll == \A g \in Gatherers : job[g].step = "idle"

\* A call that is alone: the others are idle, and it knows what it began with.
AloneInv ==
    /\ report.alone => 1 <= report.from /\ report.from <= report.to
    /\ \A g \in Gatherers : job[g].alone =>
         /\ \A h \in Gatherers \ {g} : job[h].step = "idle"
         /\ job[g].step # "idle" /\ 1 <= job[g].from
         /\ \A i \in DOMAIN job[g].list : job[g].from <= job[g].list[i].at

\* The rows of g so far are right.
RowsExact(g) ==
    \A i \in DOMAIN job[g].rows, j \in DOMAIN report.rows :
      LET r == job[g].rows[i]
          b == report.rows[j]
      IN  r.dev = b.dev /\ r.epoch = b.epoch /\ Running(r)
            => Exact(r, b, job[g].from - report.to, now - report.from)

DiffOwn(g) ==
    /\ Distinct(job[g].list)
    /\ job[g].step \in {"select", "keep"} => LaterAll(cur, job[g].list)
    /\ job[g].step = "select" =>
         /\ Distinct(job[g].stat)
         /\ \A i \in DOMAIN job[g].stat : \E j \in 1 .. job[g].k - 1 : job[g].stat[i] = job[g].list[j]
    /\ job[g].step \in {"store", "since", "stamp", "load", "diff"} => LaterAll(prev, job[g].list)
    /\ job[g].step \in {"since", "stamp", "load", "diff"} => cur = job[g].list
    /\ job[g].step \in {"load", "diff"} => job[g].from <= last
    /\ job[g].step = "diff" => \A i \in DOMAIN job[g].rows : Matches(job[g].list[i], job[g].rows[i])

\* What the last report began with is what the next call, when it is alone, compares with.
DiffBase(g) ==
    /\ job[g].step \in {"select", "keep"} => Behind(cur, report)
    /\ job[g].step \in {"store", "since", "stamp", "load", "diff"} => Behind(prev, report)
    /\ job[g].step \in {"stamp", "load", "diff"} => job[g].span \in (job[g].from - report.to) .. (now - report.from)
    /\ job[g].step \notin {"load", "diff"} => last \in report.from .. report.to

DiffInv ==
    input \in {"net", "diskio"} =>
      /\ \A g \in Gatherers : job[g].alone => DiffOwn(g)
      /\ report.alone =>
           /\ IdleAll => Behind(cur, report) /\ last \in report.from .. report.to
           /\ \A g \in Gatherers : job[g].alone => DiffBase(g) /\ RowsExact(g)

\* The last times of the CPU, or of a process, are those of this row.
Stored(r, from, to) == Running(r) => Matches(cpu[r.dev], r) /\ cpu[r.dev].at \in from .. to

NotYet(r) == \A g \in Gatherers : \A i \in DOMAIN job[g].rows : job[g].rows[i].dev # r.dev

BusyOwn(g) ==
    /\ Distinct(job[g].list)
    /\ job[g].step = "swap" => Later(cpu[job[g].list[1].dev], job[g].list[1])
    /\ \A i \in DOMAIN job[g].rows : Stored(job[g].rows[i], job[g].from, now)
    /\ job[g].step = "percent" => \A i \in DOMAIN job[g].rows : job[g].rows[i].dev = job[g].list[i].dev

BusyInv ==
    input \in {"system", "procstat"} =>
      /\ \A g \in Gatherers : job[g].alone => BusyOwn(g)
      /\ report.alone /\ (IdleAll \/ \E g \in Gatherers : job[g].alone) =>
           \A j \in DOMAIN report.rows : NotYet(report.rows[j]) => Stored(report.rows[j], report.from, report.to)
      /\ report.alone => \A g \in Gatherers : job[g].alone => RowsExact(g)

ExactInv == AloneInv /\ DiffInv /\ BusyInv /\ AloneExact

LEMMA WrapExact ==
    ASSUME Width \in Nat \ {0}, NEW c \in Nat, NEW p \in Nat, p <= c, c - p < Width
    PROVE  Adjust(c % Width, p % Width) = c - p - (IF c \div Width > p \div Width THEN 1 ELSE 0)
<1> DEFINE W == Width
           q1 == c \div W
           r1 == c % W
           q2 == p \div W
           r2 == p % W
<1>1. /\ q1 \in Nat /\ r1 \in 0 .. W - 1 /\ c = W * q1 + r1
      /\ q2 \in Nat /\ r2 \in 0 .. W - 1 /\ p = W * q2 + r2
  BY Division
<1> HIDE DEF q1, r1, q2, r2
<1>2. q1 = q2 \/ q1 = q2 + 1
  <2>1. CASE q1 < q2
    <3>1. PICK m \in Nat : q2 = q1 + 1 + m
      <4>1. q2 - q1 - 1 \in Nat /\ q2 = q1 + 1 + (q2 - q1 - 1)
        BY <1>1, <2>1
      <4> QED
        BY <4>1
    <3>2. W * q2 = W * q1 + W + W * m /\ W * m >= 0 /\ W * q1 \in Nat
      BY <1>1, <3>1
    <3> QED
      BY <1>1, <3>2
  <2>2. CASE q1 > q2 + 1
    <3>1. PICK m \in Nat : q1 = q2 + 2 + m
      <4>1. q1 - q2 - 2 \in Nat /\ q1 = q2 + 2 + (q1 - q2 - 2)
        BY <1>1, <2>2
      <4> QED
        BY <4>1
    <3>2. W * q1 = W * q2 + 2 * W + W * m /\ W * m >= 0 /\ W * q2 \in Nat
      BY <1>1, <3>1
    <3> QED
      BY <1>1, <3>2
  <2> QED
    BY <1>1, <2>1, <2>2
<1>3. CASE q1 = q2
  <2>1. W * q1 = W * q2 /\ W * q2 \in Nat
    BY <1>1, <1>3
  <2>2. r1 - r2 = c - p /\ r1 >= r2
    BY <1>1, <2>1
  <2>3. Adjust(r1, r2) = c - p
    BY <2>2 DEF Adjust
  <2> QED
    BY <1>1, <1>3, <2>3 DEF q1, q2, r1, r2
<1>4. CASE q1 = q2 + 1
  <2>1. W * q1 = W * q2 + W /\ W * q2 \in Nat
    BY <1>1, <1>4
  <2>2. W + r1 - r2 = c - p /\ ~(r1 >= r2)
    BY <1>1, <2>1
  <2>3. Adjust(r1, r2) = r1 + (W - 1) - r2
    BY <2>2 DEF Adjust
  <2>4. Adjust(r1, r2) = c - p - 1
    BY <1>1, <2>2, <2>3
  <2> QED
    BY <1>1, <1>4, <2>4 DEF q1, q2, r1, r2
<1> QED
  BY <1>2, <1>3, <1>4

\* A step of a call disturbs no other: either it is alone or no call is.
LEMMA CallExact ==
    ASSUME TypesInv, ExactInv, NEW g \in Gatherers, job[g].step # "idle", job'[g].step # "idle", Others(g), Same(g),
           job[g].alone => \A i \in DOMAIN job'[g].list : job[g].from <= job'[g].list[i].at,
           job[g].alone /\ input \in {"net", "diskio"} =>
             DiffOwn(g)' /\ (report.alone => DiffBase(g)' /\ RowsExact(g)'),
           job[g].alone /\ input \in {"system", "procstat"} =>
             /\ BusyOwn(g)'
             /\ report.alone => /\ RowsExact(g)'
                                /\ \A j \in DOMAIN report.rows :
                                     NotYet(report.rows[j])' => Stored(report.rows[j], report.from, report.to)'
    PROVE  ExactInv'
<1>1. \A h \in Gatherers \ {g} : job'[h] = job[h] /\ ~job[h].alone /\ (job[g].alone => job[h].step = "idle")
  BY DEF ExactInv, AloneInv, Others
<1>2. ~IdleAll'
  BY DEF IdleAll
<1>3. /\ job'[g].alone = job[g].alone /\ job'[g].from = job[g].from /\ report' = report /\ before' = before
      /\ input' = input /\ present' = present /\ epoch' = epoch
  BY DEF Same, input
<1>4. AloneInv'
  BY <1>1, <1>3 DEF ExactInv, AloneInv
<1>5. DiffInv'
  BY <1>1, <1>2, <1>3 DEF DiffInv
<1>6. BusyInv'
  BY <1>1, <1>2, <1>3 DEF BusyInv
<1>7. AloneExact'
  BY <1>3 DEF ExactInv, AloneExact, Exact, Running
<1> QED
  BY <1>4, <1>5, <1>6, <1>7 DEF ExactInv

\* What is known of a call that is alone.
LEMMA Alone ==
    ASSUME TypesInv, ExactInv, NEW g \in Gatherers, job[g].alone
    PROVE  /\ job[g].from \in 1 .. now /\ now \in Nat
           /\ \A i \in DOMAIN job[g].list : job[g].list[i] \in Samples /\ job[g].list[i].at \in job[g].from .. now
           /\ report.alone => report.from \in 1 .. now /\ report.to \in report.from .. now
           /\ \A h \in Gatherers \ {g} : job[h].step = "idle" /\ job[h].rows = <<>>
<1>1. now \in Nat /\ job[g].from \in 0 .. now /\ job[g].list \in Seq(Samples) /\ MachineType
  BY CallFields, Inputs DEF TypesInv
<1>2. \A i \in DOMAIN job[g].list : job[g].list[i] \in Samples
  BY <1>1
<1>3. \A i \in DOMAIN job[g].list : job[g].list[i].at \in job[g].from .. now
  BY <1>1, <1>2, SampleFields DEF ExactInv, AloneInv
<1>4. report.from \in 0 .. now /\ report.to \in 0 .. now
  BY DEF TypesInv, ReportsType, Reports
<1>5. ASSUME NEW h \in Gatherers, h # g PROVE job[h].step = "idle" /\ job[h].rows = <<>>
  <2>1. job[h].step = "idle" /\ Sized(job[h])
    BY <1>5, CallFields DEF ExactInv, AloneInv, TypesInv
  <2> QED
    BY <2>1 DEF Sized, Idle
<1> QED
  BY <1>1, <1>2, <1>3, <1>4, <1>5 DEF ExactInv, AloneInv

LEMMA SelectExact ==
    ASSUME TypesInv, ExactInv, NEW g \in Gatherers, Select(g)
    PROVE  ExactInv'
<1> DEFINE stat == IF Chosen(This(g).dev) THEN Append(job[g].stat, This(g)) ELSE job[g].stat
<1>1. /\ Others(g) /\ Same(g) /\ UNCHANGED plugin /\ job[g].step = "select" /\ More(g)
      /\ job'[g].step = "select" /\ job'[g].list = job[g].list /\ job'[g].k = job[g].k + 1
      /\ job'[g].stat = stat /\ job'[g].rows = job[g].rows
  BY SelectEffect
<1>2. /\ job[g].list \in Seq(Samples) /\ job[g].stat \in Seq(Samples) /\ job[g].rows = <<>>
      /\ job[g].k \in 1 .. Len(job[g].list) /\ This(g) = job[g].list[job[g].k]
  BY <1>1, CallFields, ThisType DEF TypesInv, Sized, This
<1>3. ASSUME job[g].alone, input \in {"net", "diskio"}
      PROVE  DiffOwn(g)' /\ (report.alone => DiffBase(g)' /\ RowsExact(g)')
  <2>1. DiffOwn(g) /\ (report.alone => DiffBase(g))
    BY <1>3 DEF ExactInv, DiffInv
  <2>2. /\ Distinct(job[g].list) /\ LaterAll(cur, job[g].list) /\ Distinct(job[g].stat)
        /\ \A i \in DOMAIN job[g].stat : \E j \in 1 .. job[g].k - 1 : job[g].stat[i] = job[g].list[j]
    BY <1>1, <2>1 DEF DiffOwn
  <2>3. \A i \in DOMAIN stat : \E j \in 1 .. job[g].k : stat[i] = job[g].list[j]
    <3> SUFFICES ASSUME NEW i \in DOMAIN stat PROVE \E j \in 1 .. job[g].k : stat[i] = job[g].list[j]
      OBVIOUS
    <3>1. CASE i \in DOMAIN job[g].stat
      <4>1. stat[i] = job[g].stat[i]
        BY <1>2, <3>1
      <4> QED
        BY <1>2, <2>2, <3>1, <4>1
    <3>2. CASE i \notin DOMAIN job[g].stat
      <4>1. stat[i] = This(g)
        BY <1>2, <3>2
      <4> QED
        BY <1>2, <4>1
    <3> QED
      BY <3>1, <3>2
  <2>4. Distinct(stat)
    <3>1. \A i \in DOMAIN job[g].stat : job[g].stat[i].dev # This(g).dev
      <4> SUFFICES ASSUME NEW i \in DOMAIN job[g].stat PROVE job[g].stat[i].dev # This(g).dev
        OBVIOUS
      <4>1. PICK j \in 1 .. job[g].k - 1 : job[g].stat[i] = job[g].list[j]
        BY <2>2
      <4>2. j \in DOMAIN job[g].list /\ job[g].k \in DOMAIN job[g].list /\ j # job[g].k
        BY <1>2
      <4> QED
        BY <1>2, <2>2, <4>1, <4>2 DEF Distinct
    <3>2. CASE Chosen(This(g).dev)
      <4>1. stat = Append(job[g].stat, This(g)) /\ DOMAIN stat = 1 .. Len(job[g].stat) + 1 /\ Len(job[g].stat) \in Nat
            /\ DOMAIN job[g].stat = 1 .. Len(job[g].stat)
        BY <1>2, <3>2
      <4>2. stat[Len(job[g].stat) + 1] = This(g) /\ \A i \in DOMAIN job[g].stat : stat[i] = job[g].stat[i]
        BY <1>2, <4>1
      <4> HIDE DEF stat
      <4>3. \A i \in DOMAIN stat : i \in DOMAIN job[g].stat \/ i = Len(job[g].stat) + 1
        BY <4>1
      <4> QED
        BY <2>2, <3>1, <4>2, <4>3 DEF Distinct
    <3>3. CASE ~Chosen(This(g).dev)
      BY <2>2, <3>3
    <3> QED
      BY <3>2, <3>3
  <2> HIDE DEF stat
  <2>5. DiffOwn(g)'
    <3>1. LaterAll(cur', job'[g].list)
      BY <1>1, <2>2 DEF plugin
    <3>2. job'[g].k - 1 = job[g].k
      BY <1>1, <1>2
    <3> QED
      BY <1>1, <2>2, <2>3, <2>4, <3>1, <3>2 DEF DiffOwn, LaterAll, Distinct
  <2>6. DiffBase(g) => DiffBase(g)'
    BY <1>1 DEF DiffBase, Behind, plugin, Same
  <2>7. RowsExact(g)'
    BY <1>1, <1>2 DEF RowsExact
  <2> QED
    BY <2>1, <2>5, <2>6, <2>7
<1>4. ~(input \in {"system", "procstat"})
  BY <1>1, CallFields DEF TypesInv, StepsOf
<1>5. job[g].alone => \A i \in DOMAIN job'[g].list : job[g].from <= job'[g].list[i].at
  BY <1>1 DEF ExactInv, AloneInv
<1> QED
  BY <1>1, <1>3, <1>4, <1>5, CallExact

LEMMA SelectedExact ==
    ASSUME TypesInv, ExactInv, NEW g \in Gatherers, Selected(g)
    PROVE  ExactInv'
<1>1. /\ Others(g) /\ Same(g) /\ UNCHANGED plugin /\ job[g].step = "select" /\ ~More(g)
      /\ job'[g].step \in {"keep", "report"}
      /\ input = "diskio" => job'[g].step = "keep" /\ job'[g].list = job[g].stat /\ job'[g].rows = job[g].rows
      /\ input # "diskio" => job'[g].list = job[g].list
  BY SelectedEffect
<1>2. /\ job[g].list \in Seq(Samples) /\ job[g].stat \in Seq(Samples) /\ job[g].rows = <<>> /\ input \in {"diskio", "disk"}
      /\ job[g].k \in Nat /\ job[g].k <= Len(job[g].list) + 1
  BY <1>1, CallFields, Inputs DEF TypesInv, Sized, StepsOf
<1>3. ASSUME job[g].alone, input = "diskio"
      PROVE  /\ Distinct(job[g].stat) /\ LaterAll(cur, job[g].list)
             /\ \A i \in DOMAIN job[g].stat : \E j \in DOMAIN job[g].list : job[g].stat[i] = job[g].list[j]
  <2>1. DiffOwn(g)
    BY <1>3 DEF ExactInv, DiffInv
  <2>2. 1 .. job[g].k - 1 \subseteq DOMAIN job[g].list
    BY <1>2
  <2> QED
    BY <1>1, <2>1, <2>2 DEF DiffOwn
<1>4. ASSUME job[g].alone, input \in {"net", "diskio"}
      PROVE  DiffOwn(g)' /\ (report.alone => DiffBase(g)' /\ RowsExact(g)')
  <2>1. report.alone => DiffBase(g)
    BY <1>4 DEF ExactInv, DiffInv
  <2>2. input = "diskio" /\ job'[g].step = "keep" /\ job'[g].list = job[g].stat /\ cur' = cur /\ last' = last
    BY <1>1, <1>2, <1>4 DEF plugin
  <2>3. LaterAll(cur, job[g].stat)
    BY <1>3, <1>4, <2>2 DEF LaterAll
  <2>4. DiffOwn(g)'
    BY <1>3, <1>4, <2>2, <2>3 DEF DiffOwn, LaterAll, Distinct
  <2>5. DiffBase(g) => DiffBase(g)'
    BY <1>1, <2>2 DEF DiffBase, Behind, Same
  <2>6. RowsExact(g)'
    BY <1>1, <1>2, <2>2 DEF RowsExact
  <2> QED
    BY <2>1, <2>4, <2>5, <2>6
<1>5. ASSUME job[g].alone PROVE \A i \in DOMAIN job'[g].list : job[g].from <= job'[g].list[i].at
  <2>1. \A i \in DOMAIN job[g].list : job[g].from <= job[g].list[i].at
    BY <1>5 DEF ExactInv, AloneInv
  <2> QED
    BY <1>1, <1>2, <1>3, <1>5, <2>1
<1>6. ~(input \in {"system", "procstat"}) /\ job'[g].step # "idle" /\ job[g].step # "idle"
  BY <1>1, <1>2
<1> QED
  BY <1>1, <1>4, <1>5, <1>6, CallExact

LEMMA KeepExact ==
    ASSUME TypesInv, ExactInv, NEW g \in Gatherers, Keep(g)
    PROVE  ExactInv'
<1>1. /\ Others(g) /\ Same(g) /\ cur' = cur /\ prev' = cur /\ last' = last
      /\ job[g].step = "keep" /\ job'[g].step = "store" /\ job'[g].list = job[g].list /\ job'[g].rows = job[g].rows
  BY KeepEffect
<1>2. job[g].rows = <<>> /\ ~(input \in {"system", "procstat"})
  BY <1>1, CallFields DEF TypesInv, Sized, StepsOf
<1>3. ASSUME job[g].alone, input \in {"net", "diskio"}
      PROVE  DiffOwn(g)' /\ (report.alone => DiffBase(g)' /\ RowsExact(g)')
  <2>1. DiffOwn(g) /\ (report.alone => DiffBase(g))
    BY <1>3 DEF ExactInv, DiffInv
  <2>2. DiffOwn(g)'
    BY <1>1, <2>1 DEF DiffOwn, LaterAll, Distinct
  <2>3. DiffBase(g) => DiffBase(g)'
    BY <1>1 DEF DiffBase, Behind, Distinct, Same
  <2>4. RowsExact(g)'
    BY <1>1, <1>2 DEF RowsExact
  <2> QED
    BY <2>1, <2>2, <2>3, <2>4
<1>4. job[g].alone => \A i \in DOMAIN job'[g].list : job[g].from <= job'[g].list[i].at
  BY <1>1 DEF ExactInv, AloneInv
<1> QED
  BY <1>1, <1>2, <1>3, <1>4, CallExact

LEMMA StoreExact ==
    ASSUME TypesInv, ExactInv, NEW g \in Gatherers, Store(g)
    PROVE  ExactInv'
<1>1. /\ Others(g) /\ Same(g) /\ cur' = job[g].list /\ prev' = prev /\ last' = last
      /\ job[g].step = "store" /\ job'[g].step = "since" /\ job'[g].list = job[g].list /\ job'[g].rows = job[g].rows
  BY StoreEffect
<1>2. job[g].rows = <<>> /\ ~(input \in {"system", "procstat"})
  BY <1>1, CallFields DEF TypesInv, Sized, StepsOf
<1>3. ASSUME job[g].alone, input \in {"net", "diskio"}
      PROVE  DiffOwn(g)' /\ (report.alone => DiffBase(g)' /\ RowsExact(g)')
  <2>1. DiffOwn(g) /\ (report.alone => DiffBase(g))
    BY <1>3 DEF ExactInv, DiffInv
  <2>2. DiffOwn(g)'
    BY <1>1, <2>1 DEF DiffOwn, LaterAll, Distinct
  <2>3. DiffBase(g) => DiffBase(g)'
    BY <1>1 DEF DiffBase, Behind, Distinct, Same
  <2>4. RowsExact(g)'
    BY <1>1, <1>2 DEF RowsExact
  <2> QED
    BY <2>1, <2>2, <2>3, <2>4
<1>4. job[g].alone => \A i \in DOMAIN job'[g].list : job[g].from <= job'[g].list[i].at
  BY <1>1 DEF ExactInv, AloneInv
<1> QED
  BY <1>1, <1>2, <1>3, <1>4, CallExact

LEMMA LapseExact ==
    ASSUME TypesInv, ExactInv, NEW g \in Gatherers, Lapse(g)
    PROVE  ExactInv'
<1>1. /\ Others(g) /\ Same(g) /\ UNCHANGED <<cur, prev, last>>
      /\ job[g].step = "since" /\ job'[g].step = "stamp" /\ job'[g].list = job[g].list /\ job'[g].rows = job[g].rows
      /\ job'[g].span = Since(last)
  BY LapseEffect DEF plugin
<1>2. job[g].rows = <<>> /\ input \in {"net", "diskio"}
  BY <1>1, CallFields, Inputs DEF TypesInv, Sized, StepsOf
<1>3. ASSUME job[g].alone
      PROVE  DiffOwn(g)' /\ (report.alone => DiffBase(g)' /\ RowsExact(g)')
  <2>1. DiffOwn(g) /\ (report.alone => DiffBase(g))
    BY <1>2, <1>3 DEF ExactInv, DiffInv
  <2>2. DiffOwn(g)'
    BY <1>1, <1>2, <2>1 DEF DiffOwn, LaterAll, Distinct, Same
  <2>3. ASSUME report.alone PROVE DiffBase(g)'
    <3>1. /\ last \in report.from .. report.to /\ report.from \in 1 .. now /\ report.to \in report.from .. now
          /\ job[g].from \in 1 .. now /\ now \in Nat
      BY <1>1, <1>3, <2>1, <2>3, Alone DEF DiffBase
    <3>2. Since(last) = now - last
      BY <3>1 DEF Since
    <3>3. job'[g].span \in (job[g].from - report.to) .. (now - report.from)
      BY <1>1, <3>1, <3>2
    <3>4. Behind(prev, report)
      BY <1>1, <2>1, <2>3 DEF DiffBase
    <3>5. report' = report /\ job'[g].from = job[g].from /\ now' = now
      BY <1>1 DEF Same
    <3> QED
      BY <1>1, <3>1, <3>3, <3>4, <3>5 DEF DiffBase, Behind, Distinct
  <2>4. RowsExact(g)'
    BY <1>1, <1>2 DEF RowsExact
  <2> QED
    BY <2>2, <2>3, <2>4
<1>4. job[g].alone => \A i \in DOMAIN job'[g].list : job[g].from <= job'[g].list[i].at
  BY <1>1 DEF ExactInv, AloneInv
<1>5. ~(input \in {"system", "procstat"})
  BY <1>2
<1> QED
  BY <1>1, <1>3, <1>4, <1>5, CallExact

LEMMA StampExact ==
    ASSUME TypesInv, ExactInv, NEW g \in Gatherers, Stamp(g)
    PROVE  ExactInv'
<1>1. /\ Others(g) /\ Same(g) /\ cur' = cur /\ prev' = prev /\ last' = now
      /\ job[g].step = "stamp" /\ job'[g].step = "load" /\ job'[g].list = job[g].list /\ job'[g].rows = job[g].rows
      /\ job'[g].span = job[g].span
  BY StampEffect
<1>2. job[g].rows = <<>> /\ input \in {"net", "diskio"}
  BY <1>1, CallFields, Inputs DEF TypesInv, Sized, StepsOf
<1>3. ASSUME job[g].alone
      PROVE  DiffOwn(g)' /\ (report.alone => DiffBase(g)' /\ RowsExact(g)')
  <2>1. DiffOwn(g) /\ (report.alone => DiffBase(g))
    BY <1>2, <1>3 DEF ExactInv, DiffInv
  <2>2. job[g].from <= now /\ job'[g].from = job[g].from
    BY <1>1, <1>3, Alone DEF Same
  <2>3. DiffOwn(g)'
    BY <1>1, <1>2, <2>1, <2>2 DEF DiffOwn, LaterAll, Distinct
  <2>4. DiffBase(g) => DiffBase(g)'
    BY <1>1 DEF DiffBase, Behind, Distinct, Same
  <2>5. RowsExact(g)'
    BY <1>1, <1>2 DEF RowsExact
  <2> QED
    BY <2>1, <2>3, <2>4, <2>5
<1>4. job[g].alone => \A i \in DOMAIN job'[g].list : job[g].from <= job'[g].list[i].at
  BY <1>1 DEF ExactInv, AloneInv
<1>5. ~(input \in {"system", "procstat"})
  BY <1>2
<1> QED
  BY <1>1, <1>3, <1>4, <1>5, CallExact

LEMMA LoadExact ==
    ASSUME TypesInv, ExactInv, NEW g \in Gatherers, Load(g)
    PROVE  ExactInv'
<1>1. /\ Others(g) /\ Same(g) /\ UNCHANGED <<cur, prev, last>>
      /\ job[g].step = "load" /\ job'[g].step = "diff" /\ job'[g].list = cur /\ job'[g].rows = job[g].rows
      /\ job'[g].span = job[g].span
  BY LoadEffect DEF plugin
<1>2. job[g].rows = <<>> /\ input \in {"net", "diskio"}
  BY <1>1, CallFields, Inputs DEF TypesInv, Sized, StepsOf
<1>3. ASSUME job[g].alone
      PROVE  DiffOwn(g)' /\ (report.alone => DiffBase(g)' /\ RowsExact(g)') /\ cur = job[g].list
  <2>1. DiffOwn(g) /\ (report.alone => DiffBase(g))
    BY <1>2, <1>3 DEF ExactInv, DiffInv
  <2>2. cur = job[g].list /\ job'[g].from = job[g].from
    BY <1>1, <2>1 DEF DiffOwn, Same
  <2>3. DiffOwn(g)'
    BY <1>1, <1>2, <2>1, <2>2 DEF DiffOwn, LaterAll, Distinct
  <2>4. DiffBase(g) => DiffBase(g)'
    BY <1>1 DEF DiffBase, Behind, Distinct, Same
  <2>5. RowsExact(g)'
    BY <1>1, <1>2 DEF RowsExact
  <2> QED
    BY <2>1, <2>2, <2>3, <2>4, <2>5
<1>4. job[g].alone => \A i \in DOMAIN job'[g].list : job[g].from <= job'[g].list[i].at
  BY <1>1, <1>3 DEF ExactInv, AloneInv
<1>5. ~(input \in {"system", "procstat"})
  BY <1>2
<1> QED
  BY <1>1, <1>3, <1>4, <1>5, CallExact

\* A sequence with one element more.
LEMMA OneMore ==
    ASSUME NEW S, NEW s \in Seq(S), NEW k \in Nat, Len(s) = k - 1, NEW e, NEW t, t = Append(s, e)
    PROVE  /\ DOMAIN s = 1 .. k - 1 /\ DOMAIN t = 1 .. k /\ t[k] = e
           /\ \A i \in 1 .. k - 1 : t[i] = s[i]
<1>1. DOMAIN s = 1 .. k - 1 /\ k = Len(s) + 1
  OBVIOUS
<1>2. DOMAIN t = 1 .. k /\ t[k] = e
  BY <1>1
<1>3. ASSUME NEW i \in 1 .. k - 1 PROVE t[i] = s[i]
  BY <1>1
<1> QED
  BY <1>1, <1>2, <1>3

LEMMA DiffExact ==
    ASSUME TypesInv, ExactInv, NEW g \in Gatherers, Diff(g)
    PROVE  ExactInv'
<1> DEFINE s == This(g)
           k == job[g].k
           r == Row(s, StatDiff(s), job[g].span)
<1>1. /\ Others(g) /\ Same(g) /\ UNCHANGED plugin
      /\ job[g].step = "diff" /\ job'[g].step = "diff" /\ More(g)
      /\ job'[g].list = job[g].list /\ job'[g].k = k + 1 /\ job'[g].span = job[g].span
      /\ job'[g].rows = Append(job[g].rows, r)
  BY DiffEffect
<1>2. /\ input \in {"net", "diskio"} /\ MachineType
      /\ job[g].list \in Seq(Samples) /\ job[g].rows \in Seq(Rows)
      /\ k \in 1 .. Len(job[g].list) /\ Len(job[g].rows) = k - 1 /\ s = job[g].list[k] /\ s \in Samples
  BY <1>1, CallFields, ThisType, Inputs DEF TypesInv, Sized, StepsOf, This
<1>3. Matches(s, r) /\ r.dev = s.dev /\ r.epoch = s.epoch /\ r.total = s.total /\ r.growth = StatDiff(s) /\ r.span = job[g].span
  BY DEF Matches, Row
<1> HIDE DEF r, s
<1>4. /\ DOMAIN job[g].rows = 1 .. k - 1 /\ DOMAIN job'[g].rows = 1 .. k /\ job'[g].rows[k] = r
      /\ \A i \in 1 .. k - 1 : job'[g].rows[i] = job[g].rows[i]
  <2>1. k \in Nat /\ job[g].rows \in Seq(Rows) /\ Len(job[g].rows) = k - 1 /\ job'[g].rows = Append(job[g].rows, r)
    BY <1>1, <1>2
  <2> QED
    BY <2>1, OneMore
<1>5. ASSUME job[g].alone
      PROVE  DiffOwn(g)' /\ (report.alone => DiffBase(g)' /\ RowsExact(g)')
  <2>1. DiffOwn(g) /\ (report.alone => DiffBase(g) /\ RowsExact(g))
    BY <1>2, <1>5 DEF ExactInv, DiffInv
  <2>2. \A i \in 1 .. k : Matches(job[g].list[i], job'[g].rows[i])
    <3>1. \A i \in 1 .. k : i \in 1 .. k - 1 \/ i = k
      BY <1>2
    <3> QED
      BY <1>1, <1>2, <1>3, <1>4, <2>1, <3>1 DEF DiffOwn
  <2>3. DiffOwn(g)'
    BY <1>1, <1>4, <2>1, <2>2 DEF DiffOwn, LaterAll, Distinct, plugin, Same
  <2>4. ASSUME report.alone PROVE DiffBase(g)' /\ RowsExact(g)'
    <3>1. DiffBase(g)'
      BY <1>1, <2>1, <2>4 DEF DiffBase, Behind, Distinct, plugin, Same
    <3>2. ASSUME NEW j \in DOMAIN report.rows, r.dev = report.rows[j].dev, r.epoch = report.rows[j].epoch
          PROVE  Exact(r, report.rows[j], job[g].from - report.to, now - report.from)
      <4> DEFINE p == prev[j]
                 b == report.rows[j]
      <4>1. /\ Distinct(prev) /\ Len(prev) = Len(report.rows) /\ Matches(p, b) /\ p.at \in report.from .. report.to
            /\ job[g].span \in (job[g].from - report.to) .. (now - report.from)
        BY <1>1, <2>1, <2>4 DEF DiffBase, Behind
      <4>2. prev \in Seq(Samples) /\ report.rows \in Seq(Rows)
        BY DEF TypesInv, PluginType, ReportsType, Reports
      <4>3. j \in DOMAIN prev /\ p \in Samples
        BY <4>1, <4>2
      <4>4. p.dev = s.dev /\ p.epoch = s.epoch /\ p.total = b.total
        BY <1>3, <3>2, <4>1 DEF Matches
      <4>5. PICK i \in DOMAIN prev : prev[i].dev = s.dev /\ StatDiff(s) = Adjust(s.total % Width, prev[i].total % Width)
        BY <4>2, <4>3, <4>4, StatFound
      <4>6. i = j
        BY <4>1, <4>3, <4>4, <4>5 DEF Distinct
      <4>7. StatDiff(s) = Adjust(s.total % Width, p.total % Width)
        BY <4>5, <4>6
      <4>8. p.at <= s.at /\ p.total <= s.total /\ s.total - p.total <= s.at - p.at
        <5>1. LaterAll(prev, job[g].list) /\ k \in DOMAIN job[g].list
          BY <1>1, <1>2, <2>1 DEF DiffOwn
        <5> QED
          BY <1>2, <4>3, <4>4, <5>1 DEF LaterAll, Later
      <4>9. /\ s.total \in Nat /\ p.total \in Nat /\ s.at \in Nat /\ p.at \in Nat /\ s.at <= now /\ 1 <= p.at
            /\ now \in Nat /\ now <= Width /\ Width \in Nat \ {0}
        <5>1. s.total \in Nat /\ p.total \in Nat /\ s.at \in Nat /\ p.at \in Nat /\ s.at \in 0 .. now
          BY <1>2, <4>3, SampleFields
        <5>2. now \in Nat /\ now <= Width /\ Width \in Nat \ {0}
          BY <1>2, Inputs
        <5>3. report.from \in 1 .. now /\ report.to \in report.from .. now
          BY <1>5, <2>4, Alone
        <5> HIDE DEF p
        <5> QED
          BY <4>1, <5>1, <5>2, <5>3
      <4> HIDE DEF p, b
      <4>10. s.total - p.total < Width
        BY <4>8, <4>9
      <4>11. StatDiff(s) = s.total - p.total - (IF s.total \div Width > p.total \div Width THEN 1 ELSE 0)
        BY <4>7, <4>8, <4>9, <4>10, WrapExact
      <4>12. Exact(r, b, job[g].from - report.to, now - report.from)
        BY <1>2, <1>3, <4>1, <4>4, <4>11 DEF Exact
      <4> QED
        BY <4>12 DEF b
    <3>3. ASSUME NEW i \in 1 .. k, NEW j \in DOMAIN report.rows,
                 job'[g].rows[i].dev = report.rows[j].dev, job'[g].rows[i].epoch = report.rows[j].epoch
          PROVE  Exact(job'[g].rows[i], report.rows[j], job[g].from - report.to, now - report.from)
      <4>1. CASE i = k
        BY <1>4, <3>2, <3>3, <4>1
      <4>2. CASE i # k
        <5>1. i \in DOMAIN job[g].rows /\ job'[g].rows[i] = job[g].rows[i] /\ Running(job[g].rows[i])
          BY <1>2, <1>4, <4>2 DEF Running
        <5> QED
          BY <2>1, <2>4, <3>3, <5>1 DEF RowsExact
      <4> QED
        BY <4>1, <4>2
    <3>4. RowsExact(g)'
      <4>1. report' = report /\ now' = now /\ job'[g].from = job[g].from /\ input' = input
        BY <1>1 DEF Same, input
      <4> QED
        BY <1>4, <3>3, <4>1 DEF RowsExact, Exact
    <3> QED
      BY <3>1, <3>4
  <2> QED
    BY <2>3, <2>4
<1>6. job[g].alone => \A i \in DOMAIN job'[g].list : job[g].from <= job'[g].list[i].at
  BY <1>1 DEF ExactInv, AloneInv
<1>7. ~(input \in {"system", "procstat"})
  BY <1>2
<1> QED
  BY <1>1, <1>5, <1>6, <1>7, CallExact

\* What is between the times of the last report and those of this one.
LEMMA BusyExact ==
    ASSUME MachineType, NEW t1 \in Samples, NEW t2 \in Samples, Later(t1, t2), NEW b, Matches(t1, b),
           b.dev = t2.dev, b.epoch = t2.epoch, input = "system",
           NEW low \in Int, NEW high \in Int, low <= t2.at - t1.at, t2.at - t1.at <= high
    PROVE  Exact(BusyRow(t1, t2), b, low, high)
<1>1. t1.at \in Nat /\ t2.at \in Nat /\ t1.total \in Nat /\ t2.total \in Nat
  BY SampleFields
<1>2. /\ t1.at <= t2.at /\ t1.total <= t2.total /\ t2.total - t1.total <= t2.at - t1.at /\ b.total = t1.total
  BY DEF Later, Matches
<1>3. CASE t2.total <= t1.total
  <2>1. BusyRow(t1, t2).growth = 0 /\ BusyRow(t1, t2).total = t2.total
    BY <1>3 DEF BusyRow, Row
  <2> QED
    BY <1>1, <1>2, <1>3, <2>1 DEF Exact
<1>4. CASE ~(t2.total <= t1.total)
  <2>1. ~(t2.at <= t1.at)
    BY <1>1, <1>2, <1>4
  <2>2. /\ BusyRow(t1, t2).growth = t2.total - t1.total /\ BusyRow(t1, t2).total = t2.total
        /\ BusyRow(t1, t2).span = t2.at - t1.at
    BY <1>4, <2>1 DEF BusyRow, Row
  <2> QED
    BY <1>1, <1>2, <2>2 DEF Exact
<1> QED
  BY <1>3, <1>4

LEMMA PercentIsExact ==
    ASSUME MachineType, NEW t1 \in Samples, NEW t2 \in Samples, Later(t1, t2), NEW b, Matches(t1, b),
           b.dev = t2.dev, b.epoch = t2.epoch, input = "procstat",
           NEW low \in Int, NEW high \in Int, low <= t2.at - t1.at, t2.at - t1.at <= high
    PROVE  Exact(PercentRow(t1, t2), b, low, high)
<1>1. t1.at \in Nat /\ t2.at \in Nat /\ t1.total \in Nat /\ t2.total \in Nat
  BY SampleFields
<1>2. /\ t1.at <= t2.at /\ t1.total <= t2.total /\ t2.total - t1.total <= t2.at - t1.at /\ b.total = t1.total
  BY DEF Later, Matches
<1>3. CASE t2.at = t1.at
  <2>1. PercentRow(t1, t2).growth = 0 /\ PercentRow(t1, t2).total = t2.total
    BY <1>3 DEF PercentRow, Row
  <2> QED
    BY <1>1, <1>2, <1>3, <2>1 DEF Exact
<1>4. CASE t2.at # t1.at
  <2>1. /\ PercentRow(t1, t2).growth = t2.total - t1.total /\ PercentRow(t1, t2).total = t2.total
        /\ PercentRow(t1, t2).span = t2.at - t1.at
    BY <1>4 DEF PercentRow, Row
  <2> QED
    BY <1>1, <1>2, <2>1 DEF Exact
<1> QED
  BY <1>3, <1>4

LEMMA BusyOf ==
    ASSUME NEW t1, NEW t2
    PROVE  /\ Matches(t2, BusyRow(t1, t2)) /\ Matches(t2, PercentRow(t1, t2))
           /\ Matches(t2, Row(t2, 0, 1))
BY DEF BusyRow, PercentRow, Row, Matches

\* A sample is not older than one taken before.
LEMMA SampleLater ==
    ASSUME MachineType, NEW p \in Samples, NEW d \in Devices
    PROVE  Later(p, Sample(d))
BY SampleFields DEF Later, Sample

LEMMA SwapExact ==
    ASSUME TypesInv, ExactInv, NEW g \in Gatherers, SwapTimes(g)
    PROVE  ExactInv'
<1> DEFINE t == job[g].list[1]
           p == cpu[t.dev]
           r == BusyRow(p, t)
<1>1. /\ Others(g) /\ Same(g) /\ cpu' = [cpu EXCEPT ![t.dev] = t]
      /\ job[g].step = "swap" /\ job'[g].step = "report" /\ job'[g].list = job[g].list /\ job'[g].rows = <<r>>
  BY SwapEffect
<1>2. /\ input = "system" /\ MachineType /\ job[g].list \in Seq(Samples) /\ Len(job[g].list) = 1 /\ job[g].rows = <<>>
  BY <1>1, CallFields, Inputs DEF TypesInv, Sized, StepsOf
<1>3. t \in Samples /\ t.dev \in Devices
  <2>1. t \in Samples
    BY <1>2
  <2> QED
    BY <1>2, <2>1, SampleFields
<1>4. cpu \in [Devices -> Samples] /\ p \in Samples /\ cpu'[t.dev] = t /\ \A d \in Devices \ {t.dev} : cpu'[d] = cpu[d]
  BY <1>1, <1>3 DEF TypesInv, PluginType
<1>5. Matches(t, r)
  BY BusyOf
<1>6. report' = report /\ now' = now /\ job'[g].from = job[g].from /\ input' = input /\ present' = present /\ epoch' = epoch
  BY <1>1 DEF Same, input
<1> HIDE DEF t, r
<1>7. ASSUME job[g].alone
      PROVE  /\ BusyOwn(g)'
             /\ report.alone => /\ RowsExact(g)'
                                /\ \A j \in DOMAIN report.rows :
                                     NotYet(report.rows[j])' => Stored(report.rows[j], report.from, report.to)'
  <2>1. BusyOwn(g) /\ Distinct(job[g].list) /\ Later(p, t)
    BY <1>1, <1>2, <1>7 DEF ExactInv, BusyInv, BusyOwn, t
  <2>2. t.at \in job[g].from .. now
    BY <1>2, <1>7, Alone DEF t
  <2>3. Matches(cpu'[r.dev], r) /\ cpu'[r.dev].at \in job[g].from .. now
    <3>1. r.dev = t.dev
      BY <1>5 DEF Matches
    <3> QED
      BY <1>4, <1>5, <2>2, <3>1
  <2>4. BusyOwn(g)'
    <3>1. /\ DOMAIN job'[g].rows = {1} /\ job'[g].rows[1] = r
      BY <1>1
    <3>2. Stored(job[g].rows[1], job[g].from, now)'
      BY <1>6, <2>3, <3>1 DEF Stored, Running
    <3> QED
      BY <1>1, <1>6, <2>1, <3>1, <3>2 DEF BusyOwn, Distinct
  <2>5. ASSUME report.alone, NEW j \in DOMAIN report.rows
        PROVE  /\ Stored(report.rows[j], report.from, report.to) /\ Running(report.rows[j])
               /\ NotYet(report.rows[j])' => Stored(report.rows[j], report.from, report.to)'
               /\ r.dev = report.rows[j].dev /\ r.epoch = report.rows[j].epoch
                     => Exact(r, report.rows[j], job[g].from - report.to, now - report.from)
    <3> DEFINE b == report.rows[j]
    <3>1. Running(b)
      BY <1>2 DEF Running
    <3>2. NotYet(b)
      BY <1>2, <1>7, Alone DEF NotYet
    <3>3. Stored(b, report.from, report.to)
      BY <1>2, <1>7, <2>5, <3>2 DEF ExactInv, BusyInv
    <3>4. b.dev \in Devices
      <4>1. report.rows \in Seq(Rows)
        BY DEF TypesInv, ReportsType, Reports
      <4> QED
        BY <4>1 DEF Rows
    <3>5. NotYet(b)' => b.dev # t.dev
      <4>1. job'[g].rows[1] = r /\ 1 \in DOMAIN job'[g].rows /\ r.dev = t.dev
        BY <1>1, <1>5 DEF Matches
      <4> QED
        BY <1>6, <4>1 DEF NotYet
    <3>6. NotYet(b)' => Stored(b, report.from, report.to)'
      BY <1>4, <1>6, <3>1, <3>3, <3>4, <3>5 DEF Stored
    <3>7. ASSUME r.dev = b.dev, r.epoch = b.epoch PROVE Exact(r, b, job[g].from - report.to, now - report.from)
      <4>1. b.dev = t.dev /\ b.epoch = t.epoch
        BY <1>5, <3>7 DEF Matches
      <4>2. Matches(p, b) /\ p.at \in report.from .. report.to
        BY <3>1, <3>3, <4>1 DEF Stored
      <4>3. /\ report.from \in Nat /\ report.to \in Nat /\ now \in Nat /\ job[g].from \in Nat
            /\ p.at \in Nat /\ t.at \in Nat
        BY <1>2, <1>3, <1>4, <1>7, <2>5, Alone, SampleFields
      <4>4. /\ job[g].from - report.to \in Int /\ now - report.from \in Int
            /\ job[g].from - report.to <= t.at - p.at /\ t.at - p.at <= now - report.from
        BY <2>2, <4>2, <4>3
      <4> HIDE DEF p, b
      <4> QED
        BY <1>2, <1>3, <1>4, <2>1, <4>1, <4>2, <4>4, BusyExact DEF r
    <3> QED
      BY <3>1, <3>3, <3>6, <3>7
  <2>6. ASSUME report.alone PROVE RowsExact(g)'
    <3>1. /\ DOMAIN job'[g].rows = {1} /\ job'[g].rows[1] = r
      BY <1>1
    <3> QED
      BY <1>6, <2>5, <2>6, <3>1 DEF RowsExact, Exact
  <2> QED
    BY <1>6, <2>4, <2>5, <2>6
<1>8. job[g].alone => \A i \in DOMAIN job'[g].list : job[g].from <= job'[g].list[i].at
  BY <1>1 DEF ExactInv, AloneInv
<1>9. ~(input \in {"net", "diskio"})
  BY <1>2
<1> QED
  BY <1>1, <1>7, <1>8, <1>9, CallExact

LEMMA PercentExact ==
    ASSUME TypesInv, ExactInv, NEW g \in Gatherers, Percent(g)
    PROVE  ExactInv'
<1> DEFINE d == This(g).dev
           k == job[g].k
           t == Sample(d)
           p == cpu[d]
           r == IF d \notin present \/ FirstPercent(d) THEN Row(t, 0, 1) ELSE PercentRow(p, t)
<1>1. /\ Others(g) /\ Same(g) /\ cpu' = IF d \in present THEN [cpu EXCEPT ![d] = t] ELSE cpu
      /\ job[g].step = "percent" /\ job'[g].step = "percent" /\ More(g)
      /\ job'[g].list = job[g].list /\ job'[g].k = k + 1 /\ job'[g].rows = Append(job[g].rows, r)
  BY PercentEffect
<1>2. /\ input = "procstat" /\ MachineType /\ job[g].list \in Seq(Samples) /\ job[g].rows \in Seq(Rows)
      /\ k \in 1 .. Len(job[g].list) /\ Len(job[g].rows) = k - 1 /\ This(g) = job[g].list[k] /\ This(g) \in Samples
  BY <1>1, CallFields, ThisType, Inputs DEF TypesInv, Sized, StepsOf, This
<1>3. d \in Devices /\ t \in Samples /\ t.dev = d /\ t.at = now /\ t.epoch = epoch[d]
  <2>1. d \in Devices
    BY <1>2, SampleFields
  <2> QED
    BY <1>2, <2>1, SampleType DEF Sample
<1>4. /\ cpu \in [Devices -> Samples] /\ p \in Samples /\ (d \in present => cpu'[d] = t) /\ (d \notin present => cpu' = cpu)
      /\ \A e \in Devices \ {d} : cpu'[e] = cpu[e]
  BY <1>1, <1>3 DEF TypesInv, PluginType
<1>5. Matches(t, r) /\ r.dev = d
  <2>1. Matches(t, r)
    BY BusyOf
  <2> QED
    BY <1>3, <2>1 DEF Matches
<1>6. report' = report /\ now' = now /\ job'[g].from = job[g].from /\ input' = input /\ present' = present /\ epoch' = epoch
  BY <1>1 DEF Same, input
<1>7. Later(p, t)
  BY <1>2, <1>3, <1>4, SampleLater
<1>8. d \in present /\ ~FirstPercent(d) => r = PercentRow(p, t)
  OBVIOUS
<1> HIDE DEF d, t, p, r
<1>9. /\ DOMAIN job[g].rows = 1 .. k - 1 /\ DOMAIN job'[g].rows = 1 .. k /\ job'[g].rows[k] = r
      /\ \A i \in 1 .. k - 1 : job'[g].rows[i] = job[g].rows[i]
  <2>1. k \in Nat /\ job[g].rows \in Seq(Rows) /\ Len(job[g].rows) = k - 1 /\ job'[g].rows = Append(job[g].rows, r)
    BY <1>1, <1>2
  <2> QED
    BY <2>1, OneMore
<1>10. \A i \in 1 .. k : i \in 1 .. k - 1 \/ i = k
  BY <1>2
<1>11. ASSUME job[g].alone
       PROVE  /\ BusyOwn(g)'
              /\ report.alone => /\ RowsExact(g)'
                                 /\ \A j \in DOMAIN report.rows :
                                      NotYet(report.rows[j])' => Stored(report.rows[j], report.from, report.to)'
  <2>1. /\ Distinct(job[g].list) /\ (\A i \in 1 .. k - 1 : Stored(job[g].rows[i], job[g].from, now))
        /\ \A i \in 1 .. k - 1 : job[g].rows[i].dev = job[g].list[i].dev
    BY <1>1, <1>2, <1>9, <1>11 DEF ExactInv, BusyInv, BusyOwn
  <2>2. now \in job[g].from .. now
    BY <1>11, Alone
  <2>3. d = job[g].list[k].dev /\ \A i \in 1 .. k - 1 : job[g].rows[i].dev # d
    <3>1. d = job[g].list[k].dev
      BY <1>2 DEF d
    <3>2. \A i \in 1 .. k - 1 : i \in DOMAIN job[g].list /\ k \in DOMAIN job[g].list /\ i # k
      BY <1>2
    <3> QED
      BY <2>1, <3>1, <3>2 DEF Distinct
  <2>4. ASSUME NEW b, b.dev \in Devices, b.dev # d, NEW low, NEW high, Stored(b, low, high)
        PROVE  Running(b) => Matches(cpu'[b.dev], b) /\ cpu'[b.dev].at \in low .. high
    BY <1>4, <2>4 DEF Stored
  <2>5. ASSUME NEW i \in 1 .. k, Running(job'[g].rows[i])
        PROVE  /\ Matches(cpu'[job'[g].rows[i].dev], job'[g].rows[i])
               /\ cpu'[job'[g].rows[i].dev].at \in job[g].from .. now
    <3>1. CASE i = k
      <4>1. d \in present
        BY <1>2, <1>5, <1>9, <2>5, <3>1 DEF Running
      <4> QED
        BY <1>3, <1>4, <1>5, <1>9, <2>2, <3>1, <4>1
    <3>2. CASE i \in 1 .. k - 1
      <4>1. job'[g].rows[i] = job[g].rows[i] /\ job[g].rows[i].dev \in Devices
        BY <1>2, <1>9, <3>2 DEF Rows
      <4> QED
        BY <2>1, <2>3, <2>4, <2>5, <3>2, <4>1
    <3> QED
      BY <1>10, <3>1, <3>2
  <2>6. BusyOwn(g)'
    <3>1. \A i \in 1 .. k : Stored(job[g].rows[i], job[g].from, now)'
      BY <1>6, <2>5 DEF Stored, Running
    <3>2. \A i \in 1 .. k : job'[g].rows[i].dev = job[g].list[i].dev
      BY <1>5, <1>9, <1>10, <2>1, <2>3
    <3> QED
      BY <1>1, <1>9, <2>1, <3>1, <3>2 DEF BusyOwn, Distinct
  <2>7. ASSUME report.alone, NEW j \in DOMAIN report.rows
        PROVE  /\ NotYet(report.rows[j])' => Stored(report.rows[j], report.from, report.to)'
               /\ r.dev = report.rows[j].dev /\ r.epoch = report.rows[j].epoch /\ Running(r)
                     => Exact(r, report.rows[j], job[g].from - report.to, now - report.from)
    <3> DEFINE b == report.rows[j]
    <3>1. b.dev \in Devices
      <4>1. report.rows \in Seq(Rows)
        BY DEF TypesInv, ReportsType, Reports
      <4> QED
        BY <4>1 DEF Rows
    <3>2. NotYet(b) => Stored(b, report.from, report.to)
      BY <1>2, <1>11, <2>7 DEF ExactInv, BusyInv
    <3>3. ASSUME \A i \in DOMAIN job[g].rows : job[g].rows[i].dev # b.dev PROVE NotYet(b)
      BY <1>11, <3>3, Alone DEF NotYet
    <3>4. ASSUME NotYet(b)' PROVE Stored(b, report.from, report.to)'
      <4>1. \A i \in 1 .. k : job'[g].rows[i].dev # b.dev
        BY <1>6, <1>9, <3>4 DEF NotYet
      <4>2. k \in 1 .. k
        BY <1>2
      <4>3. d # b.dev /\ \A i \in 1 .. k - 1 : job[g].rows[i].dev # b.dev
        <5>1. \A i \in 1 .. k - 1 : i \in 1 .. k
          BY <1>2
        <5> HIDE DEF b
        <5>2. d # b.dev
          BY <1>5, <1>9, <4>1, <4>2
        <5> QED
          BY <1>9, <4>1, <5>1, <5>2
      <4>4. Stored(b, report.from, report.to)
        BY <1>9, <3>2, <3>3, <4>3
      <4> HIDE DEF b
      <4>5. Running(b) => Matches(cpu'[b.dev], b) /\ cpu'[b.dev].at \in report.from .. report.to
        BY <2>4, <3>1, <4>3, <4>4
      <4> QED
        BY <1>6, <4>5 DEF Stored, Running, b
    <3>5. ASSUME r.dev = b.dev, r.epoch = b.epoch, Running(r)
          PROVE  Exact(r, b, job[g].from - report.to, now - report.from)
      <4>1. b.dev = d /\ b.epoch = t.epoch /\ d \in present /\ Running(b)
        BY <1>2, <1>5, <3>5 DEF Matches, Running
      <4>2. Stored(b, report.from, report.to)
        BY <1>9, <2>3, <3>2, <3>3, <4>1
      <4>3. Matches(p, b) /\ p.at \in report.from .. report.to
        BY <4>1, <4>2 DEF Stored, p
      <4>4. /\ report.from \in Nat /\ report.to \in Nat /\ now \in Nat /\ job[g].from \in Nat
            /\ p.at \in Nat /\ t.at \in Nat /\ 1 <= p.at /\ job[g].from <= now
        BY <1>2, <1>3, <1>4, <1>11, <2>7, <4>3, Alone, SampleFields
      <4>5. /\ job[g].from - report.to \in Int /\ now - report.from \in Int
            /\ job[g].from - report.to <= t.at - p.at /\ t.at - p.at <= now - report.from
        BY <1>3, <4>3, <4>4
      <4>6. r = PercentRow(p, t)
        <5>1. ~FirstPercent(d)
          BY <4>4 DEF FirstPercent, p
        <5> QED
          BY <1>8, <4>1, <5>1
      <4> HIDE DEF b
      <4>7. Exact(PercentRow(p, t), b, job[g].from - report.to, now - report.from)
        BY <1>2, <1>3, <1>4, <1>7, <4>1, <4>3, <4>5, PercentIsExact
      <4> QED
        BY <4>6, <4>7
    <3> QED
      BY <3>4, <3>5
  <2>8. ASSUME report.alone PROVE RowsExact(g)'
    <3>1. RowsExact(g)
      BY <1>2, <1>11, <2>8 DEF ExactInv, BusyInv
    <3>2. ASSUME NEW i \in 1 .. k, NEW j \in DOMAIN report.rows, Running(job'[g].rows[i]),
                 job'[g].rows[i].dev = report.rows[j].dev, job'[g].rows[i].epoch = report.rows[j].epoch
          PROVE  Exact(job'[g].rows[i], report.rows[j], job[g].from - report.to, now - report.from)
      <4>1. CASE i = k
        BY <1>9, <2>7, <2>8, <3>2, <4>1
      <4>2. CASE i \in 1 .. k - 1
        BY <1>9, <3>1, <3>2, <4>2 DEF RowsExact
      <4> QED
        BY <1>10, <4>1, <4>2
    <3> QED
      BY <1>6, <1>9, <3>2 DEF RowsExact, Exact, Running
  <2> QED
    BY <1>6, <2>6, <2>7, <2>8
<1>12. job[g].alone => \A i \in DOMAIN job'[g].list : job[g].from <= job'[g].list[i].at
  BY <1>1 DEF ExactInv, AloneInv
<1>13. ~(input \in {"net", "diskio"})
  BY <1>2
<1> QED
  BY <1>1, <1>11, <1>12, <1>13, CallExact

LEMMA ReportExact ==
    ASSUME TypesInv, ExactInv, NEW g \in Gatherers, Report(g)
    PROVE  ExactInv'
<1>1. /\ Others(g) /\ job'[g] = Idle /\ UNCHANGED plugin
      /\ UNCHANGED <<setup, now, present, total, epoch>> /\ before' = report
      /\ report'.alone = job[g].alone /\ report'.from = job[g].from /\ report'.to = now /\ report'.rows = job[g].rows
      /\ job[g].step = "report" \/ (job[g].step \in {"diff", "percent"} /\ ~More(g))
  BY ReportEffect
<1>2. \A h \in Gatherers \ {g} : job'[h] = job[h] /\ ~job[h].alone
  BY <1>1 DEF ExactInv, AloneInv, Others
<1>3. \A h \in Gatherers : ~job'[h].alone
  BY <1>1, <1>2 DEF Idle
<1>4. input' = input /\ now' = now /\ cur' = cur /\ last' = last /\ cpu' = cpu
  BY <1>1 DEF input, plugin
<1>5. CASE ~job[g].alone
  <2>1. ~report'.alone
    BY <1>1, <1>5
  <2>2. AloneInv' /\ DiffInv' /\ BusyInv' /\ AloneExact'
    BY <1>3, <2>1 DEF AloneInv, DiffInv, BusyInv, AloneExact
  <2> QED
    BY <2>2 DEF ExactInv
<1>6. ASSUME job[g].alone PROVE ExactInv'
  <2>1. job[g].from \in 1 .. now /\ now \in Nat /\ \A i \in DOMAIN job[g].list : job[g].list[i].at \in job[g].from .. now
    BY <1>6, Alone
  <2>2. AloneInv'
    BY <1>1, <1>3, <2>1 DEF AloneInv
  <2>3. DiffInv'
    <3>1. ASSUME input \in {"net", "diskio"} PROVE Behind(cur, report)' /\ last' \in report'.from .. report'.to
      <4>1. job[g].step = "diff" /\ ~More(g) /\ last \in 0 .. now
        BY <1>1, <3>1, CallFields DEF TypesInv, StepsOf, PluginType
      <4>2. /\ job[g].list \in Seq(Samples) /\ job[g].rows \in Seq(Rows) /\ job[g].k \in Nat
            /\ Len(job[g].rows) = job[g].k - 1 /\ job[g].k <= Len(job[g].list) + 1
        BY <4>1, CallFields DEF TypesInv, Sized
      <4>3. Len(job[g].list) = Len(job[g].rows) /\ DOMAIN job[g].list = DOMAIN job[g].rows
        BY <4>1, <4>2 DEF More
      <4>4. /\ Distinct(job[g].list) /\ cur = job[g].list /\ job[g].from <= last
            /\ \A i \in DOMAIN job[g].rows : Matches(job[g].list[i], job[g].rows[i])
        BY <1>6, <3>1, <4>1 DEF ExactInv, DiffInv, DiffOwn
      <4>5. Behind(cur, report)'
        BY <1>1, <1>4, <2>1, <4>3, <4>4 DEF Behind, Distinct
      <4>6. last' \in report'.from .. report'.to
        BY <1>1, <1>4, <2>1, <4>1, <4>4
      <4> QED
        BY <4>5, <4>6
    <3> QED
      BY <1>3, <1>4, <3>1 DEF DiffInv
  <2>4. BusyInv'
    <3>1. ASSUME input \in {"system", "procstat"}, NEW j \in DOMAIN job[g].rows
          PROVE  Stored(job[g].rows[j], job[g].from, now)
      BY <1>6, <3>1 DEF ExactInv, BusyInv, BusyOwn
    <3>2. input \in {"system", "procstat"} => \A j \in DOMAIN report'.rows : Stored(report.rows[j], report.from, report.to)'
      BY <1>1, <1>4, <3>1 DEF Stored, Running
    <3> QED
      BY <1>3, <1>4, <3>2 DEF BusyInv
  <2>5. AloneExact'
    <3>1. report.alone /\ input # "disk" => RowsExact(g)
      BY <1>6, Inputs DEF ExactInv, DiffInv, BusyInv, TypesInv
    <3> QED
      BY <1>1, <1>4, <3>1 DEF AloneExact, RowsExact, Exact, Running
  <2> QED
    BY <2>2, <2>3, <2>4, <2>5 DEF ExactInv
<1> QED
  BY <1>5, <1>6

LEMMA AllIdle ==
    ASSUME TypesInv, IdleAll, NEW h \in Gatherers
    PROVE  job[h].rows = <<>> /\ job[h].list = <<>>
<1>1. Sized(job[h]) /\ job[h].step = "idle"
  BY CallFields DEF IdleAll, TypesInv
<1> QED
  BY <1>1 DEF Sized, Idle

LEMMA BeginExact ==
    ASSUME TypesInv, ExactInv, NEW g \in Gatherers, NEW s \in {"keep", "select", "swap", "percent"} \cap StepsOf(input),
           NEW list \in Seq(Samples), Distinct(list), s = "swap" => Len(list) = 1, Begin(g, s, list),
           \A i \in DOMAIN list : list[i] = Sample(list[i].dev)
    PROVE  ExactInv'
<1> DEFINE steady == series.steady /\ \A o \in Gatherers : job[o].step = "idle" \/ job[o].steady
           c == [Idle EXCEPT !.step = s, !.list = list, !.from = now, !.alone = IdleAll, !.steady = steady]
<1>1. /\ job' = [h \in Gatherers |-> IF h = g THEN c ELSE [job[h] EXCEPT !.alone = FALSE]]
      /\ setup' = setup /\ now' = now /\ present' = present /\ epoch' = epoch /\ report' = report /\ before' = before
      /\ cur' = cur /\ last' = last /\ cpu' = cpu /\ input' = input
      /\ job[g].step = "idle"
  BY DEF Begin, At, IdleAll, machine, plugin, history, input
<1>2. /\ IdleAll \in BOOLEAN /\ steady \in BOOLEAN /\ MachineType /\ s \in StepsOf(input) /\ Begins(c, s, list, IdleAll, steady)
  BY DEF IdleAll, TypesInv, PagesType, Begins
<1> HIDE DEF c, steady
<1>3. /\ c.step = s /\ c.list = list /\ c.k = 1 /\ c.stat = <<>> /\ c.rows = <<>> /\ c.alone = IdleAll /\ c.from = now
  BY <1>2, Begun
<1>4. /\ job'[g].step = s /\ job'[g].list = list /\ job'[g].k = 1 /\ job'[g].stat = <<>> /\ job'[g].rows = <<>>
      /\ job'[g].alone = IdleAll /\ job'[g].from = now
  BY <1>1, <1>3
<1>5. \A h \in Gatherers \ {g} :
         /\ job'[h].step = job[h].step /\ job'[h].rows = job[h].rows /\ job'[h].list = job[h].list /\ ~job'[h].alone
  <2> SUFFICES ASSUME NEW h \in Gatherers \ {g}
               PROVE  /\ job'[h].step = job[h].step /\ job'[h].rows = job[h].rows /\ job'[h].list = job[h].list
                      /\ ~job'[h].alone
    OBVIOUS
  <2>1. job[h] \in Jobs /\ job'[h] = [job[h] EXCEPT !.alone = FALSE]
    BY <1>1, CallFields DEF TypesInv
  <2> QED
    BY <2>1 DEF Jobs
<1>6. ~IdleAll'
  BY <1>4 DEF IdleAll
<1>7. ASSUME NEW i \in DOMAIN list PROVE list[i].at = now /\ \A p \in Samples : Later(p, list[i])
  <2>1. list[i].dev \in Devices /\ list[i] = Sample(list[i].dev)
    BY <1>2, <1>7, SampleFields
  <2> QED
    BY <1>2, <2>1, SampleLater, SampleType
<1>8. AloneInv'
  <2>1. now \in Nat /\ 1 <= now
    BY <1>2, Inputs
  <2>2. report'.alone => 1 <= report'.from /\ report'.from <= report'.to
    BY <1>1 DEF ExactInv, AloneInv
  <2>3. ASSUME NEW h \in Gatherers, job'[h].alone
        PROVE  /\ \A o \in Gatherers \ {h} : job'[o].step = "idle"
               /\ job'[h].step # "idle" /\ 1 <= job'[h].from
               /\ \A i \in DOMAIN job'[h].list : job'[h].from <= job'[h].list[i].at
    <3>1. h = g /\ IdleAll
      BY <1>4, <1>5, <2>3
    <3>2. \A o \in Gatherers \ {g} : job'[o].step = "idle"
      BY <1>5, <3>1 DEF IdleAll
    <3>3. s # "idle" /\ \A i \in DOMAIN list : now <= list[i].at
      BY <1>7, <2>1
    <3> QED
      BY <1>4, <2>1, <3>1, <3>2, <3>3
  <2> QED
    BY <2>2, <2>3 DEF AloneInv
<1>9. DiffInv'
  <2>1. ASSUME IdleAll, input \in {"net", "diskio"} PROVE DiffOwn(g)'
    <3>1. LaterAll(cur, list)
      <4>1. cur \in Seq(Samples)
        BY DEF TypesInv, PluginType
      <4> QED
        BY <1>7, <4>1 DEF LaterAll
    <3>2. s \in {"keep", "select"}
      BY <2>1, <1>2 DEF StepsOf
    <3> QED
      BY <1>1, <1>4, <3>1, <3>2 DEF DiffOwn, Distinct, LaterAll
  <2>2. ASSUME IdleAll, input \in {"net", "diskio"}, report.alone PROVE DiffBase(g)' /\ RowsExact(g)'
    <3>1. Behind(cur, report) /\ last \in report.from .. report.to /\ s \in {"keep", "select"}
      BY <2>2, <1>2 DEF StepsOf, ExactInv, DiffInv
    <3> QED
      BY <1>1, <1>4, <3>1 DEF DiffBase, Behind, Distinct, RowsExact
  <2> QED
    BY <1>1, <1>4, <1>5, <1>6, <2>1, <2>2 DEF DiffInv
<1>10. BusyInv'
  <2>1. ASSUME IdleAll, input \in {"system", "procstat"} PROVE BusyOwn(g)'
    <3>1. s = "swap" => Later(cpu[list[1].dev], list[1])
      <4>1. ASSUME s = "swap" PROVE list[1].dev \in Devices /\ 1 \in DOMAIN list
        BY <4>1, <1>2, SampleFields
      <4>2. cpu \in [Devices -> Samples]
        BY DEF TypesInv, PluginType
      <4> QED
        BY <1>7, <4>1, <4>2
    <3> QED
      BY <1>1, <1>4, <3>1 DEF BusyOwn, Distinct, Later
  <2>2. ASSUME IdleAll, input \in {"system", "procstat"}, report.alone
        PROVE  RowsExact(g)' /\ \A j \in DOMAIN report.rows : Stored(report.rows[j], report.from, report.to)'
    <3>1. \A j \in DOMAIN report.rows : NotYet(report.rows[j])
      BY <2>2, AllIdle DEF NotYet
    <3>2. \A j \in DOMAIN report.rows : Stored(report.rows[j], report.from, report.to)
      BY <2>2, <3>1 DEF ExactInv, BusyInv
    <3> QED
      BY <1>1, <1>4, <3>2 DEF RowsExact, Stored, Running
  <2> QED
    BY <1>1, <1>4, <1>5, <1>6, <2>1, <2>2 DEF BusyInv
<1>11. AloneExact'
  BY <1>1 DEF ExactInv, AloneExact, Exact, Running
<1> QED
  BY <1>8, <1>9, <1>10, <1>11 DEF ExactInv

LEMMA OrderDistinct ==
    ASSUME MachineType, NEW S \in SUBSET Devices, NEW q \in Orders(S)
    PROVE  LET list == [i \in DOMAIN q |-> Sample(q[i])]
           IN  /\ list \in Seq(Samples) /\ Distinct(list)
               /\ \A i \in DOMAIN list : list[i] = Sample(list[i].dev)
<1> DEFINE list == [i \in DOMAIN q |-> Sample(q[i])]
<1>1. list \in Seq(Samples) /\ \A i \in DOMAIN q : q[i] \in Devices
  BY OrderSampled
<1>2. DOMAIN list = DOMAIN q /\ \A i \in DOMAIN q : list[i] = Sample(q[i]) /\ list[i].dev = q[i]
  BY <1>1, SampleType
<1> HIDE DEF list
<1>3. \A i, j \in DOMAIN q : q[i] = q[j] => i = j
  BY DEF Orders
<1>4. Distinct(list) /\ \A i \in DOMAIN list : list[i] = Sample(list[i].dev)
  BY <1>2, <1>3 DEF Distinct
<1> QED
  BY <1>1, <1>4 DEF list

LEMMA ReadExact ==
    ASSUME TypesInv, ExactInv, NEW g \in Gatherers, ReadNet(g) \/ ReadDisks(g) \/ ReadTimes(g) \/ ReadProcs(g)
    PROVE  ExactInv'
<1>1. MachineType /\ names \in SUBSET Devices /\ present \in SUBSET Devices /\ DiskUsage \in SUBSET Devices
  BY DEF TypesInv, MachineType, PluginType, DiskUsage
<1>2. ASSUME NEW S \in SUBSET Devices, NEW q \in Orders(S), NEW s \in {"keep", "select", "percent"} \cap StepsOf(input),
             Begin(g, s, [i \in DOMAIN q |-> Sample(q[i])])
      PROVE  ExactInv'
  <2> DEFINE list == [i \in DOMAIN q |-> Sample(q[i])]
  <2>1. list \in Seq(Samples) /\ Distinct(list) /\ \A i \in DOMAIN list : list[i] = Sample(list[i].dev)
    BY <1>1, OrderDistinct
  <2>2. Begin(g, s, list)
    BY <1>2
  <2> HIDE DEF list
  <2>3. s # "swap"
    OBVIOUS
  <2> QED
    BY <2>1, <2>2, <2>3, BeginExact
<1>3. CASE ReadNet(g)
  <2> DEFINE S == present \cap names
             q == Sorted(S)
  <2>1. S \in SUBSET Devices /\ IsFiniteSet(S) /\ S \in SUBSET Nat
    BY <1>1, Inputs, FS_Subset
  <2>2. q \in Orders(S) /\ DOMAIN q = 1 .. Cardinality(S)
    <3>1. q \in Orders(S)
      BY <2>1, SortedOrder
    <3> HIDE DEF q, S
    <3> QED
      BY <1>1, <2>1, <3>1, OrderSampled
  <2>3. Begin(g, "keep", [i \in DOMAIN q |-> Sample(q[i])]) /\ "keep" \in StepsOf(input)
    BY <1>3, <2>2 DEF ReadNet, StepsOf
  <2> HIDE DEF S, q
  <2> QED
    BY <1>2, <2>1, <2>2, <2>3
<1>4. CASE ReadDisks(g)
  <2> DEFINE S == IF input = "disk" THEN DiskUsage ELSE present
  <2>1. S \in SUBSET Devices /\ "select" \in StepsOf(input)
    BY <1>1, <1>4 DEF ReadDisks, StepsOf
  <2>2. PICK q \in Orders(S) : Begin(g, "select", [i \in DOMAIN q |-> Sample(q[i])])
    BY <1>4 DEF ReadDisks
  <2> HIDE DEF S
  <2> QED
    BY <1>2, <2>1, <2>2
<1>5. CASE ReadTimes(g)
  <2>1. PICK d \in names : Begin(g, "swap", <<Sample(d)>>)
    BY <1>5 DEF ReadTimes
  <2> DEFINE list == <<Sample(d)>>
  <2>2. Sample(d) \in Samples /\ Sample(d).dev = d
    BY <1>1, SampleType
  <2>3. /\ list \in Seq(Samples) /\ Len(list) = 1 /\ Distinct(list) /\ "swap" \in StepsOf(input)
        /\ \A i \in DOMAIN list : list[i] = Sample(list[i].dev)
    BY <1>5, <2>2 DEF ReadTimes, StepsOf, Distinct
  <2>4. Begin(g, "swap", list)
    BY <2>1
  <2> HIDE DEF list
  <2> QED
    BY <2>3, <2>4, BeginExact
<1>6. CASE ReadProcs(g)
  <2>1. PICK q \in Orders(names) : Begin(g, "percent", [i \in DOMAIN q |-> Sample(q[i])])
    BY <1>6 DEF ReadProcs
  <2>2. "percent" \in StepsOf(input)
    BY <1>6 DEF ReadProcs, StepsOf
  <2> QED
    BY <1>1, <1>2, <2>1, <2>2
<1> QED
  BY <1>3, <1>4, <1>5, <1>6

\* Steps that leave alone what the calls know: at most time goes on, or a device changes.
Quiet ==
    /\ setup' = setup /\ now' \in Nat /\ now <= now'
    /\ cur' = cur /\ prev' = prev /\ last' = last /\ cpu' = cpu /\ before' = before
    /\ \A g \in Gatherers :
         /\ job'[g].step = job[g].step /\ job'[g].list = job[g].list /\ job'[g].k = job[g].k /\ job'[g].stat = job[g].stat
         /\ job'[g].rows = job[g].rows /\ job'[g].span = job[g].span
         /\ job'[g].alone = job[g].alone /\ job'[g].from = job[g].from
    /\ report'.alone = report.alone /\ report'.from = report.from /\ report'.to = report.to /\ report'.rows = report.rows
    /\ \A r \in Rows : (Running(r))' => Running(r)

LEMMA QuietExact ==
    ASSUME TypesInv, ExactInv, Quiet
    PROVE  ExactInv'
<1>1. /\ input' = input /\ now \in Nat /\ now' \in Nat /\ now <= now' /\ report.from \in Nat /\ report.to \in Nat
      /\ report.rows \in Seq(Rows) /\ before.rows \in Seq(Rows) /\ \A g \in Gatherers : job[g].rows \in Seq(Rows) /\ job[g].from \in Nat
  BY CallFields, Inputs DEF Quiet, input, TypesInv, ReportsType, Reports
<1>2. ASSUME NEW r, NEW b, NEW low \in Int, NEW high \in Int, NEW later \in Int, high <= later, Exact(r, b, low, high)
      PROVE  Exact(r, b, low, later)'
  BY <1>1, <1>2 DEF Exact
<1>3. AloneInv'
  BY DEF Quiet, ExactInv, AloneInv
<1>4. IdleAll' = IdleAll
  BY DEF Quiet, IdleAll
<1>5. ASSUME NEW g \in Gatherers
      PROVE  /\ DiffOwn(g) => DiffOwn(g)'
             /\ DiffBase(g) => DiffBase(g)'
             /\ RowsExact(g) => RowsExact(g)'
             /\ BusyOwn(g) => BusyOwn(g)'
  <2>1. DiffOwn(g) => DiffOwn(g)'
    BY DEF Quiet, DiffOwn, Distinct, LaterAll
  <2>2. DiffBase(g) => DiffBase(g)'
    <3>1. job[g].span \in (job[g].from - report.to) .. (now - report.from)
            => job[g].span \in (job[g].from - report.to) .. (now' - report.from)
      BY <1>1
    <3> QED
      BY <3>1 DEF Quiet, DiffBase, Behind, Distinct
  <2>3. ASSUME RowsExact(g) PROVE RowsExact(g)'
    <3> SUFFICES ASSUME NEW i \in DOMAIN job[g].rows, NEW j \in DOMAIN report.rows, Running(job[g].rows[i]),
                        job[g].rows[i].dev = report.rows[j].dev, job[g].rows[i].epoch = report.rows[j].epoch
                 PROVE  Exact(job[g].rows[i], report.rows[j], job[g].from - report.to, now' - report.from)
      <4>1. \A i \in DOMAIN job[g].rows : job[g].rows[i] \in Rows
        BY <1>1
      <4>2. /\ job'[g].rows = job[g].rows /\ report'.rows = report.rows /\ report'.to = report.to /\ report'.from = report.from
            /\ job'[g].from = job[g].from /\ \A r \in Rows : (Running(r))' => Running(r)
        BY DEF Quiet
      <4>3. \A i \in DOMAIN job[g].rows : Running(job[g].rows[i])' => Running(job[g].rows[i])
        BY <4>1, <4>2 DEF Running
      <4> QED
        BY <1>1, <4>2, <4>3 DEF RowsExact, Exact
    <3>1. Exact(job[g].rows[i], report.rows[j], job[g].from - report.to, now - report.from)
      BY <2>3 DEF RowsExact
    <3>2. now - report.from <= now' - report.from /\ now - report.from \in Int /\ now' - report.from \in Int
          /\ job[g].from - report.to \in Int
      BY <1>1
    <3> QED
      BY <3>1, <3>2 DEF Exact
  <2>4. ASSUME BusyOwn(g) PROVE BusyOwn(g)'
    <3>1. \A i \in DOMAIN job[g].rows : job[g].rows[i] \in Rows
      BY <1>1
    <3>2. \A i \in DOMAIN job[g].rows : Running(job[g].rows[i])' => Running(job[g].rows[i])
      BY <3>1 DEF Quiet, Running
    <3>3. \A i \in DOMAIN job'[g].rows : Stored(job[g].rows[i], job[g].from, now)'
      <4> SUFFICES ASSUME NEW i \in DOMAIN job[g].rows, Running(job[g].rows[i])'
                   PROVE  Matches(cpu[job[g].rows[i].dev], job[g].rows[i]) /\ cpu[job[g].rows[i].dev].at \in job[g].from .. now'
        BY DEF Quiet, Stored
      <4>1. Matches(cpu[job[g].rows[i].dev], job[g].rows[i]) /\ cpu[job[g].rows[i].dev].at \in job[g].from .. now
        BY <2>4, <3>2 DEF BusyOwn, Stored
      <4> QED
        BY <1>1, <4>1
    <3> QED
      BY <2>4, <3>3 DEF Quiet, BusyOwn, Distinct, Later
  <2> QED
    BY <2>1, <2>2, <2>3, <2>4
<1>6. DiffInv'
  <2>1. IdleAll' => (Behind(cur, report) => Behind(cur, report)')
    BY DEF Quiet, Behind, Distinct
  <2> QED
    BY <1>1, <1>4, <1>5, <2>1 DEF Quiet, ExactInv, DiffInv
<1>7. BusyInv'
  <2>1. ASSUME NEW j \in DOMAIN report.rows
        PROVE  /\ NotYet(report.rows[j])' => NotYet(report.rows[j])
               /\ Stored(report.rows[j], report.from, report.to) => Stored(report.rows[j], report.from, report.to)'
    <3>1. NotYet(report.rows[j])' => NotYet(report.rows[j])
      BY DEF Quiet, NotYet
    <3>2. report.rows[j] \in Rows
      BY <1>1
    <3>3. Running(report.rows[j])' => Running(report.rows[j])
      BY <3>2 DEF Quiet, Running
    <3> QED
      BY <3>1, <3>3 DEF Quiet, Stored
  <2>2. DOMAIN report'.rows = DOMAIN report.rows /\ report'.alone = report.alone
        /\ \A g \in Gatherers : job'[g].alone = job[g].alone
    BY DEF Quiet
  <2> QED
    BY <1>1, <1>4, <1>5, <2>1, <2>2 DEF ExactInv, BusyInv
<1>8. AloneExact'
  <2>1. \A i \in DOMAIN report.rows : report.rows[i] \in Rows
    BY <1>1
  <2>2. \A i \in DOMAIN report.rows : Running(report.rows[i])' => Running(report.rows[i])
    BY <2>1 DEF Quiet, Running
  <2>3. /\ report'.alone = report.alone /\ report'.rows = report.rows /\ report'.from = report.from /\ report'.to = report.to
        /\ before' = before /\ input' = input
    BY <1>1 DEF Quiet, input
  <2>4. \A r, b, low, high : Exact(r, b, low, high)' <=> Exact(r, b, low, high)
    BY <2>3 DEF Exact
  <2>5. AloneExact
    BY DEF ExactInv
  <2> QED
    BY <2>2, <2>3, <2>4, <2>5 DEF AloneExact, Exact
<1> QED
  BY <1>3, <1>6, <1>7, <1>8 DEF ExactInv

LEMMA UnsteadyQuiet ==
    ASSUME TypesInv, setup' = setup, now' \in Nat, now <= now', UNCHANGED <<cur, prev, last, cpu>>, before' = before,
           Unsteady \/ UNCHANGED <<job, report>>, \A r \in Rows : (Running(r))' => Running(r)
    PROVE  Quiet
<1>1. ASSUME NEW g \in Gatherers
      PROVE  /\ job'[g].step = job[g].step /\ job'[g].list = job[g].list /\ job'[g].k = job[g].k /\ job'[g].stat = job[g].stat
             /\ job'[g].rows = job[g].rows /\ job'[g].span = job[g].span
             /\ job'[g].alone = job[g].alone /\ job'[g].from = job[g].from
  <2>1. CASE Unsteady
    <3>1. job[g] \in Jobs /\ job'[g] = [job[g] EXCEPT !.steady = FALSE]
      BY <2>1, CallFields DEF TypesInv, Unsteady
    <3> QED
      BY <3>1 DEF Jobs
  <2> QED
    BY <2>1
<1>2. report'.alone = report.alone /\ report'.from = report.from /\ report'.to = report.to /\ report'.rows = report.rows
  <2>1. CASE Unsteady
    <3>1. report \in Reports /\ report' = [report EXCEPT !.steady = FALSE]
      BY <2>1 DEF TypesInv, ReportsType, Unsteady
    <3> QED
      BY <3>1 DEF Reports
  <2> QED
    BY <2>1
<1> QED
  BY <1>1, <1>2 DEF Quiet

LEMMA SeriesQuiet ==
    ASSUME TypesInv, NEW p \in Pages, Series(p)
    PROVE  Quiet
<1>1. /\ setup' = setup /\ now' = now /\ present' = present /\ epoch' = epoch /\ before' = before
      /\ UNCHANGED <<cur, prev, last, cpu>> /\ (Unsteady \/ UNCHANGED <<job, report>>)
  BY DEF Series, PageFixed, PageProcs, PageFails, PageDisk, PageDiskIO, AddName, AddCrash, ShowDiskIO, Open,
         PageKept, machine, plugin
<1>2. now' \in Nat /\ now <= now' /\ \A r \in Rows : (Running(r))' => Running(r)
  BY <1>1, Inputs DEF TypesInv, Running, input
<1> QED
  BY <1>1, <1>2, UnsteadyQuiet

LEMMA TickQuiet ==
    ASSUME TypesInv, Tick
    PROVE  Quiet
<1>1. /\ setup' = setup /\ now' = now + 1 /\ present' = present /\ epoch' = epoch /\ before' = before
      /\ UNCHANGED <<cur, prev, last, cpu>> /\ UNCHANGED <<job, report>>
  BY DEF Tick, plugin, history
<1>2. now' \in Nat /\ now <= now'
  BY <1>1, Inputs DEF TypesInv
<1>3. \A r \in Rows : (Running(r))' => Running(r)
  BY <1>1 DEF Running, input
<1> QED
  BY <1>1, <1>2, <1>3, UnsteadyQuiet

LEMMA ChangeQuiet ==
    ASSUME TypesInv, NEW d \in Devices, Change(d)
    PROVE  Quiet
<1>1. /\ setup' = setup /\ now' = now /\ before' = before /\ UNCHANGED <<cur, prev, last, cpu>> /\ Unsteady
      /\ IF d \in present
         THEN present' = present \ {d} /\ epoch' = epoch
         ELSE present' = present \cup {d} /\ epoch' = [epoch EXCEPT ![d] = @ + 1]
  BY DEF Change, plugin
<1>2. now' \in Nat /\ now <= now' /\ epoch \in [Devices -> Nat] /\ input' = input
  BY <1>1, Inputs DEF TypesInv, MachineType, input
<1>3. ASSUME NEW r \in Rows, input = "procstat", r.dev \in present', r.epoch = epoch'[r.dev]
      PROVE  r.dev \in present /\ r.epoch = epoch[r.dev]
  <2>1. r.dev \in Devices /\ r.epoch \in Nat /\ r.epoch <= epoch[r.dev]
    BY DEF Rows
  <2>2. r.dev # d
    BY <1>1, <1>2, <1>3, <2>1
  <2> QED
    BY <1>1, <1>2, <1>3, <2>1, <2>2
<1>4. \A r \in Rows : (Running(r))' => Running(r)
  BY <1>2, <1>3 DEF Running
<1> QED
  BY <1>1, <1>2, <1>4, UnsteadyQuiet

LEMMA ExactInit ==
    ASSUME Init
    PROVE  ExactInv
<1>1. report.alone = FALSE /\ \A g \in Gatherers : job[g].alone = FALSE
  BY DEF Init, Idle, NoReport
<1> QED
  BY <1>1 DEF ExactInv, AloneInv, DiffInv, BusyInv, AloneExact

LEMMA ExactStep ==
    ASSUME TypesInv, ExactInv, [Next]_vars
    PROVE  ExactInv'
<1>1. ASSUME NEW g \in Gatherers, Gather(g) PROVE ExactInv'
  <2>1. ASSUME SelectCrash(g) PROVE ExactInv'
    <3>1. /\ setup' = setup /\ now' = now /\ present' = present /\ epoch' = epoch /\ before' = before
          /\ UNCHANGED <<cur, prev, last, cpu>> /\ UNCHANGED <<job, report>>
      BY <2>1 DEF SelectCrash, Kept, plugin, machine, history
    <3>2. now' \in Nat /\ now <= now' /\ \A r \in Rows : (Running(r))' => Running(r)
      BY <3>1, Inputs DEF TypesInv, Running, input
    <3> QED
      BY <3>1, <3>2, UnsteadyQuiet, QuietExact
  <2> QED
    BY <1>1, <2>1, ReadExact, SelectExact, SelectedExact, KeepExact, StoreExact, LapseExact, StampExact, LoadExact, DiffExact,
       SwapExact, PercentExact, ReportExact DEF Gather
<1>2. CASE UNCHANGED vars
  <2>1. /\ setup' = setup /\ now' = now /\ present' = present /\ epoch' = epoch /\ before' = before
        /\ UNCHANGED <<cur, prev, last, cpu>> /\ UNCHANGED <<job, report>>
    BY <1>2 DEF vars, plugin, machine, history
  <2>2. now' \in Nat /\ now <= now' /\ \A r \in Rows : (Running(r))' => Running(r)
    BY <2>1, Inputs DEF TypesInv, Running, input
  <2> QED
    BY <2>1, <2>2, UnsteadyQuiet, QuietExact
<1> QED
  BY <1>1, <1>2, SeriesQuiet, ChangeQuiet, TickQuiet, QuietExact DEF Next

\* A call of Gather that overlaps no other, after one that overlapped none, shows what the
\* counters of a device grew in between, whatever calls before them mixed up in
\* gPrevNetStats, gCurNetStats, lastStatsTime and lastCPUTimes.  (diff of net and diskio,
\* CPUBusyPercent of system, addMetric of procstat)
THEOREM AloneCallsExact == Spec => []AloneExact
<1>1. Init => TypesInv /\ ExactInv
  BY TypesInit, ExactInit
<1>2. TypesInv /\ ExactInv /\ [Next]_vars => TypesInv' /\ ExactInv'
  BY TypesStep, ExactStep
<1>3. ExactInv => AloneExact
  BY DEF ExactInv
<1> QED
  BY <1>1, <1>2, <1>3, PTL DEF Spec

(***************************************************************************)
(* PointsMatchSeries                                                       *)
(***************************************************************************)
Devs(list) == [i \in DOMAIN list |-> list[i].dev]

\* What the plugin goes through, picks from that, reports on, and what the page shows.
Basis    == IF input = "disk" THEN DiskUsage ELSE present
Picked   == IF input = "disk" THEN {path} ELSE names
Reported == IF input \in {"system", "procstat"} THEN names ELSE Basis \cap Picked
Shown    == IF input = "disk" THEN Basis \cap Picked ELSE names

Good(devs) == devs \in Orders(Reported) /\ (input = "net" => devs = Sorted(Reported))

PagesInv ==
    /\ \A p \in Pages : page[p].step = "add" =>
         /\ input = "diskio" /\ ~series.steady
         /\ page[p].steady => /\ names \subseteq Range(page[p].list)
                              /\ \A o \in Pages \ {p} : page[o].step = "idle"
    /\ \A p \in Pages : page[p].steady => page[p].step = "add"
    /\ series.steady => /\ series.devs \in Orders(Shown)
                        /\ input = "net" => series.devs = Sorted(Shown)
    /\ input = "system" => \E d \in Devices : names = {d}

\* How far a call has come that goes by what the page shows.
SteadyCall(g) ==
    /\ job[g].step = "select" =>
         /\ Devs(job[g].list) \in Orders(Basis) /\ Distinct(job[g].stat)
         /\ \A d \in Devices : (\E i \in DOMAIN job[g].stat : job[g].stat[i].dev = d)
                                 <=> d \in Picked /\ \E i \in 1 .. job[g].k - 1 : job[g].list[i].dev = d
    /\ job[g].step \in {"keep", "store", "since", "stamp", "load", "diff", "swap", "percent"} => Good(Devs(job[g].list))
    /\ job[g].step \in {"since", "stamp", "load"} => Good(Devs(cur))
    /\ job[g].step \in {"diff", "percent"} => \A i \in DOMAIN job[g].rows : job[g].rows[i].dev = job[g].list[i].dev
    /\ job[g].step = "report" => Good(Devs(job[g].rows))

\* When a call is steady, so are all those under way, and so is what they keep.
SteadyInv ==
    /\ report.steady => series.steady /\ Good(Devs(report.rows))
    /\ \A g \in Gatherers : job[g].steady =>
         /\ series.steady
         /\ \A h \in Gatherers : job[h].step = "idle" \/ job[h].steady
         /\ SteadyCall(g)

PointsInv == PagesInv /\ SteadyInv

LEMMA SameDevices ==
    ASSUME setup' = setup, present' = present, names' = names, path' = path
    PROVE  /\ input' = input /\ Devices' = Devices /\ Basis' = Basis /\ Picked' = Picked
           /\ Reported' = Reported /\ Shown' = Shown
<1>1. input' = input /\ Devices' = Devices /\ DiskUsage' = DiskUsage
  BY DEF input, Devices, DiskUsage
<1> QED
  BY <1>1 DEF Basis, Picked, Reported, Shown

LEMMA PagesKept ==
    ASSUME PagesInv, UNCHANGED <<setup, present, names, path, page, series>>
    PROVE  PagesInv'
<1>1. input' = input /\ Devices' = Devices /\ Shown' = Shown
  BY SameDevices
<1> QED
  BY <1>1 DEF PagesInv

LEMMA NoneSteady ==
    ASSUME \A g \in Gatherers : ~job'[g].steady, ~report'.steady
    PROVE  SteadyInv'
BY DEF SteadyInv

\* When the page is not steady, neither is what goes by it.
LEMMA PageUnsteady ==
    ASSUME SteadyInv, ~series.steady, UNCHANGED <<job, report>>
    PROVE  SteadyInv'
BY DEF SteadyInv

LEMMA UnsteadyAll ==
    ASSUME TypesInv, Unsteady
    PROVE  SteadyInv'
<1>1. \A g \in Gatherers : job[g] \in Jobs
  BY CallFields DEF TypesInv
<1>2. report \in Reports
  BY DEF TypesInv, ReportsType
<1>3. \A g \in Gatherers : ~job'[g].steady
  BY <1>1 DEF Unsteady, Jobs
<1>4. ~report'.steady
  BY <1>2 DEF Unsteady, Reports
<1> QED
  BY <1>3, <1>4, NoneSteady

LEMMA CallSteady ==
    ASSUME TypesInv, PointsInv, NEW g \in Gatherers, job[g].step # "idle", Others(g), Same(g),
           job[g].steady => SteadyCall(g)' /\ (cur' = cur \/ Good(Devs(cur))')
    PROVE  PointsInv'
<1>1. /\ UNCHANGED <<setup, present, names, path, page, series>> /\ report' = report /\ job'[g].steady = job[g].steady
      /\ \A h \in Gatherers \ {g} : job'[h] = job[h]
  BY DEF Same, Others
<1>2. input' = input /\ Devices' = Devices /\ Basis' = Basis /\ Picked' = Picked /\ Reported' = Reported
  BY <1>1, SameDevices
<1>3. PagesInv'
  BY <1>1, PagesKept DEF PointsInv
<1>4. report'.steady => series'.steady /\ Good(Devs(report.rows))'
  BY <1>1, <1>2 DEF PointsInv, SteadyInv, Good, Devs
<1>5. ASSUME NEW h \in Gatherers, job'[h].steady
      PROVE  /\ series'.steady /\ SteadyCall(h)'
             /\ \A o \in Gatherers : job'[o].step = "idle" \/ job'[o].steady
  <2>1. job[h].steady
    BY <1>1, <1>5
  <2>2. series.steady /\ SteadyCall(h) /\ \A o \in Gatherers : job[o].step = "idle" \/ job[o].steady
    BY <2>1 DEF PointsInv, SteadyInv
  <2>3. job[g].steady
    BY <2>2
  <2>4. \A o \in Gatherers : job'[o].step = "idle" \/ job'[o].steady
    BY <1>1, <2>2, <2>3
  <2>5. ASSUME h # g PROVE SteadyCall(h)'
    <3>1. job'[h] = job[h] /\ (cur' = cur \/ Good(Devs(cur))')
      BY <1>1, <2>3, <2>5
    <3> QED
      BY <1>2, <2>2, <3>1 DEF SteadyCall, Good, Devs, Distinct
  <2> QED
    BY <1>1, <2>2, <2>3, <2>4, <2>5
<1>6. SteadyInv'
  BY <1>4, <1>5 DEF SteadyInv
<1> QED
  BY <1>3, <1>6 DEF PointsInv

LEMMA SameDevs ==
    ASSUME NEW a, NEW b, DOMAIN a = DOMAIN b, \A i \in DOMAIN a : a[i].dev = b[i].dev
    PROVE  Devs(a) = Devs(b)
BY DEF Devs

\* The part of SteadyInv that is about one call.
LEMMA Steady ==
    ASSUME PointsInv, NEW g \in Gatherers, job[g].steady
    PROVE  SteadyCall(g)
BY DEF PointsInv, SteadyInv

LEMMA SelectSteady ==
    ASSUME TypesInv, PointsInv, NEW g \in Gatherers, Select(g)
    PROVE  PointsInv'
<1> DEFINE s == This(g)
           k == job[g].k
           stat == IF Chosen(s.dev) THEN Append(job[g].stat, s) ELSE job[g].stat
<1>1. /\ Others(g) /\ Same(g) /\ UNCHANGED plugin /\ job[g].step = "select" /\ More(g)
      /\ job'[g].step = "select" /\ job'[g].list = job[g].list /\ job'[g].k = k + 1
      /\ job'[g].stat = stat
  BY SelectEffect
<1>2. /\ job[g].list \in Seq(Samples) /\ job[g].stat \in Seq(Samples) /\ MachineType
      /\ k \in 1 .. Len(job[g].list) /\ s = job[g].list[k] /\ s \in Samples
  BY <1>1, CallFields, ThisType DEF TypesInv, This
<1>3. /\ input' = input /\ Devices' = Devices /\ Basis' = Basis /\ Picked' = Picked
  BY <1>1, SameDevices DEF Same
<1>4. Chosen(s.dev) <=> s.dev \in Picked
  BY DEF Chosen, Picked
<1>5. s.dev \in Devices
  BY <1>2, SampleFields
<1> HIDE DEF s
<1>6. ASSUME job[g].steady PROVE SteadyCall(g)'
  <2>1. /\ Devs(job[g].list) \in Orders(Basis) /\ Distinct(job[g].stat)
        /\ \A d \in Devices : (\E i \in DOMAIN job[g].stat : job[g].stat[i].dev = d)
                                <=> d \in Picked /\ \E i \in 1 .. k - 1 : job[g].list[i].dev = d
    BY <1>1, <1>6, Steady DEF SteadyCall
  <2>2. \A i, j \in DOMAIN job[g].list : i # j => job[g].list[i].dev # job[g].list[j].dev
    BY <2>1 DEF Devs, Orders
  <2>3. \A i \in DOMAIN job[g].stat : job[g].stat[i].dev # s.dev
    <3> SUFFICES ASSUME NEW i \in DOMAIN job[g].stat, job[g].stat[i].dev = s.dev PROVE FALSE
      OBVIOUS
    <3>1. PICK j \in 1 .. k - 1 : job[g].list[j].dev = s.dev
      BY <1>5, <2>1
    <3>2. j \in DOMAIN job[g].list /\ k \in DOMAIN job[g].list /\ j # k
      BY <1>2
    <3> QED
      BY <1>2, <2>2, <3>1, <3>2
  <2>4. \A i \in 1 .. k : i \in 1 .. k - 1 \/ i = k
    BY <1>2
  <2>5. /\ k \in 1 .. k /\ \A i \in 1 .. k - 1 : i \in 1 .. k
    BY <1>2
  <2>6. /\ Distinct(stat)
        /\ \A d \in Devices : (\E i \in DOMAIN stat : stat[i].dev = d)
                                <=> d \in Picked /\ \E i \in 1 .. k : job[g].list[i].dev = d
    <3>1. CASE Chosen(s.dev)
      <4>1. stat = Append(job[g].stat, s) /\ DOMAIN stat = 1 .. Len(job[g].stat) + 1 /\ Len(job[g].stat) \in Nat
            /\ DOMAIN job[g].stat = 1 .. Len(job[g].stat)
        BY <1>2, <3>1
      <4>2. stat[Len(job[g].stat) + 1] = s /\ \A i \in DOMAIN job[g].stat : stat[i] = job[g].stat[i]
        BY <1>2, <4>1
      <4> HIDE DEF stat
      <4>3. \A i \in DOMAIN stat : i \in DOMAIN job[g].stat \/ i = Len(job[g].stat) + 1
        BY <4>1
      <4>4. /\ Len(job[g].stat) + 1 \in DOMAIN stat /\ DOMAIN job[g].stat \subseteq DOMAIN stat
        BY <4>1
      <4>5. Distinct(stat)
        BY <2>1, <2>3, <4>2, <4>3 DEF Distinct
      <4>6. ASSUME NEW d \in Devices
            PROVE  (\E i \in DOMAIN stat : stat[i].dev = d) <=> (\E i \in DOMAIN job[g].stat : job[g].stat[i].dev = d) \/ s.dev = d
        BY <4>2, <4>3, <4>4
      <4>7. ASSUME NEW d \in Devices
            PROVE  (\E i \in 1 .. k : job[g].list[i].dev = d) <=> (\E i \in 1 .. k - 1 : job[g].list[i].dev = d) \/ s.dev = d
        BY <1>2, <2>4, <2>5
      <4> QED
        BY <1>4, <2>1, <3>1, <4>5, <4>6, <4>7
    <3>2. CASE ~Chosen(s.dev)
      <4>1. stat = job[g].stat
        BY <3>2
      <4> HIDE DEF stat
      <4>2. ASSUME NEW d \in Devices, d \in Picked
            PROVE  (\E i \in 1 .. k : job[g].list[i].dev = d) <=> \E i \in 1 .. k - 1 : job[g].list[i].dev = d
        BY <1>2, <1>4, <2>4, <2>5, <3>2, <4>2
      <4> QED
        BY <2>1, <4>1, <4>2
    <3> QED
      BY <3>1, <3>2
  <2> HIDE DEF stat
  <2>7. job'[g].k - 1 = k
    BY <1>1, <1>2
  <2> QED
    BY <1>1, <1>3, <2>1, <2>6, <2>7 DEF SteadyCall, Distinct, Devs
<1>7. cur' = cur /\ job[g].step # "idle"
  BY <1>1 DEF plugin
<1> QED
  BY <1>1, <1>6, <1>7, CallSteady

LEMMA SelectedSteady ==
    ASSUME TypesInv, PointsInv, NEW g \in Gatherers, Selected(g)
    PROVE  PointsInv'
<1> DEFINE stat == job[g].stat
           rows == [i \in DOMAIN stat |-> Row(stat[i], stat[i].total, 0)]
<1>1. /\ Others(g) /\ Same(g) /\ UNCHANGED plugin /\ job[g].step = "select" /\ ~More(g)
      /\ input = "diskio" => job'[g].step = "keep" /\ job'[g].list = stat
      /\ input # "diskio" => job'[g].step = "report" /\ job'[g].rows = rows
  BY SelectedEffect
<1>2. /\ job[g].list \in Seq(Samples) /\ stat \in Seq(Samples) /\ input \in {"diskio", "disk"} /\ MachineType
      /\ job[g].k \in Nat /\ job[g].k <= Len(job[g].list) + 1
  BY <1>1, CallFields, Inputs DEF TypesInv, Sized, StepsOf
<1>3. /\ input' = input /\ Reported' = Reported
  BY <1>1, SameDevices DEF Same
<1>4. ASSUME job[g].steady PROVE Good(Devs(stat))
  <2>1. /\ Devs(job[g].list) \in Orders(Basis) /\ Distinct(stat)
        /\ \A d \in Devices : (\E i \in DOMAIN stat : stat[i].dev = d)
                                <=> d \in Picked /\ \E i \in 1 .. job[g].k - 1 : job[g].list[i].dev = d
    BY <1>1, <1>4, Steady DEF SteadyCall
  <2>2. 1 .. job[g].k - 1 = DOMAIN job[g].list
    BY <1>1, <1>2 DEF More
  <2>3. Basis \subseteq Devices /\ IsFiniteSet(Basis)
    <3>1. Basis \subseteq Devices
      BY <1>2 DEF Basis, DiskUsage, MachineType
    <3> QED
      BY <1>2, <3>1, Inputs, FS_Subset
  <2>4. ASSUME NEW d \in Devices PROVE (\E i \in DOMAIN job[g].list : job[g].list[i].dev = d) <=> d \in Basis
    BY <2>1, <2>3, OrderOnto DEF Devs
  <2>5. Reported = Basis \cap Picked
    BY <1>2 DEF Reported
  <2> DEFINE q == Devs(stat)
             n == Len(stat)
  <2>6. n \in Nat /\ DOMAIN stat = 1 .. n
    BY <1>2
  <2>7. ASSUME NEW i \in 1 .. n PROVE stat[i].dev \in Reported
    <3>1. stat[i].dev \in Devices
      BY <1>2, <2>6, <2>7, SampleFields
    <3> QED
      BY <2>1, <2>2, <2>4, <2>5, <2>6, <2>7, <3>1
  <2>8. q \in [1 .. n -> Reported] /\ \A i \in 1 .. n : q[i] = stat[i].dev
    BY <2>6, <2>7 DEF Devs
  <2>9. \A i, j \in 1 .. n : q[i] = q[j] => i = j
    BY <2>1, <2>6, <2>8 DEF Distinct
  <2>10. ASSUME NEW d \in Reported PROVE \E i \in 1 .. n : q[i] = d
    <3>1. d \in Devices /\ d \in Picked /\ d \in Basis
      BY <2>3, <2>5
    <3>2. PICK i \in DOMAIN stat : stat[i].dev = d
      BY <2>1, <2>2, <2>4, <3>1
    <3> QED
      BY <2>6, <2>8, <3>2
  <2>11. IsFiniteSet(Reported)
    BY <2>3, <2>5, FS_Subset
  <2> HIDE DEF q, n
  <2>12. q \in Orders(Reported)
    BY <2>6, <2>8, <2>9, <2>10, <2>11, OrderMade
  <2> QED
    BY <1>2, <2>12 DEF Good, q
<1>5. Devs(rows) = Devs(stat)
  <2>1. DOMAIN rows = DOMAIN stat /\ \A i \in DOMAIN stat : rows[i].dev = stat[i].dev
    BY DEF Row
  <2> HIDE DEF rows, stat
  <2> QED
    BY <2>1, SameDevs
<1>6. ASSUME job[g].steady PROVE SteadyCall(g)'
  <2>1. Good(Devs(stat))
    BY <1>4, <1>6
  <2>2. CASE input = "diskio"
    BY <1>1, <1>3, <2>1, <2>2 DEF SteadyCall, Good, Devs
  <2>3. CASE input # "diskio"
    <3>1. Good(Devs(rows))
      BY <1>5, <2>1
    <3> HIDE DEF rows
    <3> QED
      BY <1>1, <1>3, <2>3, <3>1 DEF SteadyCall, Good, Devs
  <2> QED
    BY <2>2, <2>3
<1>7. cur' = cur /\ job[g].step # "idle"
  BY <1>1 DEF plugin
<1> QED
  BY <1>1, <1>6, <1>7, CallSteady

\* diff, of net and of diskio
LEMMA StepsSteady ==
    ASSUME TypesInv, PointsInv, NEW g \in Gatherers, Keep(g) \/ Store(g) \/ Lapse(g) \/ Stamp(g) \/ Load(g)
    PROVE  PointsInv'
<1>1. /\ Others(g) /\ Same(g)
      /\ \/ /\ cur' = cur /\ job[g].step = "keep" /\ job'[g].step = "store" /\ job'[g].list = job[g].list
         \/ /\ cur' = job[g].list /\ job[g].step = "store" /\ job'[g].step = "since" /\ job'[g].list = job[g].list
         \/ /\ cur' = cur /\ job[g].step = "since" /\ job'[g].step = "stamp" /\ job'[g].list = job[g].list
         \/ /\ cur' = cur /\ job[g].step = "stamp" /\ job'[g].step = "load" /\ job'[g].list = job[g].list
         \/ /\ cur' = cur /\ job[g].step = "load" /\ job'[g].step = "diff" /\ job'[g].list = cur
            /\ job'[g].rows = job[g].rows
  BY KeepEffect, StoreEffect, LapseEffect, StampEffect, LoadEffect DEF plugin
<1>2. job[g].rows = <<>>
  BY <1>1, CallFields DEF TypesInv, Sized
<1>3. /\ input' = input /\ Reported' = Reported
  BY <1>1, SameDevices DEF Same
<1>4. ASSUME job[g].steady PROVE SteadyCall(g)' /\ (cur' = cur \/ Good(Devs(cur))')
  <2>1. Good(Devs(job[g].list)) /\ (job[g].step \in {"since", "stamp", "load"} => Good(Devs(cur)))
    BY <1>1, <1>4, Steady DEF SteadyCall
  <2> QED
    BY <1>1, <1>2, <1>3, <2>1 DEF SteadyCall, Good, Devs
<1>5. job[g].step # "idle"
  BY <1>1
<1> QED
  BY <1>1, <1>4, <1>5, CallSteady

\* A loop over the list that appends a row of each.
LEMMA RowSteady ==
    ASSUME TypesInv, PointsInv, NEW g \in Gatherers, Others(g), Same(g), cur' = cur, More(g),
           job[g].step \in {"diff", "percent"}, job'[g].step = job[g].step, job'[g].list = job[g].list,
           NEW r, r.dev = This(g).dev, job'[g].rows = Append(job[g].rows, r)
    PROVE  PointsInv'
<1> DEFINE k == job[g].k
<1>1. k \in 1 .. Len(job[g].list) /\ Len(job[g].rows) = k - 1 /\ job[g].rows \in Seq(Rows) /\ This(g) = job[g].list[k]
  BY CallFields, ThisType DEF TypesInv, Sized, This
<1>2. /\ DOMAIN job[g].rows = 1 .. k - 1 /\ DOMAIN job'[g].rows = 1 .. k /\ job'[g].rows[k] = r
      /\ \A i \in 1 .. k - 1 : job'[g].rows[i] = job[g].rows[i]
  <2>1. k \in Nat /\ job[g].rows \in Seq(Rows) /\ Len(job[g].rows) = k - 1 /\ job'[g].rows = Append(job[g].rows, r)
    BY <1>1
  <2> QED
    BY <2>1, OneMore
<1>3. \A i \in 1 .. k : i \in 1 .. k - 1 \/ i = k
  BY <1>1
<1>4. /\ input' = input /\ Reported' = Reported
  BY SameDevices DEF Same
<1>5. ASSUME job[g].steady PROVE SteadyCall(g)'
  <2>1. Good(Devs(job[g].list)) /\ \A i \in DOMAIN job[g].rows : job[g].rows[i].dev = job[g].list[i].dev
    BY <1>5, Steady DEF SteadyCall
  <2>2. \A i \in DOMAIN job'[g].rows : job'[g].rows[i].dev = job[g].list[i].dev
    BY <1>1, <1>2, <1>3, <2>1
  <2> QED
    BY <1>4, <2>1, <2>2 DEF SteadyCall, Good, Devs
<1> QED
  BY <1>5, CallSteady

LEMMA DiffSteady ==
    ASSUME TypesInv, PointsInv, NEW g \in Gatherers, Diff(g)
    PROVE  PointsInv'
<1> DEFINE r == Row(This(g), StatDiff(This(g)), job[g].span)
<1>1. /\ Others(g) /\ Same(g) /\ cur' = cur /\ job[g].step = "diff" /\ job'[g].step = "diff" /\ More(g)
      /\ job'[g].list = job[g].list /\ job'[g].rows = Append(job[g].rows, r)
  BY DiffEffect DEF plugin
<1>2. r.dev = This(g).dev
  BY DEF Row
<1> HIDE DEF r
<1> QED
  BY <1>1, <1>2, RowSteady

LEMMA PercentSteady ==
    ASSUME TypesInv, PointsInv, NEW g \in Gatherers, Percent(g)
    PROVE  PointsInv'
<1> DEFINE d == This(g).dev
           t == Sample(d)
           r == IF d \notin present \/ FirstPercent(d) THEN Row(t, 0, 1) ELSE PercentRow(cpu[d], t)
<1>1. /\ Others(g) /\ Same(g) /\ cur' = cur /\ job[g].step = "percent" /\ job'[g].step = "percent" /\ More(g)
      /\ job'[g].list = job[g].list /\ job'[g].rows = Append(job[g].rows, r)
  BY PercentEffect
<1>2. r.dev = This(g).dev
  BY DEF Row, PercentRow, Sample
<1> HIDE DEF r
<1> QED
  BY <1>1, <1>2, RowSteady

LEMMA SwapSteady ==
    ASSUME TypesInv, PointsInv, NEW g \in Gatherers, SwapTimes(g)
    PROVE  PointsInv'
<1> DEFINE t == job[g].list[1]
           rows == <<BusyRow(cpu[t.dev], t)>>
<1>1. /\ Others(g) /\ Same(g) /\ cur' = cur /\ job[g].step = "swap" /\ job'[g].step = "report" /\ job'[g].rows = rows
  BY SwapEffect
<1>2. job[g].list \in Seq(Samples) /\ Len(job[g].list) = 1
  BY <1>1, CallFields DEF TypesInv, Sized
<1>3. /\ input' = input /\ Reported' = Reported
  BY <1>1, SameDevices DEF Same
<1>4. Devs(rows) = Devs(job[g].list)
  <2>1. DOMAIN rows = {1} /\ DOMAIN job[g].list = {1} /\ rows[1].dev = t.dev
    BY <1>2 DEF BusyRow, Row
  <2> HIDE DEF rows
  <2> QED
    BY <2>1, SameDevs
<1> HIDE DEF rows
<1>5. ASSUME job[g].steady PROVE SteadyCall(g)'
  <2>1. Good(Devs(rows))
    BY <1>1, <1>4, <1>5, Steady DEF SteadyCall
  <2> QED
    BY <1>1, <1>3, <2>1 DEF SteadyCall, Good, Devs
<1>6. job[g].step # "idle"
  BY <1>1
<1> QED
  BY <1>1, <1>5, <1>6, CallSteady

LEMMA ReportSteady ==
    ASSUME TypesInv, PointsInv, NEW g \in Gatherers, Report(g)
    PROVE  PointsInv'
<1>1. /\ Others(g) /\ job'[g] = Idle /\ UNCHANGED plugin
      /\ UNCHANGED <<setup, now, present, total, epoch, page, series, names, path>>
      /\ report'.steady = job[g].steady /\ report'.rows = job[g].rows
      /\ job[g].step = "report" \/ (job[g].step \in {"diff", "percent"} /\ ~More(g))
  BY ReportEffect
<1>2. /\ input' = input /\ Devices' = Devices /\ Basis' = Basis /\ Picked' = Picked /\ Reported' = Reported
  BY <1>1, SameDevices
<1>3. PagesInv'
  BY <1>1, PagesKept DEF PointsInv
<1>4. ASSUME job[g].steady PROVE series.steady /\ Good(Devs(job[g].rows))
  <2>1. series.steady /\ SteadyCall(g)
    BY <1>4 DEF PointsInv, SteadyInv
  <2>2. CASE job[g].step = "report"
    BY <2>1, <2>2 DEF SteadyCall
  <2>3. CASE job[g].step \in {"diff", "percent"} /\ ~More(g)
    <3>1. /\ job[g].list \in Seq(Samples) /\ job[g].rows \in Seq(Rows) /\ job[g].k \in Nat
          /\ Len(job[g].rows) = job[g].k - 1 /\ job[g].k <= Len(job[g].list) + 1
      BY <2>3, CallFields DEF TypesInv, Sized
    <3>2. DOMAIN job[g].list = DOMAIN job[g].rows
      BY <2>3, <3>1 DEF More
    <3>3. Good(Devs(job[g].list)) /\ \A i \in DOMAIN job[g].rows : job[g].rows[i].dev = job[g].list[i].dev
      BY <2>1, <2>3 DEF SteadyCall
    <3>4. Devs(job[g].rows) = Devs(job[g].list)
      BY <3>2, <3>3, SameDevs
    <3> QED
      BY <2>1, <3>3, <3>4
  <2> QED
    BY <1>1, <2>2, <2>3, <2>1
<1>5. report'.steady => series'.steady /\ Good(Devs(report.rows))'
  BY <1>1, <1>2, <1>4 DEF Good, Devs
<1>6. ~job'[g].steady /\ job'[g].step = "idle" /\ cur' = cur
  BY <1>1 DEF Idle, plugin
<1>7. ASSUME NEW h \in Gatherers, job'[h].steady
      PROVE  /\ series'.steady /\ SteadyCall(h)'
             /\ \A o \in Gatherers : job'[o].step = "idle" \/ job'[o].steady
  <2>1. h # g /\ job'[h] = job[h] /\ job[h].steady
    BY <1>1, <1>6, <1>7 DEF Others
  <2>2. series.steady /\ SteadyCall(h) /\ \A o \in Gatherers : job[o].step = "idle" \/ job[o].steady
    BY <2>1 DEF PointsInv, SteadyInv
  <2>3. \A o \in Gatherers : job'[o].step = "idle" \/ job'[o].steady
    BY <1>1, <1>6, <2>2 DEF Others
  <2>4. SteadyCall(h)'
    BY <1>2, <1>6, <2>1, <2>2 DEF SteadyCall, Good, Devs, Distinct
  <2> QED
    BY <1>1, <2>2, <2>3, <2>4
<1>8. SteadyInv'
  BY <1>5, <1>7 DEF SteadyInv
<1> QED
  BY <1>3, <1>8 DEF PointsInv

\* What a call goes through when it begins.
StartsWith(s, list) ==
    /\ s = "select" => Devs(list) \in Orders(Basis)
    /\ s # "select" => Good(Devs(list))

LEMMA BeginSteady ==
    ASSUME TypesInv, PointsInv, NEW g \in Gatherers, NEW s \in {"keep", "select", "swap", "percent"} \cap StepsOf(input),
           NEW list \in Seq(Samples), StartsWith(s, list), Begin(g, s, list)
    PROVE  PointsInv'
<1> DEFINE alone  == \A o \in Gatherers : job[o].step = "idle"
           steady == series.steady /\ \A o \in Gatherers : job[o].step = "idle" \/ job[o].steady
           c == [Idle EXCEPT !.step = s, !.list = list, !.from = now, !.alone = alone, !.steady = steady]
<1>1. /\ job' = [h \in Gatherers |-> IF h = g THEN c ELSE [job[h] EXCEPT !.alone = FALSE]]
      /\ UNCHANGED <<setup, present, names, path, page, series>> /\ report' = report /\ cur' = cur
  BY DEF Begin, machine, plugin, history
<1>2. alone \in BOOLEAN /\ steady \in BOOLEAN /\ MachineType /\ s \in StepsOf(input) /\ Begins(c, s, list, alone, steady)
  BY DEF TypesInv, PagesType, Begins
<1>3. steady => series.steady /\ \A o \in Gatherers : job[o].step = "idle" \/ job[o].steady
  OBVIOUS
<1>4. ASSUME NEW h \in Gatherers, job[h].steady PROVE steady
  BY <1>4 DEF PointsInv, SteadyInv
<1> HIDE DEF c, alone, steady
<1>5. c.step = s /\ c.list = list /\ c.k = 1 /\ c.stat = <<>> /\ c.rows = <<>> /\ c.steady = steady
  BY <1>2, Begun
<1>6. /\ job'[g].step = s /\ job'[g].list = list /\ job'[g].k = 1 /\ job'[g].stat = <<>> /\ job'[g].rows = <<>>
      /\ job'[g].steady = steady
  BY <1>1, <1>5
<1>7. \A h \in Gatherers \ {g} :
         /\ job'[h].step = job[h].step /\ job'[h].list = job[h].list /\ job'[h].k = job[h].k /\ job'[h].stat = job[h].stat
         /\ job'[h].rows = job[h].rows /\ job'[h].steady = job[h].steady
  <2> SUFFICES ASSUME NEW h \in Gatherers \ {g}
               PROVE  /\ job'[h].step = job[h].step /\ job'[h].list = job[h].list /\ job'[h].k = job[h].k
                      /\ job'[h].stat = job[h].stat /\ job'[h].rows = job[h].rows /\ job'[h].steady = job[h].steady
    OBVIOUS
  <2>1. job[h] \in Jobs /\ job'[h] = [job[h] EXCEPT !.alone = FALSE]
    BY <1>1, CallFields DEF TypesInv
  <2> QED
    BY <2>1 DEF Jobs
<1>8. /\ input' = input /\ Devices' = Devices /\ Basis' = Basis /\ Picked' = Picked /\ Reported' = Reported
  BY <1>1, SameDevices
<1>9. PagesInv'
  BY <1>1, PagesKept DEF PointsInv
<1>10. report'.steady => series'.steady /\ Good(Devs(report.rows))'
  BY <1>1, <1>8 DEF PointsInv, SteadyInv, Good, Devs
<1>11. SteadyCall(g)'
  <2>1. \A d \in Devices : ~(\E i \in DOMAIN job'[g].stat : job'[g].stat[i].dev = d)
                           /\ ~(\E i \in 1 .. job'[g].k - 1 : job'[g].list[i].dev = d)
    BY <1>6
  <2>2. job'[g].step \in {"keep", "select", "swap", "percent"} /\ DOMAIN job'[g].rows = {} /\ DOMAIN job'[g].stat = {}
    BY <1>6
  <2>3. s = "select" => Devs(job'[g].list) \in Orders(Basis')
    BY <1>6, <1>8 DEF StartsWith
  <2>4. s # "select" => Good(Devs(job[g].list))'
    BY <1>6, <1>8 DEF StartsWith, Good, Devs
  <2>5. Distinct(job'[g].stat)
    BY <2>2 DEF Distinct
  <2>6. \A i \in DOMAIN job'[g].rows : job'[g].rows[i].dev = job'[g].list[i].dev
    BY <2>2
  <2>7. CASE s = "select"
    <3>1. job'[g].step = "select" /\ Distinct(job[g].stat)'
      BY <1>6, <2>5, <2>7 DEF Distinct
    <3>2. Devs(job[g].list)' \in Orders(Basis')
      BY <2>3, <2>7 DEF Devs
    <3>3. \A d \in Devices' : (\E i \in DOMAIN job'[g].stat : job'[g].stat[i].dev = d)
                                <=> d \in Picked' /\ \E i \in 1 .. job'[g].k - 1 : job'[g].list[i].dev = d
      BY <1>8, <2>1
    <3> QED
      BY <3>1, <3>2, <3>3 DEF SteadyCall
  <2>8. CASE s # "select"
    <3>1. job'[g].step \in {"keep", "swap", "percent"}
      BY <1>6, <2>8
    <3> QED
      BY <2>4, <2>6, <2>8, <3>1 DEF SteadyCall
  <2> QED
    BY <2>7, <2>8
<1>12. ASSUME NEW h \in Gatherers, job'[h].steady
       PROVE  /\ series'.steady /\ SteadyCall(h)'
              /\ \A o \in Gatherers : job'[o].step = "idle" \/ job'[o].steady
  <2>1. steady
    BY <1>4, <1>6, <1>7, <1>12
  <2>2. series'.steady /\ \A o \in Gatherers : job'[o].step = "idle" \/ job'[o].steady
    BY <1>1, <1>3, <1>6, <1>7, <2>1
  <2>3. ASSUME h # g PROVE SteadyCall(h)'
    <3>1. SteadyCall(h)
      BY <1>7, <1>12, <2>3, Steady
    <3>2. /\ job'[h].step = job[h].step /\ job'[h].list = job[h].list /\ job'[h].k = job[h].k
          /\ job'[h].stat = job[h].stat /\ job'[h].rows = job[h].rows
      BY <1>7, <2>3
    <3>3. job'[h].step = "select" =>
            /\ Devs(job[h].list)' \in Orders(Basis') /\ Distinct(job[h].stat)'
            /\ \A d \in Devices' : (\E i \in DOMAIN job'[h].stat : job'[h].stat[i].dev = d)
                                     <=> d \in Picked' /\ \E i \in 1 .. job'[h].k - 1 : job'[h].list[i].dev = d
      BY <1>8, <3>1, <3>2 DEF SteadyCall, Devs, Distinct
    <3>4. /\ job'[h].step \in {"keep", "store", "since", "stamp", "load", "diff", "swap", "percent"} => Good(Devs(job[h].list))'
          /\ job'[h].step \in {"since", "stamp", "load"} => Good(Devs(cur))'
          /\ job'[h].step = "report" => Good(Devs(job[h].rows))'
      BY <1>1, <1>8, <3>1, <3>2 DEF SteadyCall, Good, Devs
    <3>5. job'[h].step \in {"diff", "percent"} => \A i \in DOMAIN job'[h].rows : job'[h].rows[i].dev = job'[h].list[i].dev
      BY <3>1, <3>2 DEF SteadyCall
    <3> QED
      BY <3>3, <3>4, <3>5 DEF SteadyCall
  <2> QED
    BY <1>11, <2>2, <2>3
<1>13. SteadyInv'
  BY <1>10, <1>12 DEF SteadyInv
<1> QED
  BY <1>9, <1>13 DEF PointsInv

LEMMA SampledDevs ==
    ASSUME MachineType, NEW S \in SUBSET Devices, NEW q \in Orders(S)
    PROVE  [i \in DOMAIN q |-> Sample(q[i])] \in Seq(Samples) /\ Devs([i \in DOMAIN q |-> Sample(q[i])]) = q
<1> DEFINE list == [i \in DOMAIN q |-> Sample(q[i])]
<1>1. list \in Seq(Samples) /\ \A i \in DOMAIN q : q[i] \in Devices
  BY OrderSampled
<1>2. DOMAIN list = DOMAIN q /\ \A i \in DOMAIN q : list[i].dev = q[i]
  BY <1>1, SampleType
<1> HIDE DEF list
<1>3. q = [i \in DOMAIN q |-> q[i]]
  BY DEF Orders
<1>4. Devs(list) = q
  BY <1>2, <1>3 DEF Devs
<1> QED
  BY <1>1, <1>4 DEF list

LEMMA OneOrder ==
    ASSUME NEW d
    PROVE  IsFiniteSet({d}) /\ Cardinality({d}) = 1 /\ <<d>> \in Orders({d}) /\ \A q \in Orders({d}) : q = <<d>>
<1>1. IsFiniteSet({d}) /\ Cardinality({d}) = 1
  BY FS_Singleton
<1>2. <<d>> \in Orders({d})
  BY <1>1 DEF Orders
<1>3. ASSUME NEW q \in Orders({d}) PROVE q = <<d>>
  BY <1>1 DEF Orders
<1> QED
  BY <1>1, <1>2, <1>3

LEMMA ReadSteady ==
    ASSUME TypesInv, PointsInv, NEW g \in Gatherers, ReadNet(g) \/ ReadDisks(g) \/ ReadTimes(g) \/ ReadProcs(g)
    PROVE  PointsInv'
<1>1. MachineType /\ names \in SUBSET Devices /\ present \in SUBSET Devices /\ DiskUsage \in SUBSET Devices
  BY DEF TypesInv, MachineType, PluginType, DiskUsage
<1>2. ASSUME NEW S \in SUBSET Devices, NEW q \in Orders(S), NEW s \in {"keep", "select", "percent"} \cap StepsOf(input),
             s = "select" => S = Basis, s # "select" => Good(q), Begin(g, s, [i \in DOMAIN q |-> Sample(q[i])])
      PROVE  PointsInv'
  <2> DEFINE list == [i \in DOMAIN q |-> Sample(q[i])]
  <2>1. list \in Seq(Samples) /\ Devs(list) = q
    BY <1>1, SampledDevs
  <2>2. Begin(g, s, list)
    BY <1>2
  <2> HIDE DEF list
  <2>3. StartsWith(s, list)
    BY <1>2, <2>1 DEF StartsWith
  <2> QED
    BY <2>1, <2>2, <2>3, BeginSteady
<1>3. CASE ReadNet(g)
  <2> DEFINE S == present \cap names
             q == Sorted(S)
  <2>1. S \in SUBSET Devices /\ IsFiniteSet(S) /\ S \in SUBSET Nat
    BY <1>1, Inputs, FS_Subset
  <2>2. q \in Orders(S) /\ DOMAIN q = 1 .. Cardinality(S)
    <3>1. q \in Orders(S)
      BY <2>1, SortedOrder
    <3> HIDE DEF q, S
    <3> QED
      BY <1>1, <2>1, <3>1, OrderSampled
  <2>3. Begin(g, "keep", [i \in DOMAIN q |-> Sample(q[i])]) /\ "keep" \in StepsOf(input)
    BY <1>3, <2>2 DEF ReadNet, StepsOf
  <2>4. Good(q)
    <3>1. Reported = S
      BY <1>3 DEF ReadNet, Reported, Basis, Picked
    <3> QED
      BY <2>2, <3>1 DEF Good
  <2> HIDE DEF S, q
  <2> QED
    BY <1>2, <2>1, <2>2, <2>3, <2>4
<1>4. CASE ReadDisks(g)
  <2> DEFINE S == IF input = "disk" THEN DiskUsage ELSE present
  <2>1. S \in SUBSET Devices /\ "select" \in StepsOf(input) /\ S = Basis
    BY <1>1, <1>4 DEF ReadDisks, StepsOf, Basis
  <2>2. PICK q \in Orders(S) : Begin(g, "select", [i \in DOMAIN q |-> Sample(q[i])])
    BY <1>4 DEF ReadDisks
  <2> HIDE DEF S
  <2> QED
    BY <1>2, <2>1, <2>2
<1>5. CASE ReadTimes(g)
  <2>1. PICK d \in names : Begin(g, "swap", <<Sample(d)>>)
    BY <1>5 DEF ReadTimes
  <2> DEFINE list == <<Sample(d)>>
  <2>2. Sample(d) \in Samples /\ Sample(d).dev = d
    BY <1>1, SampleType
  <2>3. list \in Seq(Samples) /\ "swap" \in StepsOf(input) /\ DOMAIN list = {1} /\ list[1].dev = d
    BY <1>5, <2>2 DEF ReadTimes, StepsOf
  <2>4. Begin(g, "swap", list)
    BY <2>1
  <2> HIDE DEF list
  <2>5. Good(Devs(list))
    <3>1. input = "system" /\ names = {d}
      BY <1>5, <2>1 DEF ReadTimes, PointsInv, PagesInv
    <3>2. Devs(list) = <<d>>
      BY <2>3 DEF Devs
    <3> QED
      BY <3>1, <3>2, OneOrder DEF Good, Reported
  <2>6. StartsWith("swap", list)
    BY <2>5 DEF StartsWith
  <2> QED
    BY <2>3, <2>4, <2>6, BeginSteady
<1>6. CASE ReadProcs(g)
  <2>1. PICK q \in Orders(names) : Begin(g, "percent", [i \in DOMAIN q |-> Sample(q[i])])
    BY <1>6 DEF ReadProcs
  <2>2. "percent" \in StepsOf(input) /\ Good(q)
    BY <1>6 DEF ReadProcs, StepsOf, Good, Reported
  <2> QED
    BY <1>1, <1>2, <2>1, <2>2
<1> QED
  BY <1>3, <1>4, <1>5, <1>6

\* A page that is shown at once.
LEMMA ShowSteady ==
    ASSUME TypesInv, PointsInv, NEW p \in Pages, NEW devs, NEW steady \in BOOLEAN, Show(p, devs, steady), Unsteady,
           input' = input, names' = names, Devices' = Devices,
           steady => input # "diskio" /\ devs \in Orders(Shown') /\ (input = "net" => devs = Sorted(Shown'))
    PROVE  PointsInv'
<1>1. series'.devs = devs /\ series'.steady = steady /\ page' = [page EXCEPT ![p] = NoPage]
  BY DEF Show
<1>2. page'[p].step = "idle" /\ ~page'[p].steady /\ \A o \in Pages \ {p} : page'[o] = page[o]
  BY <1>1 DEF NoPage, TypesInv, PagesType
<1>3. PagesInv'
  <2>1. ASSUME NEW o \in Pages, page'[o].step = "add"
        PROVE  /\ input = "diskio" /\ ~series'.steady
               /\ page'[o].steady => /\ names \subseteq Range(page'[o].list)
                                     /\ \A r \in Pages \ {o} : page'[r].step = "idle"
    <3>1. o # p /\ page[o].step = "add" /\ page'[o] = page[o]
      BY <1>2, <2>1
    <3> QED
      BY <1>1, <1>2, <3>1 DEF PointsInv, PagesInv
  <2>2. \A o \in Pages : page'[o].steady => page'[o].step = "add"
    BY <1>2 DEF PointsInv, PagesInv
  <2>3. input = "system" => \E d \in Devices : names = {d}
    BY DEF PointsInv, PagesInv
  <2> QED
    BY <1>1, <2>1, <2>2, <2>3 DEF PagesInv
<1>4. SteadyInv'
  BY UnsteadyAll
<1> QED
  BY <1>3, <1>4 DEF PointsInv

LEMMA SeriesSteady ==
    ASSUME TypesInv, PointsInv, NEW p \in Pages, Series(p)
    PROVE  PointsInv'
<1>1. MachineType /\ names \in SUBSET Devices /\ present \in SUBSET Devices /\ DiskUsage \in SUBSET Devices
      /\ IsFiniteSet(names) /\ names \in SUBSET Nat
  BY Inputs, FS_Subset DEF TypesInv, MachineType, PluginType, DiskUsage
<1>2. setup' = setup /\ present' = present /\ input' = input /\ Devices' = Devices /\ DiskUsage' = DiskUsage
  BY DEF Series, PageFixed, PageProcs, PageFails, PageDisk, PageDiskIO, AddName, AddCrash, ShowDiskIO, PageKept, machine,
         input, Devices, DiskUsage
<1>3. CASE PageFixed(p)
  <2>1. input \in {"net", "system"} /\ Show(p, Sorted(names), TRUE) /\ Unsteady /\ names' = names
    BY <1>3 DEF PageFixed, Open, plugin
  <2>2. Sorted(names) \in Orders(names) /\ Shown' = names
    BY <1>1, <1>2, <2>1, SortedOrder DEF Shown
  <2> QED
    BY <1>2, <2>1, <2>2, ShowSteady
<1>4. CASE PageProcs(p)
  <2>1. input = "procstat" /\ Unsteady /\ names' = names
    BY <1>4 DEF PageProcs, Open, plugin
  <2>2. PICK q \in Orders(names) : Show(p, q, TRUE)
    BY <1>4 DEF PageProcs
  <2>3. Shown' = names
    BY <1>2, <2>1 DEF Shown
  <2> QED
    BY <1>2, <2>1, <2>2, <2>3, ShowSteady
<1>5. CASE PageFails(p)
  <2>1. Show(p, <<>>, FALSE) /\ Unsteady /\ names' = names
    BY <1>5 DEF PageFails, Open, plugin
  <2> QED
    BY <1>2, <2>1, ShowSteady
<1>6. CASE PageDisk(p)
  <2>1. input = "disk" /\ Unsteady /\ names' = names /\ Shown' = DiskUsage \cap {path'}
    BY <1>2, <1>6 DEF PageDisk, Open, Shown, Basis, Picked
  <2>2. CASE DiskUsage = {}
    <3>1. Show(p, <<>>, TRUE)
      BY <1>6, <2>2 DEF PageDisk
    <3>2. <<>> \in Orders(Shown')
      BY <2>1, <2>2, FS_EmptySet DEF Orders
    <3> QED
      BY <1>2, <2>1, <3>1, <3>2, ShowSteady
  <2>3. CASE DiskUsage # {}
    <3>1. path' = Sorted(DiskUsage)[1] /\ Show(p, <<path'>>, TRUE)
      BY <1>6, <2>3 DEF PageDisk
    <3>2. path' \in DiskUsage
      <4>1. IsFiniteSet(DiskUsage) /\ DiskUsage \in SUBSET Nat
        BY <1>1, Inputs, FS_Subset
      <4>2. Sorted(DiskUsage) \in Orders(DiskUsage) /\ Cardinality(DiskUsage) \in Nat /\ Cardinality(DiskUsage) # 0
        BY <2>3, <4>1, SortedOrder, FS_EmptySet, FS_CardinalityType
      <4>3. Sorted(DiskUsage) \in [1 .. Cardinality(DiskUsage) -> DiskUsage] /\ 1 \in 1 .. Cardinality(DiskUsage)
        BY <4>2 DEF Orders
      <4> QED
        BY <3>1, <4>3
    <3>3. Shown' = {path'} /\ <<path'>> \in Orders(Shown')
      BY <2>1, <3>2, OneOrder
    <3> QED
      BY <1>2, <2>1, <3>1, <3>3, ShowSteady
  <2> QED
    BY <2>2, <2>3
<1>7. CASE PageDiskIO(p)
  <2>1. /\ PageAt(p, "idle") /\ Unsteady /\ input = "diskio" /\ names' = {} /\ series' = [series EXCEPT !.steady = FALSE]
    BY <1>7 DEF PageDiskIO, Open
  <2>2. PICK q : page' = [o \in Pages |->
                            IF o # p THEN [page[o] EXCEPT !.steady = FALSE]
                            ELSE [NoPage EXCEPT !.step = "add", !.list = q,
                                    !.steady = \A r \in Pages : page[r].step = "idle"]]
    BY <1>7 DEF PageDiskIO
  <2>3. ~series'.steady
    BY <2>1 DEF TypesInv, PagesType
  <2>4. \A o \in Pages \ {p} : ~page'[o].steady /\ page'[o].step = page[o].step
    <3>1. ASSUME NEW o \in Pages \ {p} PROVE ~page'[o].steady /\ page'[o].step = page[o].step
      <4>1. page[o] \in [step : {"idle", "add"}, list : Seq(Devices), k : Nat \ {0}, steady : BOOLEAN]
        BY DEF TypesInv, PagesType
      <4>2. page'[o] = [page[o] EXCEPT !.steady = FALSE]
        BY <2>2
      <4> QED
        BY <4>1, <4>2
    <3> QED
      BY <3>1
  <2>5. page'[p].step = "add" /\ (page'[p].steady => \A r \in Pages : page[r].step = "idle")
    BY <2>2 DEF NoPage
  <2>6. PagesInv'
    BY <1>2, <2>1, <2>3, <2>4, <2>5 DEF PagesInv
  <2>7. SteadyInv'
    BY <2>1, UnsteadyAll
  <2> QED
    BY <2>6, <2>7 DEF PointsInv
<1>8. CASE AddName(p)
  <2> DEFINE d == page[p].list[page[p].k]
  <2>1. /\ page[p].step = "add" /\ page[p].k <= Len(page[p].list) /\ page' = [page EXCEPT ![p].k = @ + 1]
        /\ names' = names \/ names' = names \cup {d}
        /\ UNCHANGED <<job, report>> /\ series' = series
    BY <1>8 DEF AddName, PageAt
  <2>2. input = "diskio" /\ ~series.steady
    BY <2>1 DEF PointsInv, PagesInv
  <2>3. \A o \in Pages : page'[o].step = page[o].step /\ page'[o].list = page[o].list /\ page'[o].steady = page[o].steady
    BY <2>1 DEF TypesInv, PagesType
  <2>4. d \in Range(page[p].list)
    <3>1. page[p].list \in Seq(Devices) /\ page[p].k \in Nat \ {0}
      BY DEF TypesInv, PagesType
    <3> QED
      BY <2>1, <3>1 DEF Range
  <2> HIDE DEF d
  <2>5. ASSUME NEW o \in Pages, page[o].step = "add", page[o].steady
        PROVE  names' \subseteq Range(page[o].list) /\ \A r \in Pages \ {o} : page[r].step = "idle"
    <3>1. names \subseteq Range(page[o].list) /\ \A r \in Pages \ {o} : page[r].step = "idle"
      BY <2>5 DEF PointsInv, PagesInv
    <3>2. o = p
      BY <2>1, <3>1
    <3> QED
      BY <2>1, <2>4, <3>1, <3>2
  <2>6. PagesInv'
    BY <1>2, <2>1, <2>2, <2>3, <2>5 DEF PointsInv, PagesInv
  <2>7. SteadyInv'
    BY <2>1, <2>2, PageUnsteady DEF PointsInv
  <2> QED
    BY <2>6, <2>7 DEF PointsInv
<1>9. CASE AddCrash(p)
  <2>1. /\ UNCHANGED <<setup, present, names, path, page, series>> /\ UNCHANGED <<job, report>>
        /\ page[p].step = "add"
    BY <1>9 DEF AddCrash, PageAt, PageKept, machine, plugin
  <2>2. ~series.steady
    BY <2>1 DEF PointsInv, PagesInv
  <2> QED
    BY <2>1, <2>2, PagesKept, PageUnsteady DEF PointsInv
<1>10. CASE ShowDiskIO(p)
  <2>1. page[p].step = "add" /\ UNCHANGED <<job, report>> /\ names' = names
    BY <1>10 DEF ShowDiskIO, PageAt, plugin
  <2>2. PICK q \in Orders(names \cap Range(page[p].list)) : Show(p, q, page[p].steady)
    BY <1>10 DEF ShowDiskIO
  <2>3. input = "diskio" /\ ~series.steady
    BY <2>1 DEF PointsInv, PagesInv
  <2>4. series'.devs = q /\ series'.steady = page[p].steady /\ page' = [page EXCEPT ![p] = NoPage]
    BY <2>2 DEF Show
  <2>5. page'[p].step = "idle" /\ ~page'[p].steady /\ \A o \in Pages \ {p} : page'[o] = page[o]
    BY <2>4 DEF NoPage, TypesInv, PagesType
  <2>6. ASSUME NEW o \in Pages, page'[o].step = "add"
        PROVE  /\ ~series'.steady
               /\ page'[o].steady => /\ names \subseteq Range(page'[o].list)
                                     /\ \A r \in Pages \ {o} : page'[r].step = "idle"
    <3>1. o # p /\ page[o].step = "add" /\ page'[o] = page[o]
      BY <2>5, <2>6
    <3>2. ~page[p].steady
      BY <2>1, <3>1 DEF PointsInv, PagesInv
    <3> QED
      BY <2>4, <2>5, <3>1, <3>2 DEF PointsInv, PagesInv
  <2>7. series'.steady => series'.devs \in Orders(Shown')
    <3>1. Shown' = names
      BY <1>2, <2>1, <2>3 DEF Shown
    <3>2. page[p].steady => names \subseteq Range(page[p].list)
      BY <2>1 DEF PointsInv, PagesInv
    <3>3. page[p].steady => names \cap Range(page[p].list) = names
      BY <3>2
    <3> QED
      BY <2>2, <2>4, <3>1, <3>3
  <2>8. \A o \in Pages : page'[o].steady => page'[o].step = "add"
    BY <2>5 DEF PointsInv, PagesInv
  <2>9. PagesInv'
    BY <1>2, <2>1, <2>3, <2>6, <2>7, <2>8 DEF PagesInv
  <2>10. SteadyInv'
    BY <2>1, <2>3, PageUnsteady DEF PointsInv
  <2> QED
    BY <2>9, <2>10 DEF PointsInv
<1> QED
  BY <1>3, <1>4, <1>5, <1>6, <1>7, <1>8, <1>9, <1>10 DEF Series

LEMMA ChangeSteady ==
    ASSUME TypesInv, PointsInv, NEW d \in Devices, Change(d)
    PROVE  PointsInv'
<1>1. /\ setup' = setup /\ names' = names /\ Unsteady /\ input # "system"
      /\ series' = [series EXCEPT !.steady = FALSE] /\ page' = [p \in Pages |-> [page[p] EXCEPT !.steady = FALSE]]
  BY DEF Change, plugin
<1>2. input' = input /\ Devices' = Devices
  BY <1>1 DEF input, Devices
<1>3. ~series'.steady
  BY <1>1 DEF TypesInv, PagesType
<1>4. \A p \in Pages : page'[p].step = page[p].step /\ ~page'[p].steady
  <2>1. ASSUME NEW p \in Pages PROVE page'[p].step = page[p].step /\ ~page'[p].steady
    <3>1. page[p] \in [step : {"idle", "add"}, list : Seq(Devices), k : Nat \ {0}, steady : BOOLEAN]
      BY DEF TypesInv, PagesType
    <3> QED
      BY <1>1, <3>1
  <2> QED
    BY <2>1
<1>5. PagesInv'
  BY <1>1, <1>2, <1>3, <1>4 DEF PointsInv, PagesInv
<1>6. SteadyInv'
  BY <1>1, UnsteadyAll
<1> QED
  BY <1>5, <1>6 DEF PointsInv

\* Time goes on, or nothing at all happens.
LEMMA RestSteady ==
    ASSUME PointsInv, UNCHANGED <<setup, present, names, path, cur, page, series>>, UNCHANGED <<job, report>>
    PROVE  PointsInv'
<1>1. /\ input' = input /\ Devices' = Devices /\ Basis' = Basis /\ Picked' = Picked /\ Reported' = Reported
  BY SameDevices
<1>2. PagesInv'
  BY PagesKept DEF PointsInv
<1>3. \A g \in Gatherers : SteadyCall(g) => SteadyCall(g)'
  BY <1>1 DEF SteadyCall, Good, Devs, Distinct
<1>4. report'.steady => series'.steady /\ Good(Devs(report.rows))'
  BY <1>1 DEF PointsInv, SteadyInv, Good, Devs
<1>5. SteadyInv'
  BY <1>3, <1>4 DEF PointsInv, SteadyInv
<1> QED
  BY <1>2, <1>5 DEF PointsInv

LEMMA PointsInit ==
    ASSUME Init
    PROVE  PointsInv
<1>1. /\ ~report.steady /\ ~series.steady
      /\ \A g \in Gatherers : ~job[g].steady
      /\ \A p \in Pages : page[p].step = "idle" /\ ~page[p].steady
  BY DEF Init, Idle, NoReport, NoPage
<1>2. input = "system" => \E d \in Devices : names = {d}
  BY DEF Init
<1> QED
  BY <1>1, <1>2 DEF PointsInv, PagesInv, SteadyInv

LEMMA PointsStep ==
    ASSUME TypesInv, PointsInv, [Next]_vars
    PROVE  PointsInv'
<1>1. ASSUME NEW g \in Gatherers, Gather(g) PROVE PointsInv'
  <2>1. ASSUME SelectCrash(g) PROVE PointsInv'
    <3>1. UNCHANGED <<setup, present, names, path, cur, page, series>> /\ UNCHANGED <<job, report>>
      BY <2>1 DEF SelectCrash, Kept, plugin, machine, history
    <3> QED
      BY <3>1, RestSteady
  <2> QED
    BY <1>1, <2>1, ReadSteady, SelectSteady, SelectedSteady, StepsSteady, DiffSteady, SwapSteady, PercentSteady,
       ReportSteady DEF Gather
<1>2. CASE UNCHANGED vars
  BY <1>2, RestSteady DEF vars, plugin, machine, history
<1>3. CASE Tick
  BY <1>3, RestSteady DEF Tick, plugin, history
<1> QED
  BY <1>1, <1>2, <1>3, SeriesSteady, ChangeSteady DEF Next

LEMMA PointsImply ==
    ASSUME TypesInv, PointsInv
    PROVE  PointsMatchSeries
<1> SUFFICES ASSUME report.steady, Range(series.devs) \subseteq present, series.steady
             PROVE  /\ Range(Devs(report.rows)) = Range(series.devs)
                    /\ Len(Devs(report.rows)) = Len(series.devs)
                    /\ input \in {"net", "disk", "system"} => Devs(report.rows) = series.devs
  BY DEF PointsMatchSeries, Devs
<1> DEFINE devs == Devs(report.rows)
<1>1. /\ devs \in Orders(Reported) /\ (input = "net" => devs = Sorted(Reported))
      /\ series.devs \in Orders(Shown) /\ (input = "net" => series.devs = Sorted(Shown))
  BY DEF PointsInv, SteadyInv, PagesInv, Good
<1> HIDE DEF devs
<1>2. MachineType /\ names \subseteq Devices /\ present \subseteq Devices /\ DiskUsage \subseteq Devices
  BY DEF TypesInv, MachineType, PluginType, DiskUsage
<1>3. Shown \subseteq Devices /\ IsFiniteSet(Shown)
  <2>1. Shown \subseteq Devices
    BY <1>2 DEF Shown, Basis
  <2> QED
    BY <1>2, <2>1, Inputs, FS_Subset
<1>4. Range(series.devs) = Shown /\ Len(series.devs) = Cardinality(Shown)
  BY <1>1, <1>3, OrderOnto
<1>5. Reported = Shown
  <2>1. Shown \subseteq present
    BY <1>4
  <2> QED
    BY <1>2, <2>1, Inputs DEF Reported, Shown, Basis, Picked
<1>6. Range(devs) = Shown /\ Len(devs) = Cardinality(Shown)
  BY <1>1, <1>3, <1>5, OrderOnto
<1>7. ASSUME input = "disk" PROVE devs = series.devs
  <2>1. CASE path \in DiskUsage
    <3>1. Shown = {path}
      BY <1>7, <2>1 DEF Shown, Basis, Picked
    <3> QED
      BY <1>1, <1>5, <3>1, OneOrder
  <2>2. CASE path \notin DiskUsage
    <3>1. Shown = {}
      BY <1>7, <2>2 DEF Shown, Basis, Picked
    <3> QED
      BY <1>1, <1>5, <3>1, FS_EmptySet DEF Orders
  <2> QED
    BY <2>1, <2>2
<1>8. ASSUME input = "system" PROVE devs = series.devs
  <2>1. PICK d \in Devices : Shown = {d}
    BY <1>8 DEF PointsInv, PagesInv, Shown
  <2> QED
    BY <1>1, <1>5, <2>1, OneOrder
<1> QED
  BY <1>1, <1>4, <1>5, <1>6, <1>7, <1>8 DEF devs

\* As long as no device comes or goes after the page, a report has one row for every device
\* that the page shows, and in the order of the page where the plugin fixes one, whichever
\* calls of Gather overlapped.  (Series and Gather of the plugins, mergeHardwareMetrics)
THEOREM PointsBelong == Spec => []PointsMatchSeries
<1>1. Init => TypesInv /\ PointsInv
  BY TypesInit, PointsInit
<1>2. TypesInv /\ PointsInv /\ [Next]_vars => TypesInv' /\ PointsInv'
  BY TypesStep, PointsStep
<1>3. TypesInv /\ PointsInv => PointsMatchSeries
  BY PointsImply
<1> QED
  BY <1>1, <1>2, <1>3, PTL DEF Spec

=============================================================================

------------------------------ MODULE Hardware ------------------------------
(***************************************************************************)
(* The hardware charts: the plugins net, diskio, disk, system and procstat *)
(* (plugins/) and their callers in charts.go.  Every plugin keeps its last *)
(* sample between two calls of Gather.  The collector and every request    *)
(* for /data/ call Gather, and every request for the page calls Series, in *)
(* goroutines of their own; only system takes a lock.  The plugins share   *)
(* nothing, so that a behaviour looks at one of them, its input.           *)
(*                                                                         *)
(* A device (an interface, a disk, a mount point, the CPU, a process) has  *)
(* one counter, which stands for all of its own.  A step is a statement    *)
(* that touches what goroutines share.  A call that the machine fails      *)
(* returns before it changes anything: it is a stuttering step.            *)
(***************************************************************************)
EXTENDS Integers, Sequences, FiniteSets, SequencesExt

CONSTANTS
    Setups,      \* [input, devices, time, gathers, pages, changes]: a plugin, its devices
                 \* (numbers in the order of their names), and the bounds
    Matched,     \* those that the filter of the plugin lets through
    Dummies,     \* file systems without blocks, or of a type in IgnoreFS
    Gatherers,   \* the collector and the requests for /data/
    Pages,       \* the requests for the page
    Width,       \* of a counter: 2^64 in the code
    Start        \* of the counters, when berf does

\* No counter comes round twice.
ASSUME SetupsAssumption ==
    \A f \in Setups : /\ f.input \in {"net", "diskio", "disk", "system", "procstat"}
                      /\ IsFiniteSet(f.devices) /\ f.devices \subseteq Nat \ {0}
                      /\ f.time \in Nat \ {0} /\ f.time <= Width

ASSUME CountersAssumption == Width \in Nat \ {0} /\ Start \in Nat

VARIABLES
    setup,
    now, present, total, epoch,   \* the machine; epoch counts the resets of a counter
    names, path,                  \* what the plugin reports on
    cur, prev, last,              \* gCurNetStats, gPrevNetStats, lastStatsTime
    cpu,                          \* lastCPUTimes, of the system or of a process
    job, page,                    \* the calls of Gather and of Series
    series,                       \* what the last page shows
    fatal,                        \* the Go runtime found two users of one map
    calls, changes,
    report, before                \* history: the last two calls of Gather that ended
machine == <<now, present, total, epoch>>
plugin  == <<names, path, cur, prev, last, cpu>>
history == <<report, before>>
vars == <<setup, machine, plugin, job, page, series, fatal, calls, changes, history>>

(***************************************************************************)
(* Samples and rows                                                        *)
(***************************************************************************)
input   == setup.input
Devices == setup.devices

\* The file systems that count: not those in IgnoreFS, nor those without blocks.
DiskUsage == present \ Dummies

Sample(d) == [dev |-> d, epoch |-> epoch[d], total |-> total[d], at |-> now]

\* Maps are gone through in any order.
Orders(S) == {q \in [1..Cardinality(S) -> S] : \A i, j \in DOMAIN q : i # j => q[i] # q[j]}
Sorted(S) == CHOOSE q \in Orders(S) : \A i, j \in DOMAIN q : i < j => q[i] < q[j]

\* internal.Adjust, without the wrap of its operands.
AdjustSigned(c, p) == c - p

\* At a wrap it is one too small: the highest value and 0 are one apart.
Adjust(c, p) == IF c >= p THEN c - p ELSE c + (Width - 1) - p

\* time.Since: the zero time is ages ago.
Ages == 1000
Since(t) == IF t = 0 THEN Ages ELSE now - t

Row(s, growth, span) ==
    [dev |-> s.dev, epoch |-> s.epoch, total |-> s.total, growth |-> growth, span |-> span]

\* getNetDevStatDiff and getStatDiff: without an earlier sample of the device, its total.
StatDiff(s) ==
    LET before_ == {i \in DOMAIN prev : prev[i].dev = s.dev}
    IN  IF before_ = {} THEN s.total % Width
        ELSE Adjust(s.total % Width, prev[CHOOSE i \in before_ : \A j \in before_ : i <= j].total % Width)

\* calculateBusy, whose shares are growth / span: 0, 100 %, or what is in between.
BusyRow(t1, t2) ==
    IF t2.total <= t1.total THEN Row(t2, 0, 1)
    ELSE IF t2.at <= t1.at THEN Row(t2, 1, 1)
    ELSE Row(t2, t2.total - t1.total, t2.at - t1.at)

(***************************************************************************)
(* Gather                                                                  *)
(***************************************************************************)
Idle == [step |-> "idle", list |-> <<>>, k |-> 1, stat |-> <<>>, rows |-> <<>>, span |-> 0,
         alone |-> FALSE, steady |-> FALSE, from |-> 0]
NoReport == [alone |-> FALSE, steady |-> FALSE, from |-> 0, to |-> 0, rows |-> <<>>]

At(g, s) == ~fatal /\ job[g].step = s
More(g)  == job[g].k <= Len(job[g].list)
This(g)  == job[g].list[job[g].k]

\* The call of g begins with a list of devices, and from now on overlaps those under way.
Begin(g, s, list) ==
    /\ At(g, "idle") /\ calls.gathers < setup.gathers
    /\ calls' = [calls EXCEPT !.gathers = @ + 1]
    /\ job' = [h \in Gatherers |->
                 IF h = g THEN [Idle EXCEPT !.step = s, !.list = list, !.from = now,
                                  !.alone = \A o \in Gatherers : job[o].step = "idle",
                                  !.steady = /\ series.steady
                                              /\ \A o \in Gatherers : job[o].step = "idle" \/ job[o].steady]
                 ELSE [job[h] EXCEPT !.alone = FALSE]]
    /\ UNCHANGED <<setup, machine, plugin, page, series, fatal, changes, history>>

Kept == <<setup, machine, page, series, calls, changes, history>>

\* net.Gather: the interfaces of Init, sorted by name.
ReadNet(g) ==
    /\ input = "net"
    /\ Begin(g, "keep", [i \in 1..Cardinality(present \cap names) |-> Sample(Sorted(present \cap names)[i])])

\* diskIO and DiskUsage
ReadDisks(g) ==
    /\ input \in {"diskio", "disk"}
    /\ \E q \in Orders(IF input = "disk" THEN DiskUsage ELSE present) :
          Begin(g, "select", [i \in DOMAIN q |-> Sample(q[i])])

\* Mutant: the disks are not compared with those of the page.
ChosenAll(d) == TRUE

Chosen(d) == IF input = "disk" THEN d = path ELSE d \in names

Select(g) ==
    /\ At(g, "select") /\ More(g)
    /\ LET s == This(g)
           stat == IF Chosen(s.dev) THEN Append(job[g].stat, s) ELSE job[g].stat
       IN  job' = [job EXCEPT ![g].k = @ + 1, ![g].stat = stat]
    /\ UNCHANGED <<Kept, plugin, fatal>>

\* Series writes the map of names that Gather reads.
SelectCrash(g) ==
    /\ At(g, "select") /\ More(g) /\ input = "diskio"
    /\ \E p \in Pages : page[p].step = "add"
    /\ fatal' = TRUE
    /\ UNCHANGED <<Kept, plugin, job>>

Selected(g) ==
    /\ At(g, "select") /\ ~More(g)
    /\ LET stat == job[g].stat
           rows == [i \in DOMAIN stat |-> Row(stat[i], stat[i].total, 0)]
       IN  job' = [job EXCEPT ![g] = IF input = "diskio" THEN [@ EXCEPT !.step = "keep", !.list = stat]
                                     ELSE [@ EXCEPT !.step = "report", !.rows = rows]]
    /\ UNCHANGED <<Kept, plugin, fatal>>

\* Mutant of diff: the last sample stays the one to compare with.
KeepNever(g) ==
    /\ At(g, "keep")
    /\ job' = [job EXCEPT ![g].step = "store"]
    /\ UNCHANGED <<Kept, plugin, fatal>>

\* diff, of net and of diskio, statement by statement
Keep(g) ==
    /\ At(g, "keep")
    /\ prev' = cur
    /\ job' = [job EXCEPT ![g].step = "store"]
    /\ UNCHANGED <<Kept, names, path, cur, last, cpu, fatal>>

Store(g) ==
    /\ At(g, "store")
    /\ cur' = job[g].list
    /\ job' = [job EXCEPT ![g].step = "since"]
    /\ UNCHANGED <<Kept, names, path, prev, last, cpu, fatal>>

Lapse(g) ==
    /\ At(g, "since")
    /\ job' = [job EXCEPT ![g] = [@ EXCEPT !.step = "stamp", !.span = Since(last)]]
    /\ UNCHANGED <<Kept, plugin, fatal>>

Stamp(g) ==
    /\ At(g, "stamp")
    /\ last' = now
    /\ job' = [job EXCEPT ![g].step = "load"]
    /\ UNCHANGED <<Kept, names, path, cur, prev, cpu, fatal>>

Load(g) ==
    /\ At(g, "load")
    /\ job' = [job EXCEPT ![g] = [@ EXCEPT !.step = "diff", !.list = cur, !.k = 1]]
    /\ UNCHANGED <<Kept, plugin, fatal>>

Diff(g) ==
    /\ At(g, "diff") /\ More(g)
    /\ LET r == Row(This(g), StatDiff(This(g)), job[g].span)
       IN  job' = [job EXCEPT ![g].k = @ + 1, ![g].rows = Append(@, r)]
    /\ UNCHANGED <<Kept, plugin, fatal>>

\* system.Gather: CPUBusyPercent reads the times before it takes the lock.
ReadTimes(g) ==
    /\ input = "system"
    /\ \E d \in names : Begin(g, "swap", <<Sample(d)>>)

SwapTimes(g) ==
    /\ At(g, "swap")
    /\ LET t == job[g].list[1]
       IN  /\ job' = [job EXCEPT ![g].step = "report", ![g].rows = <<BusyRow(cpu[t.dev], t)>>]
           /\ cpu' = [cpu EXCEPT ![t.dev] = t]
    /\ UNCHANGED <<Kept, names, path, cur, prev, last, fatal>>

\* procstat.Gather: the processes of Init, in the order of a map.
ReadProcs(g) ==
    /\ input = "procstat"
    /\ \E q \in Orders(names) : Begin(g, "percent", [i \in DOMAIN q |-> Sample(q[i])])

\* hasCPUTimes is not set yet, so that Proc.Percent gives an error.
FirstPercent(d) == cpu[d].at = 0

\* Process.Percent of the library: the times are those of whichever process has the number
\* now, so that they may have fallen.
PercentRow(t1, t2) ==
    IF t2.at = t1.at THEN Row(t2, 0, 1) ELSE Row(t2, t2.total - t1.total, t2.at - t1.at)

\* addMetric: what cannot be read is 0.  The library's reading and storing of the times and
\* the test and the setting of hasCPUTimes after it are one step here.
Percent(g) ==
    /\ At(g, "percent") /\ More(g)
    /\ LET d == This(g).dev
           t == Sample(d)
           r == IF d \notin present \/ FirstPercent(d) THEN Row(t, 0, 1) ELSE PercentRow(cpu[d], t)
       IN  /\ job' = [job EXCEPT ![g].k = @ + 1, ![g].rows = Append(@, r)]
           /\ cpu' = IF d \in present THEN [cpu EXCEPT ![d] = t] ELSE cpu
    /\ UNCHANGED <<Kept, names, path, cur, prev, last, fatal>>

\* mergeHardwareMetrics sets the rows as values.<name>.
Report(g) ==
    /\ \/ At(g, "report")
       \/ (At(g, "diff") \/ At(g, "percent")) /\ ~More(g)
    /\ report' = [alone |-> job[g].alone, steady |-> job[g].steady, from |-> job[g].from,
                  to |-> now, rows |-> job[g].rows]
    /\ before' = report
    /\ job' = [job EXCEPT ![g] = Idle]
    /\ UNCHANGED <<setup, machine, plugin, page, series, fatal, calls, changes>>

(***************************************************************************)
(* Series                                                                  *)
(***************************************************************************)
NoPage == [step |-> "idle", list |-> <<>>, k |-> 1, steady |-> FALSE]

PageAt(p, s) == ~fatal /\ page[p].step = s
PageKept     == <<setup, machine, changes, before>>

\* What is shown is no longer what Gather goes by.
Unsteady ==
    /\ job' = [h \in Gatherers |-> [job[h] EXCEPT !.steady = FALSE]]
    /\ report' = [report EXCEPT !.steady = FALSE]

Show(p, devs, steady) ==
    /\ series' = [devs |-> devs, steady |-> steady]
    /\ page' = [page EXCEPT ![p] = NoPage]

Open(p) ==
    /\ PageAt(p, "idle") /\ calls.pages < setup.pages
    /\ calls' = [calls EXCEPT !.pages = @ + 1]
    /\ Unsteady

\* net knows its interfaces since Init, and system has columns of its own.
PageFixed(p) ==
    /\ Open(p)
    /\ input \in {"net", "system"}
    /\ Show(p, Sorted(names), TRUE)
    /\ UNCHANGED <<PageKept, plugin, fatal>>

\* procstat: the processes of Init, in the order of a map.
PageProcs(p) ==
    /\ Open(p)
    /\ input = "procstat"
    /\ \E q \in Orders(names) : Show(p, q, TRUE)
    /\ UNCHANGED <<PageKept, plugin, fatal>>

\* The machine does not tell the disks: a page without series, and the names stay.
PageFails(p) ==
    /\ Open(p)
    /\ input \in {"diskio", "disk"}
    /\ Show(p, <<>>, FALSE)
    /\ UNCHANGED <<PageKept, plugin, fatal>>

\* disk: the first path in the order of names, which stays when there is none.
PageDisk(p) ==
    /\ Open(p)
    /\ input = "disk"
    /\ IF DiskUsage = {} THEN path' = path /\ Show(p, <<>>, TRUE)
       ELSE path' = Sorted(DiskUsage)[1] /\ Show(p, <<path'>>, TRUE)
    /\ UNCHANGED <<PageKept, names, cur, prev, last, cpu, fatal>>

\* diskio: a new map of names, which is filled in disk by disk.
PageDiskIO(p) ==
    /\ Open(p)
    /\ input = "diskio"
    /\ \E q \in Orders(present) :
          page' = [o \in Pages |->
                     IF o # p THEN [page[o] EXCEPT !.steady = FALSE]
                     ELSE [NoPage EXCEPT !.step = "add", !.list = q,
                             !.steady = \A r \in Pages : page[r].step = "idle"]]
    /\ names' = {}
    /\ series' = [series EXCEPT !.steady = FALSE]
    /\ UNCHANGED <<PageKept, path, cur, prev, last, cpu, fatal>>

\* One disk alone is taken whatever it is called.
AddName(p) ==
    /\ PageAt(p, "add") /\ page[p].k <= Len(page[p].list)
    /\ LET d == page[p].list[page[p].k]
       IN  names' = IF Len(page[p].list) > 1 /\ d \notin Matched THEN names ELSE names \cup {d}
    /\ page' = [page EXCEPT ![p].k = @ + 1]
    /\ UNCHANGED <<PageKept, path, cur, prev, last, cpu, fatal, job, series, calls, report>>

\* Two pages fill in the same map.
AddCrash(p) ==
    /\ PageAt(p, "add") /\ page[p].k <= Len(page[p].list)
    /\ \E o \in Pages \ {p} : page[o].step = "add"
    /\ fatal' = TRUE
    /\ UNCHANGED <<PageKept, plugin, job, page, series, calls, report>>

\* The disks are gone through again, in another order.
ShowDiskIO(p) ==
    /\ PageAt(p, "add") /\ page[p].k > Len(page[p].list)
    /\ \E q \in Orders(names \cap Range(page[p].list)) : Show(p, q, page[p].steady)
    /\ UNCHANGED <<PageKept, plugin, fatal, job, calls, report>>

(***************************************************************************)
(* The machine                                                             *)
(***************************************************************************)
Tick ==
    /\ ~fatal /\ now < setup.time
    /\ now' = now + 1
    /\ \E S \in SUBSET present : total' = [d \in Devices |-> IF d \in S THEN total[d] + 1 ELSE total[d]]
    /\ UNCHANGED <<setup, present, epoch, plugin, job, page, series, fatal, calls, changes, history>>

\* A device goes, or comes (back) with its counter at 0.
Change(d) ==
    /\ ~fatal /\ changes < setup.changes /\ input # "system"
    /\ changes' = changes + 1
    /\ IF d \in present
       THEN present' = present \ {d} /\ UNCHANGED <<total, epoch>>
       ELSE /\ present' = present \cup {d}
            /\ total' = [total EXCEPT ![d] = 0]
            /\ epoch' = [epoch EXCEPT ![d] = @ + 1]
    /\ series' = [series EXCEPT !.steady = FALSE]
    /\ page' = [p \in Pages |-> [page[p] EXCEPT !.steady = FALSE]]
    /\ Unsteady
    /\ UNCHANGED <<setup, now, plugin, fatal, calls, before>>

(***************************************************************************)
(* The plugins are created and initialized before the first call; disk and *)
(* diskio know nothing before the first page.                              *)
(***************************************************************************)

\* net.Init: the interfaces that the filter lets through.
InitNet == names = present \cap Matched

\* findPids: BERF_PID, or the process itself.
FindPids == SUBSET Devices \ {{}}

\* A process that does not exist is left out.
UpdateProcesses(pids) == pids \cap present

InitProcstat == \E pids \in FindPids : names = UpdateProcesses(pids)

\* system.Init reads the CPU once.
InitSystem == cpu = [d \in Devices |-> IF input = "system" THEN Sample(d) ELSE [Sample(d) EXCEPT !.at = 0]]

Init ==
    /\ setup \in Setups
    /\ now = 1
    /\ present \in (IF input = "system" THEN {{d} : d \in Devices} ELSE SUBSET Devices \ {{}})
    /\ total = [d \in Devices |-> IF d \in present THEN Start ELSE 0]
    /\ epoch = [d \in Devices |-> 0]
    /\ \/ input = "net" /\ InitNet
       \/ input = "procstat" /\ InitProcstat
       \/ input = "system" /\ names = present
       \/ input \in {"disk", "diskio"} /\ names = {}
    /\ InitSystem
    /\ path = 0
    /\ cur = <<>> /\ prev = <<>> /\ last = 0
    /\ job = [g \in Gatherers |-> Idle]
    /\ page = [p \in Pages |-> NoPage]
    /\ series = [devs |-> <<>>, steady |-> FALSE]
    /\ fatal = FALSE
    /\ calls = [gathers |-> 0, pages |-> 0] /\ changes = 0
    /\ report = NoReport /\ before = NoReport

Gather(g) ==
    \/ ReadNet(g) \/ ReadDisks(g) \/ Select(g) \/ SelectCrash(g) \/ Selected(g)
    \/ Keep(g) \/ Store(g) \/ Lapse(g) \/ Stamp(g) \/ Load(g) \/ Diff(g)
    \/ ReadTimes(g) \/ SwapTimes(g) \/ ReadProcs(g) \/ Percent(g) \/ Report(g)

Series(p) ==
    \/ PageFixed(p) \/ PageProcs(p) \/ PageFails(p) \/ PageDisk(p)
    \/ PageDiskIO(p) \/ AddName(p) \/ AddCrash(p) \/ ShowDiskIO(p)

Next ==
    \/ \E g \in Gatherers : Gather(g)
    \/ \E p \in Pages : Series(p)
    \/ \E d \in Devices : Change(d)
    \/ Tick

Spec == Init /\ [][Next]_vars

(***************************************************************************)
(* Properties                                                              *)
(***************************************************************************)
Growths  == IF input = "procstat" THEN Int ELSE Nat
RowOK(r) == r.dev \in Devices /\ r.growth \in Growths /\ r.span \in 0..setup.time \cup {Ages}

\* The state has its shape: only the row of a process can have a negative growth, and
\* there is one row of a device in a report.
TypeOK ==
    /\ names \subseteq Devices /\ path \in Devices \cup {0}
    /\ last \in 0..now
    /\ \A g \in Gatherers : /\ \A i \in DOMAIN job[g].rows : RowOK(job[g].rows[i])
                            /\ Len(job[g].rows) <= Cardinality(Devices)
    /\ series.devs \in Seq(Devices)

\* Row r shows what the counter grew by since row b, less 1 at a wrap, over a time that
\* is within these bounds.
Exact(r, b, low, high) ==
    LET wrapped == input \in {"net", "diskio"} /\ r.total \div Width > b.total \div Width
    IN  /\ r.growth = r.total - b.total - (IF wrapped THEN 1 ELSE 0)
        /\ r.growth > 0 => r.span \in low .. high

\* The process of a row has not ended since.
Running(r) == input = "procstat" => r.dev \in present /\ r.epoch = epoch[r.dev]

\* A call of Gather that overlaps no other, after one that overlapped none,
\* shows what the counters of a device grew since the one before, less 1 at
\* a wrap, over a time that is wrong by no more than the two calls took:
\* what earlier calls mixed up in gPrevNetStats, gCurNetStats and lastStatsTime
\* (net.go:140-155, diskio.go:147-169) is gone by then.  A process is one
\* that still runs.
AloneExact ==
    report.alone /\ before.alone /\ input # "disk" =>
      \A i \in DOMAIN report.rows, j \in DOMAIN before.rows :
         LET r == report.rows[i]
             b == before.rows[j]
         IN  r.dev = b.dev /\ r.epoch = b.epoch /\ Running(r)
               => Exact(r, b, report.from - before.to, report.to - before.from)

\* The values of a report are plotted by their place in it: as long as no
\* device comes or goes after the page, there is one row for every device
\* that the page shows, and those of net and disk are in the order of the page.
PointsMatchSeries ==
    report.steady /\ Range(series.devs) \subseteq present /\ series.steady =>
      LET devs == [i \in DOMAIN report.rows |-> report.rows[i].dev]
      IN  /\ Range(devs) = Range(series.devs)
          /\ Len(devs) = Len(series.devs)
          /\ input \in {"net", "disk", "system"} => devs = series.devs
=============================================================================

# A TLA+ model of berf

berf is a load generator: it calls a *benchable* (an HTTP target, a gRPC
target, any function) from a number of goroutines, collects what came back and
shows it on the terminal, in charts and in a log of plots. This directory holds
TLA+ modules of it, the TLC configurations that check them and proofs that TLAPS
checks. They are in four groups, which meet at narrow interfaces:

* the **bench**: workers, channel, report, printer, charts, signals, the end;
* the **HTTP bench** (`berf <url>`): what a worker does in one call of `Run`, all
  workers sharing one `Invoker`, with uploads and connections;
* the **profile files** of `-P`: their parser, their tags;
* the **hardware plugins**, called by the chart collector and by web pages; and the
  **log of plots**.

To run them:

    tlasany Blow.tla                                   # parse
    tlc -workers 2 -config Blow.cfg MCBlow.tla         # check one instance
    tlapm Blow_proofs.tla                              # check the proofs

## Inventory

| component | state | operations | how it meets the others |
|---|---|---|---|
| Requester (`requester.go`) | the context, `wg`, the semaphore of `-n`, `concurrent`, a worker's record | `run`, `loopWork`, `generateTokens`, the signal goroutine, the timer | sends records on `recordChan`, cancels the context, closes the channel |
| StreamReport (`report.go`) | counts, codes, errors, bytes, the window of the last second, `doneChan` | `Collect`, the goroutine of the seconds, `Snapshot`, `Charts` | receives from `recordChan`; one mutex; `doneChan` ends the printer |
| StartBench (`berf.go`) | the chart goroutine's WaitGroup | `StartBench`, `collectChartData` | starts everything, waits for the printer and for the charts |
| Printer (`print.go`) | the progress bars | `PrintLoop`, `tick`, `updateProgressValue` | takes snapshots until `doneChan` is closed |
| JSONLogFile (`pkg/util/util.go`) | a file, `HasRows`, `Closed` | open, `WriteJSON`, `Close` with compression | written by the chart collector, read in dry mode |
| Charts (`charts.go`) | the plugins | `renderCharts`, `handleData`, `mergeHardwareMetrics` | goroutines of the web server and the collector call the plugins |
| Hardware plugins (`plugins/*`) | the last samples, the names reported on | `Gather`, `Series`, `Init` | no lock but that of `system`; rows are plotted by their place |
| Options (`pkg/blow/blow.go`, `invoker.go`) | `Opt`, read-only but for `profiles` | `Blow`, `NewInvoker`, `buildRequestClient` | read by all that follow |
| Invoker (`pkg/blow/invoker.go`) | the round-robin counter, byte counters, lines, a pipe, profiles, a lock | `Run`, `setReq`, `setBody`, `runProfiles`, `httpInvoke`, `processRsp`, `updateThroughput`; `Bench.Init`, `Bench.Final` | is the benchable of the `berf` command: all workers call one Invoker |
| Upload (`internal/file.go`, `upload.go`) | readers, walks of directories, a cache, counters behind names | `Start` and `Read` of each reader, `DealUploadFilePath`, `CreateFileField` | one goroutine reads and hands values to the workers; `UPLOAD_EXIT` ends them with `io.EOF` |
| Connections, proxy, TLS (`proxy.go`, `tlcp.go`, `internal/dial.go`) | connections open, kept, in use | dial, CONNECT, handshake, counting `Read` and `Write` | called by fasthttp, which keeps the idle ones |
| Details log (`internal/log.go`) | the file and a marked position | `MarkPos`, `Write`, `GetLastLog` | written at the end of each response, shown by `Final` |
| Profiles and tags (`internal/profile.go`, `tag.go`) | the parser's variables, of which `lastComments` is global | `ParseProfileArg`, `parseRequests`, `processLine`, `CreateReq` | gives the Invoker its list of requests |
| Filters, output helpers, commands, gRPC service | | | see "Not modelled" |

What makes each component correct, and what endangers it:

* Requester: exactly `-n` requests are made when nothing disturbs the run; no send
  after the close; every run that has an end comes to it, whether by its number of
  requests, its duration, the end of its input or a signal, at any moment.
* StreamReport: each record is counted exactly once and for what it is, although
  records are recycled; the window of the charts covers the records since the last
  window; `doneChan` is closed after the last record.
* Printer and StartBench: the last summary is complete; the progress bar never gets
  a count above its maximum; the process ends.
* JSONLogFile: the file is a JSON array after every write, and after a crash and a
  reopening.
* Hardware plugins: a row is what a counter grew by, and belongs to the series at its
  place, although two callers mix up the samples.
* Invoker: targets are taken in turn; bytes are reported once, whoever swaps the
  counters; what is printed of a request stands together; a request has the method
  and the body that its options ask for; values of a login are there when needed.
* Upload: every reader gives its files in order and in turn, through the cache and
  whichever workers take them; names differ; the end of a listing ends the run.
* Connections: every one is closed, or kept, or in use.
* Profiles: a comment, an export, a line of a body or a tag counts for the profile it
  stands with.

PROJECT.json lists under "hazards" where in the code each of these bites.

## Modules

| module | models |
|---|---|
| `RecordChan` | the report records, `recordPool` and `recordChan` |
| `Requester` | `requester.go`; EXTENDS RecordChan |
| `StreamReport` | `Collect` and the goroutine of the seconds of `report.go`; EXTENDS RecordChan |
| `Bench` | `StartBench`, `PrintLoop`, `collectChartData`, signals and the end of the process, composed with Requester and StreamReport; all properties |
| `BenchPromise` | the abstract specification: answers come, the report takes each once, it is over when none is left out |
| `PlotsLog` | `JSONLogFile` and `gzipFile` of `pkg/util/util.go`: one minute's log, its archive and the runs that open it one after the other |
| `BlowOptions` | `Opt`: what `Blow` and `NewInvoker` make of a command line, a record of `Setups` |
| `Upload` | the readers, walks, cache and dealing of `-u`; EXTENDS BlowOptions |
| `Dialer` | the chain of dialers and the connections; EXTENDS BlowOptions |
| `Invoker` | a call of `Run` by every worker; EXTENDS Upload, Dialer |
| `Blow` | `Bench.Init`, the workers, `Bench.Final` and the goroutines of Upload, composed; all properties |
| `Selections` | a loop that appends some of a list to another, for `Profiles` and `Invoker` |
| `Profiles` | `profile.go` and `tag.go` |
| `Hardware` | `plugins/` and their callers in `charts.go` |
| `MCBench`, `MCPlotsLog`, `MCBlow`, `MCProfiles`, `MCHardware` | the instances for TLC |
| `Bench_proofs`, `BenchEnd_proofs` | theorems and proofs about `Bench`, the second about its end and `BenchPromise` |
| `PlotsLog_proofs` | theorems and proofs about `PlotsLog` |
| `Blow_proofs`, `BlowUploads_proofs` | theorems and proofs about `Blow`, the second about its uploads |
| `Hardware_proofs` | theorems and proofs about `Hardware` |
| `Profiles_proofs` | theorems and proofs about `Profiles` |
| `Selections_proofs` | lemmas about `Selections`, induction and division, for the others |

### The bench: state and actions

*Records.* The program hands a `ReportRecord` around by pointer and exactly one
goroutine holds it at any time, so a record is modelled by its contents: `rr[w]`
with a worker, a place in `recordChan`, `held` with Collect, and `pool`, the
contents that were put back. `sync.Pool` may keep or drop what it is given, so
`pool` only grows and `Get` returns any of its members or a new record. `req` is
a history field (which request the record was filled for); `bytes` stands for
`readBytes`, `writeBytes` and `cost`, which only a successful request sets.

*Workers.* `pc[w]` follows `loopWork`: enter, acquire a ticket of the semaphore,
throttle, invoke, send, done (`wg.Done`), leave (`concurrent - 1`), over. The
answer of the target is any of `Endings`, at any time; `io.EOF` ends the worker
without a record. `answer` is a history variable.

*run().* `run` follows it: begin, spawn, wait for `wg`, cancel, close, over.
`gen` is `generateTokens`; each receive from its ticker is a step that may come at
any time. Passing a context over the unbuffered `ch` and starting the worker is one
step. `top` stands for the contexts that were cancelled: those of the workers from
`top` on.

*Signals.* Before `signal.Notify` a signal kills the process; afterwards the first
cancels the context and the second calls `os.Exit`. `sigs` is a channel of one
place, so a signal that finds it full is dropped.

*Collect* receives, updates under the lock, puts the record back. Sections under
`s.lock` do not block and touch nothing that is read without the lock, so each is
one step.

*Printer.* An echo is two steps, the snapshot and the formatting, because the
concurrency is read in the second one. `NoReport` is the mode that prints nothing.

*Charts.* The collector waits for its ticker or for the context; a tick with data
leads to a write. `MainExit` needs it to be done.

Bounds: `MaxRequests` limits the requests of a behaviour and `MaxSignals` the
signals; both are guards of the model only (`Begin`, `ReceiveSignal`). A worker
that wants to begin when the bound is reached waits, which can only hide
behaviours, except that it could block the end of a run; the runs that check
liveness have either `N <= MaxRequests` or a context that is cancelled in the end,
which lets the worker stop at the throttle.

### The log of plots: state and actions

`PlotsLog` is a component by itself: in `Bench` a write of the
chart collector is one step, here it is the seek and the three writes of
`WriteJSON`. `log` is the file, a sequence of bytes in which the text of a row is
one element, followed by its two last bytes, which a seek from the end can reach;
`archive` is what the `.gz` unpacks to. `pc`, `pos`, `hasRows` are the run's: the
step it is at, the position of the open file, `HasRows`. A file's name is the
minute it is opened in, so the module is one minute: a run opens the file (`Open`,
`OpenFresh`), writes rows (`WriteSeparator`, `WriteRow`, `WriteTail`), closes it and
makes the archive (`Close`, `PackCreate`, `PackWrite`, `PackRemove`), or is killed at
any step (`Crash`; the second signal of `Bench` is one way), and the next run of the
minute finds what is left. With `MayFail` each write may store only a prefix, and
`Stat`, `Create`, the compressor and `Remove` may fail; the code goes on as it does.
`MaxOpens` bounds the runs. `kept`, `rows`, `sound` and `settled` are history
variables: the rows written without an error since the file was begun, the array
that the file should be, whether what was found at the opening could be continued,
and whether the last write was whole. A log that cannot be opened is a log that
nothing is done with, and has no action.

### The HTTP bench: state and actions

*Options.* A command line is a record `f` of `Setups`, and `opt` is what `Blow`,
`NewInvoker`, `buildRequestClient` and `HttpieArg.Build` make of it; nothing but the
list of profiles changes later. Text is abstracted to what the control flow asks of
it: a request item is its operator, the argument of `-b` says whether it is a file,
whether that exists and which tail it has.

*A call of Run.* `job[w]` is the call that caller `w` is in (a worker, or `Starter`,
the goroutine of `StartBench`, which makes the initial call of `Bench.Init`): where it
is, its list of profiles, the body and the number of its request, the status code,
the outcome. `RunBegin` is the begin of `Run`; `SetReq` the round robin; `SetBody` the
chain of conditions of `setBody`, one disjunct per source of a body; `SetField` the
form field of an upload; `NextProfile` one turn of `runProfiles`; `Ask` and `Connect`
the acquisition of a connection; `Write`, `WriteChunk`, `Answer` the exchange;
`Discard`, `PrintReq`, `PrintResp`, `Log` the ways through `processRsp`; two steps of
`UpdateThroughput` are the two swaps; `Return` is what the Requester does with the
result. Each step is one access to what callers share. Bytes are not counted but
named by the number of their request, so that it can be told whose bytes a result
reports. `picks`, `sent`, `names`, `moved`, `reported`, `lost`, `inits`, `unset`,
`begun` are history variables.

*Uploads.* A part of `-u` is a word, what `os.Stat` says of it and its files; a listing
comes in any order. Each walk of a directory is an action of its own (`Walker(i)`) over
a channel of one place. `Read` is one call of `fileReaders.Read`, `HandOver` the
rendezvous with a worker, `DealNext` the rest of the loop. Values are numbered as they
are made (`uvs`); the cache maps a key to such a number. `proc` becomes "fatal" or
"panic" where the code calls `log.Fatal` or panics.

*Connections.* `dialing[w]` goes through the dialers that `opt` puts together: dial,
CONNECT, its answer, the TLCP handshake. fasthttp is external: it takes an idle
connection if there is one, keeps that of an answered request and closes the others.

*The environment* refuses (a dial, a CONNECT, a handshake, a write, an answer, a body
that cannot be unpacked) at any place if `opt.refusing`, and files vanish before they
are opened if `opt.vanishing`.

Bounds: `MaxCalls` limits the calls of `Run` without `-n` (`Limit`); `Width` is the
number of values of the round-robin counter (2^32 in the code), small so that it comes
round; `Chunks` is the number of reads it takes to empty the pipe of a multipart body;
`MaxParts` only names how many walks there may be.

### Profiles: state and actions

A line has a kind (section, comment, option, export, request, item, text), which stands
for the regular expressions; a value is the number of the line it is from. `ReadLine`
is one turn of the loop of `parseRequests` with `processLine`, `OpenFile` and `EndFile`
the two ends of it in `ParseProfileArg`, `Finish` its last condition. A tag is a number, below
1000 one of digits and from 1000 on a word that ends in digits, in the order of integers and
in that of strings (`Order`, in which 10 comes before 2: `DigitOrder`). Words that begin
with a digit are left out. `SelectionExact` is about single tags, ranges of two numbers in
either order and ranges of two words with one digit (`Clear`), like `tag1-tag3` of the
README; in the latter no longer word of the kind may stand (see below).
`Requests` is `CreateReq`. `read` and `found` are history variables, and the properties
compare what came out with the lines that were read. `MaxLines` bounds all files
together. `EmptyIsDigits` is what the library function `ss.IsDigits` says of an empty
tag; no vendored source settles it, so it is a constant (false in the run, either in the
proofs). If it is true, a range that begins
or ends at 0 has the profiles without a tag, too, and `SelectionExact` leaves such ranges out.

### Hardware: state and actions

One behaviour looks at one plugin, `input`, since the plugins share nothing. `Gather(g)`
of the collector or of a request, and `Series(p)` of a page, are split at the
statements that touch what goroutines share: for net and diskio `Keep`, `Store`,
`Lapse`, `Stamp`, `Load`, `Diff`; for diskio `Select`, disk by disk, against the map of names that
`AddName` fills; for system the swap under its lock; the percent of a process (`Percent`) is one step with the
library's, whose formula (`PercentRow`) is external. `Tick` and `Change` are the
machine: counters grow, devices come and go. Two users of one Go map at the same time
end the process (`SelectCrash`, `AddCrash`). `Width` is the number of values of a
counter, `Start` begins just before it wraps. The bounds on time, calls, pages and
changes are fields of `Setups`. mem and netstat keep nothing between two calls.

## Runs

| run | instance | shows |
|---|---|---|
| `bench` | `-n 2`, 2 workers, channel of 1, `MaxRequests` 3, `-d`, `-qps`, end of input, 2 signals | `EachOnce`, `TalliesTrue`, `BarFits`, `AllRequestsRun`, `WindowConsistent`, `SemaphoreBounded`, `TypeOK`; the report is complete however the run ends (`FinalReportComplete`, `NoSendOnClosed`); refinement of `BenchPromise` |
| `bench_ends` | `-ci 1:10s:1 -n 2`, end of input, liveness | `NoSendOnClosed`, `Termination` while workers come one by one |
| `bench_signal` | no limit, `-qps`, 1 signal, liveness | `SignalEnds`, and `EachOnce`, `FinalReportComplete` without `-n` |
| `bench_down` | `-ci 1:_:1`, no `-n` | expected violation, see below |
| `bench_concurrent` | `-ci 1`, `-n 2` | expected violation, see below |
| `plots_log` | 3 runs in a minute, 3 rows, crashes and short writes | `RowsSurvive`, `PlotsReadable`, `TypeOK` |
| `plots_viewed` | 2 undisturbed runs in a minute | expected violation, see below |
| `blow` | 29 command lines, 2 workers, 3 files and a hidden one | 12 invariants and `RunEnds`, see below |
| `upload_exit` | `UPLOAD_EXIT=1`, the patterns {f1, f2} and {f3}; a directory | expected violation, see below |
| `init_values` | `-P` with a login, nothing printed or logged | expected violation, see below |
| `profiles` | `-env test`, every file of up to 5 lines out of 12, two files, tags with ranges | `CommentsBelong`, `ExportsInScope`, `SelectionExact`, `BodyWhole`, `TypeOK` |
| `hardware` | 9 machines of up to 3 devices, 2 callers of `Gather`, 2 pages | `AloneExact`, `PointsMatchSeries`, `TypeOK` |

Why the instances are enough to meet the interesting cases. Of the bench: two workers already
race for the last ticket, and one of them may make both requests, so that
a record makes a second trip through the pool; one place in the channel makes
workers block in the send and lets records overtake nothing but wait in three
different places (worker, channel, Collect); `MaxRequests` above `N` lets a
broken semaphore start a request too many. Two signals are what the handler tells
apart. Three runs over one log make a run that appends to what a run left that
itself had appended; three rows put one before, one at and one after a place where
something went wrong.

`RowsSurvive` and `PlotsReadable` are about what is *not* said in the code: a write
two bytes before the end lands on `"\n]"` only if everything before went well, yet
no row that was ever whole is harmed, because what is left behind by a crash or a
short write is never less than two bytes beyond it; and a log that a crash left with
a separator at its end is repaired by the next row. `PlotsReadable` says nothing of
a log whose framing was damaged (`sound`): a crash between the row and its closing
bracket damages it, and so does an empty array, see below.

`EachOnce` and `TalliesTrue` together say that the report is the truth about what
was answered: no record is lost between `Invoke` and the tallies, none is counted
twice, and what is counted is what that request got, although records are
recycled. `KeepsPromise` says the same as a refinement, with the end of the run:
`Bench` implements `BenchPromise` under the mapping that shows an answer once the
request has one that is reported, and is over when `doneChan` is closed.

Of the HTTP bench: every source of a body, kind of reader, way of printing and way of
connecting is in some command line, with failures wherever the code handles them. Two
workers are enough for one to take what the other gave back, to print while the other
wants to, to swap the counters between the other's two swaps and to be given a cached
value that the other has not named yet. Three hosts and two URLs make the round robin
go round its targets, and a width of 4 makes the counter itself come round. Three or
four calls go through a listing and begin it anew. `profiles` checks all
sequences of lines up to its bound, which is long enough for a section of variables, a
profile, a comment and the next file; the ranges include one across 9 and 10, where the
orders of strings and of numbers differ. In `hardware` the counters start just before a
wrap, calls overlap each other, two more come after, each alone, and a device comes or
goes.

`BytesOnce`, `BlocksWhole`, `ConnectionsOwned`: the two atomic swaps, the lock and the
chain of deferred closes are each simple, and what they give together is that a byte is
reported at most once and dropped only with a failed result, that the text of a request
and of its response is never parted, and that a connection is left open only by a failed
write of CONNECT. `UploadsInTurn`, `SolePatternWhole`, `CachedOnce`, `NamesDiffer` speak of
what the workers were given, over all readers and walks: the k-th file of a reader is
the k-th of its listing although goroutines walk ahead and the cache returns old values.
A directory is not sorted and may be listed in another order each time, so of its walks
`UploadsInTurn` says that each gives every file once. `SolePatternWhole` is what is left of
the promise of `UPLOAD_EXIT` (see below): a pattern that is the only one is uploaded as a
whole and no file of it twice, even if its last file is a cached value that another reader
has given to a worker before.
`LastCallShown` compares the log that `Final` prints with what was logged before and
after the last call began. `AloneExact` says of a plugin that what concurrent calls mix
up is gone after one call alone; `PointsMatchSeries` that rows fit the series.

Of the runs with a duration the ends are only checked for safety
(`bench`); that they come is checked for `-n`, the end of input and
signals.

Fairness: every goroutine that can take a step gets to take it (the Go scheduler),
`Invoke` returns (a target that never answers keeps a run from ending, in the code
too), timers and tickers fire. `PrintDone`, `ChartDone` and
`Stop` are strongly fair since each is a case of a `select` whose other case is a
ticker: Go picks at random among the ready cases. Nothing is assumed of the environment's signals or of echoes
before the end.

`RunEnds` of the HTTP bench assumes weak fairness of the goroutine that reads, of each
walk, of the initial call, of each worker and of `Final`: the Go scheduler, and calls
that return or time out. It says nothing of a directory without visible files: its walk
goes round for ever, and so does the code's. `hardware` checks no deadlock
(`CHECK_DEADLOCK FALSE`): its behaviours end at their bounds.

### Where the code and its documents disagree

* `bench_down`: the help of `-ci` promises "down to 0 by step1 every 10s".
  `generateTokens` cancels the contexts of single workers, but `loopWork` never
  looks at its own context, only at the one of the whole run. A worker in the down
  phase goes on starting requests (with a context that is done).
* `bench_concurrent`: the demo of the README ends with "Concurrent 0". A worker
  calls `wg.Done()` before it decrements `concurrent`, so the last summary can
  show it as running.
* `plots_viewed`: the README says that an archive is viewed with
  `berf berf_202111301122.log.gz`. A run that ends before its first tick leaves an
  empty array of three bytes, which `Close` keeps as it is. A second run in the same
  minute takes the file for one that has rows and begins its first row with a comma:
  the archive starts with `"[,"` and is not a JSON array.
* `init_values`: a comment says that an init profile's `result.name` takes a value from
  its answer for later profiles, like the token of a login. `processRsp` discards the
  body before it is looked at when there is neither a log nor `-p`, so without `-n 1`,
  `-v 2` or `-p` the profiles of the workers are evaluated without the token.
  `ValuesWhenShown` of the run `blow` is the part that holds.
* `upload_exit`: the help of `-u` says of `UPLOAD_EXIT=1` "to exit when all files are
  uploaded". Each `globReader` marks the last file of its own pattern, and
  `DealUploadFilePath` closes the channel at the first mark: with the patterns {f1, f2} and
  {f3} the workers are given f1 and f3, and f2 is never uploaded. `SolePatternWhole` is the
  part that holds. A directory, the run's other command line, does not keep to
  the line either: when its walk is through the channel of the `dirReader` is closed, the path
  read from it is empty, and `log.Fatal` ends the process as soon as the last file was handed
  over, while a worker may still be uploading it. (TLC stops at the shorter counterexample,
  the one of the patterns; without them in `ExitSetups` it gives this one.) A single
  file is uploaded again and again, with and without `UPLOAD_EXIT`.

What was met besides, and is in the model as the code has it, where no document of the
repository says otherwise:

* `-b @file:stream` streams only if the content of the file is itself an `@file`
  argument (`ParseBodyArg`).
* The pipe of a multipart body of request items is read once; later requests are given
  it empty. Request items beside `-b` or `-u` are dropped.
* `==`, `:=` and `=` items of a POST profile are never sent, nor is a text body `@file`.
* Overlapping calls of `Gather` compare each other's samples, so that a row may show a
  difference near 2^64; two pages of diskio at a time, or one and a `Gather`, may end the
  process.
* The tag of one file of `-P` goes for the files after it; a range of words is one of
  strings, so that `tag1-tag3` has `tag10`; an open range `3-` ends at 3.
* A failed write of CONNECT leaves the connection open; TLCP goes through a proxy
  without a CONNECT.
* disk and diskio report nothing before a page was rendered, so `-f nop` monitoring
  without a browser has no rows of them; diskio lists rows and series in independent
  orders; the first sample of a device counts as growth.

## Proofs

TLC checks small instances; the proof modules prove, for every value of the constants,
each invariant and each action property that a passing run checks: every number of
workers, requests, files, lines, devices, callers and pages, every capacity and width,
every command line. A theorem is `Spec => []P`; `Implements` is `Spec => KeepsPromise`.
All follow from the named assumptions on the constants:

* of the bench, the types of the constants, `N <= MaxRequests`, and that no status is
  called "failed", "EOF" or "pending";
* of the log, that no row is one of the marks;
* of the HTTP bench, that neither `Starter` nor `Nobody` is a worker or a caller, that
  workers and files are finitely many, that there is a URL or a profile (else
  `buildRequestClient` fails), that profiles are records, and that a part of `-u` which is a
  file has one;
* of the profiles, the types of lines and of `-P`, and that a line uses variables of
  `Names`;
* of the hardware, that a machine has finitely many devices, and that a behaviour is not
  longer than it takes a counter to wrap (`SetupsAssumption`): a counter that wraps twice
  between two samples cannot be told from one that wraps once.

| module | theorem | property | along |
|---|---|---|---|
| `Bench_proofs` | `TypeCorrect` | `TypeOK` | inductive as it stands |
| `Bench_proofs` | `NeverSendsOnClosed` | `NoSendOnClosed` | `WgInv` |
| `Bench_proofs` | `RecordedOnce`, `TalliesCorrect` | `EachOnce`, `TalliesTrue` | `RecordInv` |
| `BenchEnd_proofs` | `FinalReport` | `FinalReportComplete` | `DoneInv`, with `WgInv` and `RecordInv` |
| `BenchEnd_proofs` | `Window` | `WindowConsistent` | inductive with `TypeOK` |
| `BenchEnd_proofs` | `Semaphore`, `Bar` | `SemaphoreBounded`, `BarFits` | `TicketInv`, with `RecordInv` |
| `BenchEnd_proofs` | `AllRun` | `AllRequestsRun` | `FullInv` and `SpawnInv`, with all of the above |
| `BenchEnd_proofs` | `Implements` | `KeepsPromise` | the step simulation, under these invariants |
| `PlotsLog_proofs` | `PlotsTypeCorrect` | `TypeOK` | inductive as it stands |
| `PlotsLog_proofs` | `RowsKept` | `RowsSurvive` | `SurviveInv` |
| `PlotsLog_proofs` | `ArrayRead` | `PlotsReadable` | `ArrayInv`, with `SurviveInv` |
| `Blow_proofs` | `BytesReportedOnce` | `BytesOnce` | `BytesInv`, with `AsksInv` |
| `Blow_proofs` | `BlocksStayWhole` | `BlocksWhole` | `PrintedInv`, with `AsksInv` |
| `Blow_proofs` | `ConnectionsAreOwned` | `ConnectionsOwned` | `ConnInv` |
| `Blow_proofs` | `ValuesAreReady` | `ValuesWhenShown` | `ValuesInv` |
| `Blow_proofs` | `DataPosted` | `DataIsPosted` | `PlainInv` |
| `Blow_proofs` | `TargetsTakenInTurn` | `TargetsInTurn` | `TargetsInv` |
| `Blow_proofs` | `LastCallIsShown` | `LastCallShown` | `LastInv`, with `AsksInv` |
| `Blow_proofs` | `InitComesFirst` | `InitFirst` | `InitInv` |
| `BlowUploads_proofs` | `UploadsNamedApart` | `NamesDiffer` | `NamesInv` |
| `BlowUploads_proofs` | `UploadsCachedOnce` | `CachedOnce` | `ReadersInv`, `WalksInv`, `CacheInv` |
| `BlowUploads_proofs` | `UploadsTakenInTurn` | `UploadsInTurn` | `TurnInv`, `LapsInv`, `PlaceInv`, `PathsInv`, with those of the line before |
| `BlowUploads_proofs` | `SolePatternUploaded` | `SolePatternWhole` | `ExitInv`, with `TurnInv` and `PlaceInv` |
| `BlowUploads_proofs` | `TypeCorrect` | `TypeOK` | `TypesInv`, with most of the above |
| `Hardware_proofs` | `HardwareTypeCorrect` | `TypeOK` | `TypesInv` |
| `Hardware_proofs` | `AloneCallsExact` | `AloneExact` | `ExactInv`: `AloneInv`, `DiffInv`, `BusyInv` |
| `Hardware_proofs` | `PointsBelong` | `PointsMatchSeries` | `PointsInv`: `PagesInv`, `SteadyInv` |
| `Profiles_proofs` | `ProfilesTypeCorrect` | `TypeOK` | `TypesInv` |
| `Profiles_proofs` | `CommentsKept`, `BodiesWhole` | `CommentsBelong`, `BodyWhole` | `PendingInv`, `RightInv`, with `ReadInv`, `ParsedInv` |
| `Profiles_proofs` | `ExportsScoped` | `ExportsInScope` | `EnvInv`, `RightInv`, `FoundInv` |
| `Profiles_proofs` | `SelectedExactly` | `SelectionExact` | `SelectedInv`, `FoundInv` |

Of the bench:

* `WgInv`: `NoSendOnClosed` speaks of program counters, the code of the WaitGroup.
  `WgInv` ties them: `wg` is the number of workers in their loop, workers are
  started in order, and `run()` is past `Wait` only when the counter is 0.
* `RecordInv`: that the tallies are true needs to know what a record holds
  *before* it is counted. A request without an answer is with the one worker that
  invokes it, whose record is fresh but for the request's number (here
  `ReportRecord.Reset` is used); a record in flight holds what its request got and
  nothing else; a step moves a record from one place to the next.
* `DoneInv`: `doneChan` is closed only when `recordChan` is closed and drained.
  With `WgInv` no worker then holds a record, so by `EachOnce` nothing is left out.
* `TicketInv`: the tickets left in the semaphore, those of the workers at the
  throttle and those spent are at most N, and every ticket below zero is a worker
  that was turned away.
* `FullInv`: in an undisturbed run they are *exactly* N, because only a cancelled
  context makes a worker drop a ticket and nothing cancels it while a worker is
  left. At the end somebody was turned away, so the tickets are used up: N requests
  were started, and by `FinalReportComplete` all are reported.

Of the log:

* `SurviveInv`: `RowsSurvive` does not say where in the log a row is, and a write
  overwrites its end. The kept rows are before `SafeEnd`, the position or two bytes
  before the end, whichever comes first, and `SafeEnd` never moves back; before the
  log is removed its archive equals it.
* `ArrayInv`: `PlotsReadable` speaks of moments between calls. Inside a call, behind
  a separator written without an error, the log begins like the array with one more
  row and has at most one byte more, which the row overwrites (the new file: `"[]\n"`
  is longer than `"[\n"`). The lemmas on `Opened` compute where each byte of a row
  is: five bytes to a row, so that appending a row leaves the others alone.

Of the HTTP bench, where each step is first reduced to what it does to the record of its
caller (the "effect" lemmas), and then every invariant is shown against these effects:

* `AsksInv`: requests under way have different numbers, none above the last one given.
  With it what a caller reads or prints is told apart from what others do.
* `BytesInv`: the places where bytes may be partition what was moved; a caller that has
  not swapped has none, so that a swap never overwrites.
* `PrintedInv`: only the holder of the lock is between its two prints, and then its text,
  if there is any, is the last. A request that has not printed is not in the output.
* `ConnInv`: who waits for an answer has a connection, and each step of a dialer changes
  `opened`, `idle`, `leaked` and the number of callers that are connected by amounts
  that match (`DialingKinds`).
* `PlainInv`: a plain call never comes to a profile, and from `setBody` on its body is
  the one that `BodyFits`; that is a fact about `NewInvoker` alone (`BodyChosen`).
* `TargetsInv`: while nothing has panicked the counter is the number of targets given,
  unless there is one target, whose remainder is 0 whatever the counter is.
* `LastInv`: the marked position parts the log at `begun`; with `-n 1` there is one call,
  which begins when nothing of the initial one is left.
* `InitInv`: `InitFirst` says that no worker has an init profile on its list. The list is
  a copy of `profiles`, made when `Run` begins, so the invariant says that the initial call has
  taken them out before it leaves "idle", and that no worker begins before it is over.
* `CacheInv`: a value is cached under its own key and what is under a key has that key,
  for which every path that comes out of a walk or a listing must be a file (`WalksInv`,
  `ReadersInv`).
* `TurnInv`, `LapsInv` and `PlaceInv`: that the k-th value of a reader is the k-th file of its listing
  needs to know how far its walk is ahead. A pattern is as far as its turns; a walk has one
  file more if its channel is full, and then what is due next is in the channel, which holds
  modulo the length of the listing since a walk begins anew at its end. The value that was
  read and not handed over yet counts as delivered. The walks of a directory come in orders
  of their own, of which the reader has the last one only: `LapsInv` says of the values of
  the last walk that they are in that order (`Recent`) and of those of an earlier one that
  they differ. `PathsInv` makes a value of the cache
  as good as a new one.
* `ExitInv`: the mark of `UPLOAD_EXIT` is on the value that is read when the files of one
  pattern are through, on no other, also of those that the cache gives to several readers,
  and nothing is read after it. A pattern is then as far as its turns (`PlaceInv`), which
  are the values handed over of it.

Of the hardware:

* `AloneInv`, `DiffInv`, `BusyInv`: `AloneExact` compares two reports; between them the
  samples go through variables that any call may overwrite. The invariant says what the
  last report leaves behind when its call was alone (`Behind`, `Stored`: the samples are
  those of its rows, taken within its span), and that a call which is alone finds just this
  at each of its steps (`DiffBase`). Counters only grow until a device begins anew, so a
  row is the difference modulo `Width`, and `LaterAll` with `f.time <= Width` makes the
  modulus unique (`WrapExact`). A process is known by its number: the theorem, like the
  property, says nothing of a process that has ended since (`Running`).
* `PagesInv`, `SteadyInv`: rows fit the page if nothing has come or gone since it was
  rendered. Then all calls under way go by the names and the devices of the page, which
  the invariant follows from `Select` on, disk by disk, to the report.

Of the profiles the invariant is the conjunction of eight parts. Every one says of the
parser's variables what they are in terms of the lines that were read:

* `ReadInv`: lines of a file come after those of the files before it, and a line of
  variables has a section above it in its own file.
* `EnvInv`: `hasFollower` is what the last section of the file says, and `envVars` has
  the last exports that count.
* `ParsedInv`: the profiles of the file are its request lines, in order.
* `PendingInv`, `RightInv`: `lastComments` are just the comments with no line of a profile
  behind them yet (`Pending`), over all files, and the comments and the body of a profile
  are, in order, those that belong to it (`BelongTo`, `Below`). A new line adds to one
  of these sets and leaves those of other profiles as they were.
* `FoundInv`: a profile keeps the variables of its file, whatever is read later.
* `SelectedInv`: `tag` is that of the last argument that has one, and what was selected
  are the profiles it contains, in order. That `Contains` agrees with the order of numbers
  (`RangeExact`) is a fact about `tag.go` alone: the order of strings decides which
  end is `from`, but a range of two numbers is compared as numbers, by `fromInt` and `toInt`,
  and one of words with one digit as strings, in the same order (`WordsExact`).

`Selections_proofs` has the lemmas that the others share. The provers cannot use the
induction theorems of the library, which take an operator as a parameter, and know nothing
of `SelectSeq`. So a loop that appends some of a list to another is written as the recursive
function `Selection`, and what it returns is proved with sets: a non-empty set of numbers has
a least element (`Least`, from the finiteness of an interval), so a set of numbers that has 0
and the successor of each of its members has all (`Induction`). `SelectionPlaces`
and `SelectionRange` say that the result has just the elements of the set, in their order.

TLC checked `WgInv`, `RecordInv`, `DoneInv`, `TicketInv` and the invariants of `Profiles`
on small instances before they were proved.

Model-checked only are the three properties that need fairness, `Termination`, `SignalEnds`
and `RunEnds`, and the five expected violations: both are out of the prover's reach.

## Not modelled

* Time (durations, rates, think time), the numerical summaries (quantiles, histogram,
  estimate of distinct values), sizes and rates in floating point, formatting and
  layout; the data race on `startTime`, which shifts elapsed times only; dry mode (a web
  server over an existing log, which never starts a run).
* Several runs of one minute that write the log at the same time, and the loss of an
  older archive when a later run of its minute makes a new one (what the code does;
  `RowsSurvive` counts from the beginning of the log).
* Of the HTTP bench: what evaluation, gzip, headers and generated values do to the text;
  `BLOW_STATUS`, `LOCAL_IP`, `NO_PROXY` by host, SOCKS, certificates, the download
  directory; `lossy` and the shaping by bandwidth, which are time and random loss. The
  bytes of a handshake are not told from those of a request; the read of `readBytes`
  for the header of a logged detail is left out, as are empty lines of a `:line` file.
* Of the profiles: the regular expressions and `jj.ParseConf` (a line has its kind),
  the variables of the process.
* Of the plugins: mem and netstat (no state), slices that are torn while they are read
  (a sample is read in one step), and reading the machine itself.
* Filters and output helpers are pure and small; commands give `StartBench` a
  benchable, which in `Bench` is any sequence of answers; the gRPC service is generated
  code.

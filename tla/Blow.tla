-------------------------------- MODULE Blow --------------------------------
(***************************************************************************)
(* A run of the HTTP bench: the goroutine that uploads are read in, the    *)
(* walks it draws on, the initial call of Run and the workers' calls.      *)
(***************************************************************************)
EXTENDS Invoker

CONSTANT MaxParts   \* the most parts that a -u of Setups has

ASSUME PartsAssumption == \A f \in Setups : Len(f.parts) <= MaxParts

vars == <<opt, uploadVars, proc, dialVars, job, invokeVars>>

Init ==
    /\ OptInit
    /\ UploadInit
    /\ DialInit
    /\ InvokeInit

\* One goroutine reads, and each reader of a directory has one that walks it.
Dealing == Deal /\ UNCHANGED <<opt, dialVars, job, invokeVars>>

Walking(i) ==
    /\ i \in DOMAIN readers /\ Walker(i)
    /\ UNCHANGED <<opt, current, cached, uvs, nth, deal, value, sent, uploadIndexVal, names,
                   dialVars, job, invokeVars>>

Boot == RunInitial \/ ReturnInitial

Over == proc # "up" \/ phase = "final"

\* The process has ended.
Ended == Over /\ UNCHANGED vars

Next ==
    \/ Dealing
    \/ \E i \in 1 .. MaxParts : Walking(i)
    \/ Boot
    \/ \E w \in Callers : Request(w)
    \/ Final
    \/ Ended

\* The Go scheduler runs every goroutine that can go on.
Fairness ==
    /\ WF_vars(Dealing)
    /\ \A i \in 1 .. MaxParts : WF_vars(Walking(i))
    /\ WF_vars(Boot)
    /\ \A w \in Callers : WF_vars(Request(w))
    /\ WF_vars(Final)

Spec == Init /\ [][Next]_vars /\ Fairness

(***************************************************************************)
(* Properties                                                              *)
(***************************************************************************)
Kept(d)    == UNION {job[w].bytes[d] : w \in Callers}
Apart(S)   == \A i, j \in DOMAIN S : i # j => S[i] \cap S[j] = {}

TypeOK ==
    /\ job \in [Callers -> [pc : {"idle", "profile", "setReq", "setBody", "field", "ask", "dial",
                                  "answer", "process", "printResp", "log", "swapRead", "swapWrite",
                                  "return", "ended"},
                            todo : Seq(ProfileRecords), plain : BOOLEAN,
                            body : {"none", "stream", "upload", "bytes", "string", "line", "pipe",
                                    "part", "file"},
                            item : 0 .. Len(uvs), ask : 0 .. asks, code : Nat,
                            outcome : {"ok", "error", "EOF"}, sampled : BOOLEAN, detail : BOOLEAN,
                            bytes : [Ways -> SUBSET (1 .. asks)]]]
    /\ dialing \in [Callers -> {"none", "dial", "connect", "connected", "handshake", "ready", "refused"}]
    /\ deal \in {"off", "read", "send", "sent", "closed"}
    /\ deal = "off" \/ current \in DOMAIN readers
    /\ value \in 0 .. Len(uvs)
    /\ phase \in {"init", "bench", "final"}
    /\ proc \in {"up", "panic", "fatal"}
    /\ printLock \in Callers \cup {Nobody}
    /\ pos <= Len(log)

\* Whatever the workers' requests do at the same time, and whichever of them fail, the
\* bytes of a request that the connections counted are in one place at a time: in the
\* shared counter, in one result, or where results go.  So no byte is reported twice,
\* and none is missing but those of a dropped result.  (updateThroughput)
BytesOnce ==
    \A d \in Ways :
       /\ moved[d] = counter[d] \cup Kept(d) \cup reported[d] \cup lost[d]
       /\ Apart([p \in Callers \cup {"counter", "reported", "lost"} |->
                    IF p = "counter" THEN counter[d] ELSE IF p = "reported" THEN reported[d]
                    ELSE IF p = "lost" THEN lost[d] ELSE job[p].bytes[d]])

\* The workers take the URLs, or the names of HOSTS, strictly in turn, and nothing panics
\* before the counter has come round.  (setReq)
TargetsInTurn ==
    /\ \A i \in DOMAIN picks : picks[i] = ((i - 1) % Targets) + 1
    /\ proc = "panic" /\ ~Uploads => Len(picks) = Width - 1

\* The reader whose turn the i-th value is, and how many turns it had before.
Turn(i)  == ((i - 1) % Len(readers)) + 1
Round(i) == (i - 1) \div Len(readers)

SentPath(i) == uvs[sent[i]].path

\* Reader r gives every Len(readers)-th value, and its k-th is the k-th file of its
\* listing, begun anew when the listing is over; of a directory, which is listed anew,
\* every file is given once before one is given again.  Through the cache too, and
\* whichever workers take the values.  (fileReaders.Read, the Read of each reader)
UploadsInTurn ==
    \A i \in DOMAIN sent :
       LET r    == readers[Turn(i)]
           n    == Len(r.files)
       IN  IF r.kind = "dir"
           THEN /\ SentPath(i) \in Visible(opt.parts[Turn(i)])
                /\ \A j \in DOMAIN sent :
                      i # j /\ Turn(i) = Turn(j) /\ Round(i) \div n = Round(j) \div n => SentPath(i) # SentPath(j)
           ELSE SentPath(i) = IF r.kind = "rand" THEN NoFile ELSE r.files[(Round(i) % n) + 1]

Patterns == {r \in DOMAIN readers : readers[r].kind = "glob"}

\* With UPLOAD_EXIT no file of a pattern is uploaded a second time, and a pattern that is the
\* only one is uploaded as a whole before the channel is closed: however many workers and
\* other readers there are, and though its values may be cached ones, which get the mark of
\* the end while others hold them.  (globReader.Read, DealUploadFilePath)
SolePatternWhole ==
    opt.exit =>
       \A r \in Patterns :
          LET mine == {i \in DOMAIN sent : Turn(i) = r}
          IN  /\ \A i, j \in mine : i # j => SentPath(i) # SentPath(j)
              /\ deal = "closed" /\ Patterns = {r} => Visible(opt.parts[r]) \subseteq {SentPath(i) : i \in mine}

\* A request with an upload is not through.
HalfUploaded(w) == job[w].body = "upload" /\ job[w].pc \notin {"swapRead", "swapWrite", "return"}

\* blow.go: "UPLOAD_EXIT=1 to exit when all files are uploaded".  When the channel is closed,
\* or when the end of a directory has ended the process, the workers were given every file
\* that -u names, and a process that is over left none of them half uploaded.
\* (globReader.Read, dirReader.Read, DealUploadFilePath)
ExitUploadsAll ==
    opt.exit /\ (deal = "closed" \/ proc = "fatal") =>
       /\ \A r \in DOMAIN opt.parts : Visible(opt.parts[r]) \subseteq {SentPath(i) : i \in DOMAIN sent}
       /\ proc = "fatal" => \A w \in Workers : ~HalfUploaded(w)

\* With -opt uploadIndex every upload has a name of its own, though the workers are given
\* the same cached value again and again.  (insertIndexToFilename, Data)
NamesDiffer == opt.uploadIndex => \A i, j \in DOMAIN names : i # j => names[i] # names[j]

\* The cache keeps one value per file and per generated type; without :cache each is new.
\* (filePathCache)
CachedOnce ==
    \A i, j \in DOMAIN sent :
       opt.cache => ((sent[i] = sent[j]) <=> (uvs[sent[i]].key = uvs[sent[j]].key))

\* What is printed of a request and of its response stands together, whatever the other
\* workers print.  (printLock)
BlocksWhole ==
    \A i, j \in DOMAIN out : i < j /\ out[i] = out[j] => \A k \in i .. j : out[k] = out[i]

\* With -n 1 Final shows exactly what was logged in the one call of Run that the report is
\* about, not what the init profiles logged before.  (MarkPos, GetLastLog)
LastCallShown ==
    phase = "final" /\ opt.n = 1 /\ opt.logf /\ opt.printOption = {} =>
       /\ \A i \in DOMAIN shown : shown[i] > begun
       /\ \A i \in DOMAIN log : log[i] > begun => \E k \in DOMAIN shown : shown[k] = log[i]

\* The init profiles are for Bench.Init alone: they are taken off the list that the workers
\* are given a copy of, and no worker ever has one on its own.  (runProfiles)
InitFirst == \A w \in Workers : \A i \in DOMAIN job[w].todo : ~job[w].todo[i].init

\* Every connection that is open is kept for later or in use by one caller; only one that
\* broke while a tunnel was asked for is left open.  (ProxyHTTPDialerTimeout, dial)
ConnectionsOwned == opened = idle + leaked + Cardinality(Connected)

\* Unless -m says otherwise a plain request is a POST exactly if it is given a body, and with
\* data items it always is; that of a pipe, though, is read only once.  (detectMethod, Build,
\* setBody)
DataIsPosted ==
    \A w \in Callers :
       job[w].plain /\ ~opt.explicit /\ job[w].pc \in {"ask", "dial", "answer", "process"} =>
          /\ opt.method = "POST" <=> job[w].body # "none"
          /\ opt.items # {} => job[w].body # "none"

\* When details are logged or printed, a worker that evaluates a variable which an init
\* profile has got an answer for gets its value.  (responseJSONValuer)
ValuesWhenShown == opt.logf \/ opt.printOption # {} => unset = {}

\* profile.go: an init profile sets variables for later ones, like the token of a login.
ValuesReady == unset = {}

\* The run comes to its end unless a directory has nothing to upload.
RunEnds == (\A i \in DOMAIN opt.parts : Kind(opt.parts[i]) = "dir" => Visible(opt.parts[i]) # {})
              => <>Over
=============================================================================

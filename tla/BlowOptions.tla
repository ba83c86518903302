---------------------------- MODULE BlowOptions ----------------------------
(***************************************************************************)
(* The options of the HTTP bench: what Blow (pkg/blow/blow.go) and         *)
(* NewInvoker (pkg/blow/invoker.go) make of the command line and of the    *)
(* environment.  A command line is a record f of Setups:                   *)
(*   urls, hosts   how many -url and how many names in HOSTS               *)
(*   https, tlcp   the scheme of the URL, and whether TLCP is set          *)
(*   proxy         PROXY, or Unset; httpProxy: the schemes with a proxy in *)
(*                 HTTP_PROXY and HTTPS_PROXY                              *)
(*   method        -m, or Unset                                            *)
(*   arg           -b: [at, exists, tail, nested], see ParseBodyArg        *)
(*   lines         how many lines the file of -b has                       *)
(*   items         the operators of the request items                      *)
(*   parts         the parts of -u, see Upload; cacheTag: its :cache       *)
(*   exit, ant, uploadIndex   UPLOAD_EXIT, and two of -opt                 *)
(*   profiles      what ParseProfileArg gave: a sequence of                *)
(*                 [init, sets, uses, file], see Invoker                   *)
(*   letters       the letters of -p; sampled: whether SAMPLING_RATE is    *)
(*                 left at its default                                     *)
(*   verbose, n    -v and -n                                               *)
(*   noKeepalive   of -opt                                                 *)
(*   refusing      whether the network and the server may refuse           *)
(*   vanishing     whether files may be gone when they are opened          *)
(***************************************************************************)
EXTENDS Integers, Sequences, FiniteSets

CONSTANTS Setups, Unset

\* buildRequestClient fails when there is neither a URL nor a profile.
ASSUME SetupsAssumption ==
    \A f \in Setups : /\ f.urls \in Nat /\ f.hosts \in Nat
                      /\ f.urls > 0 \/ f.profiles # <<>>

ProfileRecords == [init : BOOLEAN, sets : SUBSET STRING, uses : SUBSET STRING, file : BOOLEAN]

ASSUME ProfilesAssumption == \A f \in Setups : f.profiles \in Seq(ProfileRecords)

VARIABLE opt    \* Opt, with what NewInvoker derives from it

(* -b *)

\* "@" and the tail :stream or :line are taken off.  A file is read as a whole unless
\* it is taken line by line; ParseFileArg, which is given what was read, streams
\* only when that is an @file argument again.
ParseBodyArg(arg) ==
    IF ~arg.exists THEN (IF arg.at \/ arg.text THEN "bytes" ELSE "none")
    ELSE IF arg.tail = "line" THEN "lines"
    ELSE IF arg.tail = "stream" /\ arg.nested THEN "stream" ELSE "bytes"

(* -p *)

Letter(l) ==
    IF l \in {"A", "a"} THEN {"H", "B", "h", "b"}
    ELSE IF l = "R" THEN {"H", "B"}
    ELSE IF l = "r" THEN {"h", "b"}
    ELSE {l}

\* The status code alone is not printed beside the header that has it.
ParsePrintOption(letters) ==
    LET options == UNION {Letter(l) : l \in letters}
    IN  IF "h" \in options THEN options \ {"c"} ELSE options

\* -n 1 logs the details to show them at the end.
CreateLogFile(verbose, n) == verbose >= 2 \/ n = 1

(* Method and request items *)

Item(op) ==
    IF op = ":=" THEN "json" ELSE IF op = "=" THEN "param" ELSE IF op = "@" THEN "file"
    ELSE IF op = "==" THEN "query" ELSE "header"

ParseHttpieLikeArgs(f) == {Item(op) : op \in f.items}

\* The items that go into a body.
DataOf(f) == ParseHttpieLikeArgs(f) \cap {"json", "param", "file"}

MaybePost(f) == f.parts # <<>> \/ ParseBodyArg(f.arg) # "none" \/ DataOf(f) # {}

\* Mutant: request items do not count.
DetectMethodByBody(f) ==
    IF f.method # Unset THEN f.method
    ELSE IF f.parts # <<>> \/ ParseBodyArg(f.arg) # "none" THEN "POST" ELSE "GET"

DetectMethod(f) ==
    IF f.method # Unset THEN f.method ELSE IF MaybePost(f) THEN "POST" ELSE "GET"

\* HttpieArg.Build: files are written into a pipe, other items make a string.
Build(f) ==
    IF DetectMethod(f) \notin {"POST", "PUT", "PATCH"} THEN "none"
    ELSE IF "file" \in DataOf(f) THEN "pipe"
    ELSE IF DataOf(f) # {} THEN "string" ELSE "none"

(* Blow and NewInvoker *)

\* PROXY comes before the variables of every scheme, and "off" is none.
ProxyFunc(f, isTLS) ==
    IF f.proxy = Unset THEN (IF isTLS THEN "https" ELSE "http") \in f.httpProxy
    ELSE f.proxy # "off"

\* The options as they are written.
Blow(f) ==
    [urls |-> f.urls, hosts |-> f.hosts, isTLS |-> f.https, usingTLCP |-> FALSE,
     proxied |-> FALSE, method |-> f.method, explicit |-> f.method # Unset,
     body |-> ParseBodyArg(f.arg), lines |-> f.lines, items |-> {}, pieBody |-> "none",
     parts |-> f.parts, cache |-> FALSE, exit |-> f.exit, ant |-> f.ant,
     uploadIndex |-> f.uploadIndex, profiles |-> f.profiles,
     printOption |-> ParsePrintOption(f.letters), sampled |-> f.sampled,
     logf |-> CreateLogFile(f.verbose, f.n), verbose |-> f.verbose, n |-> f.n,
     noKeepalive |-> f.noKeepalive, refusing |-> f.refusing, vanishing |-> f.vanishing]

\* What follows from the URL, that of the first profile if there is no other, and from
\* the request items.  TLCP takes the place of TLS: the scheme becomes http.
BuildRequestClient(o, f) ==
    LET usingTLCP == f.https /\ f.tlcp
        isTLS     == f.https /\ ~usingTLCP
    IN
    [o EXCEPT !.usingTLCP = usingTLCP, !.isTLS = isTLS, !.proxied = ProxyFunc(f, isTLS),
              !.items = DataOf(f), !.method = DetectMethod(f), !.pieBody = Build(f)]

\* -u word:cache
NewInvoker(f) ==
    [BuildRequestClient(Blow(f), f) EXCEPT !.cache = f.parts # <<>> /\ f.cacheTag]

\* Whether there is something to upload, and whether the report is left out.
Uploads  == opt.parts # <<>>
NoReport == opt.printOption # {}

\* Bench.Init, before its call of Run.
OptInit == opt \in {NewInvoker(f) : f \in Setups}
=============================================================================

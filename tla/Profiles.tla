------------------------------ MODULE Profiles ------------------------------
(***************************************************************************)
(* The profile files of -P (pkg/blow/internal/profile.go and tag.go): the  *)
(* parser, which goes through each file line by line, the selection of the *)
(* profiles by their tags, and the request made of a profile.              *)
(*                                                                         *)
(* A line is one of                                                        *)
(*   section  "### ..." with an env name or Unset, its options and its tag *)
(*   comment  "# ...", with options and a tag in brackets                  *)
(*   option   "[...]"                                                      *)
(*   export   "export name = ..."                                          *)
(*   request  a method and a URL that uses variables                       *)
(*   item     "key op value", where op is one of ==, :=, :, @, =           *)
(*   text     anything else: a JSON text, or its first or its second half  *)
(* A value is known by the number of the line that it is from, and 0 is a  *)
(* variable without a value, which stays as it is written.  The variables  *)
(* of the process and the functions that -opt eval calls are left out.     *)
(***************************************************************************)
EXTENDS Integers, Sequences, FiniteSets, SequencesExt, Selections

CONSTANTS
    Lines,     \* the lines that a file may have
    Names,     \* the names of variables
    ArgLists,  \* what -P may be: a sequence of [new, tagged, values]
    EnvName,   \* -env, or Unset
    MaxLines,  \* bound on the lines of all files
    EmptyIsDigits,  \* ss.IsDigits of an empty string
    Unset

\* A tag is a number, or NoTag (below), which is -1; lines have variables of Names only.
ASSUME LinesAssumption ==
    \A l \in Lines :
       /\ l.kind \in {"section", "comment", "option", "export", "request", "item", "text"}
       /\ l.kind \in {"section", "comment", "option"} => l.tag \in Nat \cup {-1}
       /\ l.kind \in {"request", "item", "text", "export"} => l.uses \subseteq Names
       /\ l.kind = "export" => l.name \in Names

ASSUME ArgListsAssumption ==
    LET Values == [range : BOOLEAN, from : Nat \cup {-1}, to : Nat \cup {-1}]
    IN  \A list \in ArgLists : list \in Seq([new : BOOLEAN, tagged : BOOLEAN, values : SUBSET Values])

ASSUME BoundsAssumption == MaxLines \in Nat /\ EmptyIsDigits \in BOOLEAN

VARIABLES
    args, arg,         \* profileArg, and how many of it were taken
    tag, hasNew,       \* of ParseProfileArg
    profiles,          \* the profiles it selected
    isEnv, hasFollower, envVars,   \* of parseRequests
    parsed, p,         \* its profiles, and the place of the last one, or 0
    lastComments,      \* which all files share
    state,             \* arg, lines, done, panic, fatal, created
    read,              \* history: [file, isEnv, line], every line that was read
    found              \* history: the profiles of all the files
parserVars == <<isEnv, hasFollower, envVars, parsed, p, lastComments>>
argVars    == <<args, arg, tag, hasNew, profiles, found>>
vars       == <<argVars, parserVars, state, read>>

(***************************************************************************)
(* tag.go                                                                  *)
(*                                                                         *)
(* A tag of digits is its number, a word is 1000 and the number it ends    *)
(* in, and NoTag is the empty string.                                      *)
(***************************************************************************)
NoTag == -1

IsDigits(s) == IF s = NoTag THEN EmptyIsDigits ELSE s < 1000
ParseInt(s) == IF s = NoTag \/ s >= 1000 THEN 0 ELSE s

\* A tag is a number, or a word: 1000 + n is "tag" and the number n.  Words that begin with a
\* digit, which come between the numbers, are left out.
\*
\* The place of a number below 1000 in the order of strings, in which 10 comes before 2:
\* each digit has a place of 0 (there is none) to 10, but the first, which is always there.
DigitOrder(n) ==
    IF n < 10 THEN n * 121
    ELSE IF n < 100 THEN (n \div 10) * 121 + ((n % 10) + 1) * 11
    ELSE (n \div 100) * 121 + (((n \div 10) % 10) + 1) * 11 + (n % 10) + 1
Order(s) == IF s = NoTag THEN -1 ELSE IF s < 1000 THEN DigitOrder(s) ELSE 2000 + DigitOrder(s - 1000)

\* Strings and numbers are put in order independently of each other.
NewRangeValue(a, b) ==
    LET i == ParseInt(a)
        j == ParseInt(b)
    IN  [single  |-> FALSE,
         from    |-> IF Order(a) > Order(b) THEN b ELSE a,
         to      |-> IF Order(a) > Order(b) THEN a ELSE b,
         isInt   |-> (a = NoTag \/ IsDigits(a)) /\ (b = NoTag \/ IsDigits(b)),
         fromInt |-> IF i > j THEN j ELSE i,
         toInt   |-> IF i > j THEN i ELSE j]

SingleValue(a) ==
    [single |-> TRUE, from |-> a, to |-> a, isInt |-> FALSE, fromInt |-> 0, toInt |-> 0]

\* A value of the list behind ":" is one tag, or two with a "-" between them.
ParseTag(values) ==
    {IF v.range THEN NewRangeValue(v.from, v.to) ELSE SingleValue(v.from) : v \in values}

ContainsInt(r, v) == (r.from = NoTag \/ r.fromInt <= v) /\ (r.to = NoTag \/ v <= r.toInt)
ContainsString(r, s) ==
    (r.from = NoTag \/ Order(r.from) <= Order(s)) /\ (r.to = NoTag \/ Order(s) <= Order(r.to))

\* Mutant: numbers are compared as strings.
RangeContainsByString(r, s) == ContainsString(r, s)

RangeContains(r, s) ==
    IF IsDigits(s) /\ r.isInt THEN ContainsInt(r, ParseInt(s)) ELSE ContainsString(r, s)

TagContains(t, s) == \E r \in t : IF r.single THEN r.from = s ELSE RangeContains(r, s)

(***************************************************************************)
(* profile.go: helpers                                                     *)
(***************************************************************************)
NoVars == [n \in Names |-> 0]

\* EnvVars.Eval: the variables of a text, with their values.
Eval(env, uses) == {<<n, env[n]>> : n \in uses}

\* regexFollows with envRegexp
IsEnvLine(l)    == l.env # Unset
MatchFollower(l) == IsEnvLine(l) /\ (EnvName = Unset \/ l.env = EnvName)

\* jj.ParseConf on Profile.Option: what is named is set.
ParseConf(q, l) ==
    [q EXCEPT !.opts = @ \cup l.opts, !.tag = IF l.tag = NoTag THEN @ ELSE l.tag]

Field(op) == IF op = "==" THEN "Query" ELSE IF op = ":=" THEN "RawJSON"
             ELSE IF op = ":" THEN "Header" ELSE "Form"

NewProfile(l, n) ==
    [at |-> n, method |-> l.method, addr |-> Eval(envVars, l.uses), comments |-> lastComments,
     items |-> {}, body |-> <<>>, opts |-> {}, tag |-> NoTag, jsonBody |-> FALSE,
     contentType |-> "plain", vars |-> NoVars]

\* A map: a later item of the same key takes the place of an earlier one.
SetItem(q, l, n) ==
    LET new == [field |-> Field(l.op), key |-> l.key, file |-> l.op = "@", json |-> l.json,
                value |-> Eval(envVars, l.uses), line |-> n]
    IN  [q EXCEPT !.items = {i \in @ : i.field # new.field \/ i.key # new.key} \cup {new}]

(***************************************************************************)
(* processLine                                                             *)
(***************************************************************************)
Now == Len(read) + 1

\* Mutant: the comments so far stay for the next profile, too.
TakeCommentsTwice(q) ==
    /\ parsed' = [parsed EXCEPT ![p] = [q EXCEPT !.comments = @ \o lastComments]]
    /\ UNCHANGED lastComments

\* Comments go to the profile of the line after them.
TakeComments(q) ==
    /\ parsed' = [parsed EXCEPT ![p] = [q EXCEPT !.comments = @ \o lastComments]]
    /\ lastComments' = <<>>

Comment(l) ==
    /\ lastComments' = Append(lastComments, [line |-> Now, opts |-> l.opts, tag |-> l.tag])
    /\ UNCHANGED <<parsed, p, state>>

OptionLine(l) ==
    /\ parsed' = IF p = 0 THEN parsed ELSE [parsed EXCEPT ![p] = ParseConf(@, l)]
    /\ UNCHANGED <<p, lastComments, state>>

RequestLine(l) ==
    /\ parsed' = Append(parsed, NewProfile(l, Now))
    /\ p' = Len(parsed) + 1
    /\ lastComments' = <<>>
    /\ UNCHANGED state

\* There is no profile yet: p.Comments of nil.
Panic == p = 0 /\ state' = "panic" /\ UNCHANGED <<parsed, p, lastComments>>

\* Mutant: what looks like an item is one, even below a text.
ItemLineAnywhere(l) ==
    /\ p # 0
    /\ TakeComments(SetItem(parsed[p], l, Now))
    /\ UNCHANGED <<p, state>>

ItemLine(l) ==
    /\ p # 0 /\ parsed[p].body = <<>>
    /\ TakeComments(SetItem(parsed[p], l, Now))
    /\ UNCHANGED <<p, state>>

\* A text, and what looks like something else: an item below a text, and an export.
TextLine(l) ==
    /\ p # 0 /\ (l.kind = "item" => parsed[p].body # <<>>)
    /\ TakeComments([parsed[p] EXCEPT !.body = Append(@, [line |-> Now, json |-> l.json, uses |-> l.uses])])
    /\ UNCHANGED <<p, state>>

ProcessLine(l) ==
    \/ l.kind \in {"section", "comment"} /\ Comment(l)
    \/ l.kind = "option" /\ OptionLine(l)
    \/ l.kind = "request" /\ RequestLine(l)
    \/ l.kind = "item" /\ ItemLine(l)
    \/ l.kind \in {"item", "text", "export"} /\ (TextLine(l) \/ Panic)

(***************************************************************************)
(* parseRequests                                                           *)
(***************************************************************************)
Reading(l) ==
    /\ state = "lines" /\ Len(read) < MaxLines
    /\ read' = Append(read, [file |-> arg, isEnv |-> isEnv', line |-> l])
    /\ UNCHANGED argVars

\* "###" begins a section, which is a comment unless it is one of variables.
SectionLine(l) ==
    /\ l.kind = "section"
    /\ isEnv' = IsEnvLine(l) /\ hasFollower' = MatchFollower(l)
    /\ IF isEnv' THEN UNCHANGED <<parsed, p, lastComments, state>> ELSE ProcessLine(l)
    /\ UNCHANGED envVars

\* Mutant: the variables of every section are taken.
EnvLineOfAny(l) ==
    /\ l.kind # "section" /\ isEnv
    /\ envVars' = IF l.kind = "export" THEN [envVars EXCEPT ![l.name] = Now] ELSE envVars
    /\ UNCHANGED <<isEnv, hasFollower, parsed, p, lastComments, state>>

\* A line of a section of variables counts if it is an export and the section is that of -env.
EnvLine(l) ==
    /\ l.kind # "section" /\ isEnv
    /\ envVars' = IF hasFollower /\ l.kind = "export" THEN [envVars EXCEPT ![l.name] = Now] ELSE envVars
    /\ UNCHANGED <<isEnv, hasFollower, parsed, p, lastComments, state>>

OwnLine(l) ==
    /\ l.kind # "section" /\ ~isEnv
    /\ ProcessLine(l)
    /\ UNCHANGED <<isEnv, hasFollower, envVars>>

ReadLine == \E l \in Lines : (SectionLine(l) \/ EnvLine(l) \/ OwnLine(l)) /\ Reading(l)

(***************************************************************************)
(* postProcessProfiles                                                     *)
(***************************************************************************)

\* jj.Valid of a body
Valid(body) ==
    \/ Len(body) = 1 /\ body[1].json = "whole"
    \/ Len(body) = 2 /\ body[1].json = "open" /\ body[2].json = "close"

ContentTypes(q) == {i \in q.items : i.field = "Header" /\ i.key = "Content-Type"}

\* The header if there is one; JSON if the body is; and plain/text (createHeader).
ContentType(q) ==
    IF ContentTypes(q) # {}
    THEN (IF \E i \in ContentTypes(q) : i.json = "whole" THEN "json" ELSE "other")
    ELSE IF Valid(q.body) THEN "json" ELSE "plain"

\* The options in comments override those of option lines: the last tag is that of the profile.
PostProcess(q) ==
    LET tagged == {k \in DOMAIN q.comments : q.comments[k].tag # NoTag}
    IN  [q EXCEPT !.contentType = ContentType(q),
                  !.jsonBody = q.body # <<>> /\ ContentType(q) = "json",
                  !.vars = envVars,
                  !.opts = @ \cup UNION {q.comments[k].opts : k \in DOMAIN q.comments},
                  !.tag = IF tagged = {} THEN @ ELSE q.comments[Max(tagged)].tag]

(***************************************************************************)
(* ParseProfileArg                                                         *)
(***************************************************************************)
NextArg == arg' = arg + 1 /\ UNCHANGED <<args, profiles, found, read>>

\* path:new
NewFile ==
    /\ state = "arg" /\ arg < Len(args) /\ args[arg + 1].new
    /\ NextArg
    /\ hasNew' = TRUE
    /\ UNCHANGED <<tag, parserVars, state>>

\* Mutant: the last profile of the file before is still the current one.
ParseBeginKeeps ==
    /\ isEnv' = FALSE /\ hasFollower' = FALSE /\ envVars' = NoVars
    /\ parsed' = <<>> /\ p' = p
    /\ UNCHANGED lastComments

ParseBegin ==
    /\ isEnv' = FALSE /\ hasFollower' = FALSE /\ envVars' = NoVars
    /\ parsed' = <<>> /\ p' = 0
    /\ UNCHANGED lastComments

\* path or path:tag, whose tag goes for the files after it, too.
OpenFile ==
    /\ state = "arg" /\ arg < Len(args) /\ ~args[arg + 1].new
    /\ NextArg
    /\ tag' = IF args[arg + 1].tagged THEN <<ParseTag(args[arg + 1].values)>> ELSE tag
    /\ state' = "lines"
    /\ ParseBegin
    /\ UNCHANGED hasNew

Selects(q) == tag = <<>> \/ TagContains(tag[1], q.tag)

EndFile ==
    /\ state = "lines"
    /\ LET done == [i \in DOMAIN parsed |-> PostProcess(parsed[i])] IN
          /\ profiles' = profiles \o Selection(done, {q \in ToSet(done) : Selects(q)})
          /\ found' = found \o [i \in DOMAIN done |-> [file |-> arg, profile |-> done[i]]]
    /\ state' = "arg"
    /\ UNCHANGED <<args, arg, tag, hasNew, parserVars, read>>

Finish ==
    /\ state = "arg" /\ arg = Len(args)
    /\ state' = IF hasNew THEN "created" ELSE IF profiles = <<>> /\ tag # <<>> THEN "fatal" ELSE "done"
    /\ UNCHANGED <<argVars, parserVars, read>>

(***************************************************************************)
(* CreateReq                                                               *)
(***************************************************************************)
Lettered == {"GET", "HEAD", "CONNECT", "OPTIONS", "TRACE"}

MakeQuery(q) == IF q.method \in Lettered THEN {i \in q.items : i.field \in {"Form", "Query"}} ELSE {}

\* The text below the items, with the variables of the whole file; or one of the files.
Requests(q) ==
    LET base == [method |-> q.method, addr |-> q.addr, query |-> MakeQuery(q),
                 contentType |-> q.contentType, body |-> q.body, file |-> {},
                 values |-> Eval(q.vars, UNION {q.body[i].uses : i \in DOMAIN q.body})]
        files == {i \in q.items : i.field = "Form" /\ i.file}
    IN  IF q.body # <<>> \/ files = {} THEN {base} ELSE {[base EXCEPT !.file = {f}] : f \in files}

(***************************************************************************)
(* Specification                                                           *)
(***************************************************************************)
Init ==
    /\ args \in ArgLists /\ arg = 0 /\ tag = <<>> /\ hasNew = FALSE /\ profiles = <<>> /\ found = <<>>
    /\ isEnv = FALSE /\ hasFollower = FALSE /\ envVars = NoVars /\ parsed = <<>> /\ p = 0
    /\ lastComments = <<>> /\ state = "arg" /\ read = <<>>

Ended == state \in {"done", "panic", "fatal", "created"} /\ UNCHANGED vars

Next == NewFile \/ OpenFile \/ ReadLine \/ EndFile \/ Finish \/ Ended

Spec == Init /\ [][Next]_vars

(***************************************************************************)
(* Properties, which compare what came out with the lines that were read   *)
(***************************************************************************)
Line(i) == read[i].line

IsComment(i) == ~read[i].isEnv /\ Line(i).kind \in {"section", "comment"}

\* The lines of profiles, and the request line that such a line belongs to.
Own(i) == ~read[i].isEnv /\ Line(i).kind \in {"request", "item", "text", "export"}
RequestsUpTo(i) ==
    {j \in 1 .. i : Own(j) /\ Line(j).kind = "request" /\ read[j].file = read[i].file}
Owner(i) == IF RequestsUpTo(i) = {} THEN 0 ELSE Max(RequestsUpTo(i))

\* The sections that exports count in, and the last export before line n of a file.
SectionOf(i) == {j \in 1 .. i : Line(j).kind = "section" /\ read[j].file = read[i].file}
Counts(i) ==
    /\ read[i].isEnv /\ Line(i).kind = "export"
    /\ EnvName = Unset \/ Line(Max(SectionOf(i))).env = EnvName
LastExport(name, file, n) ==
    Max({0} \cup {i \in DOMAIN read : /\ i < n /\ read[i].file = file
                                     /\ Counts(i) /\ Line(i).name = name})

TypeOK ==
    /\ state \in {"arg", "lines", "done", "panic", "fatal", "created"}
    /\ arg \in 0 .. Len(args) /\ Len(tag) <= 1 /\ hasNew \in BOOLEAN
    /\ isEnv \in BOOLEAN /\ (hasFollower => isEnv)
    /\ envVars \in [Names -> 0 .. Len(read)]
    /\ p = Len(parsed)
    /\ Len(profiles) <= Len(found)

AllProfiles ==
    {found[i].profile : i \in DOMAIN found} \cup (IF state = "lines" THEN ToSet(parsed) ELSE {})

\* A comment, with the options in it, is that of one profile: of the one that the next line
\* of a profile belongs to, even if that is in the next file.  (lastComments)
CommentsBelong ==
    \A q \in AllProfiles, i \in DOMAIN read :
       Cardinality({k \in DOMAIN q.comments : q.comments[k].line = i}) =
          IF /\ IsComment(i)
             /\ \E j \in DOMAIN read : /\ i < j /\ Own(j) /\ Owner(j) = q.at
                                      /\ \A k \in i + 1 .. j - 1 : ~Own(k)
          THEN 1 ELSE 0

\* A URL has the values of the variables that the sections of -env before it export, a body
\* those that all of them do; other sections and other files count for nothing.
ExportsInScope ==
    /\ \A q \in AllProfiles : \A v \in q.addr : v[2] = LastExport(v[1], read[q.at].file, q.at)
    /\ \A i \in DOMAIN found : \A r \in Requests(found[i].profile) : \A v \in r.values :
          v[2] = LastExport(v[1], found[i].file, Len(read) + 1)

\* What the list behind the colon says.
Within(v, t) ==
    IF v.range THEN (v.from <= t /\ t <= v.to) \/ (v.to <= t /\ t <= v.from) ELSE t = v.from

\* A range is clear if its ends are two numbers, of which 0 has the empty tag, too, if that
\* counts as digits, or two words with one digit and no tag is such a word with more of them.
Clear(v, t) ==
    v.range => \/ {v.from, v.to} \subseteq 0 .. 999 /\ (EmptyIsDigits => 0 \notin {v.from, v.to})
               \/ {v.from, v.to} \subseteq 1000 .. 1009 /\ t <= 1009

TaggedUpTo(i) == {j \in 1 .. i : ~args[j].new /\ args[j].tagged}
Wanted(f) ==
    TaggedUpTo(f.file) = {} \/ \E v \in args[Max(TaggedUpTo(f.file))].values : Within(v, f.profile.tag)

\* The profiles that run are, in the order of their lines, just those whose tag is in the
\* list given last, whether the tag stands in a comment or in a line of its own, be it
\* "9-10" or "tag1-tag3,tag5".  (ParseTag, NewRangeValue, Contains)
SelectionExact ==
    (\A i \in DOMAIN args : \A v \in args[i].values : \A k \in DOMAIN found : Clear(v, found[k].profile.tag)) =>
       /\ ToSet(profiles) = {f.profile : f \in {g \in ToSet(found) : Wanted(g)}}
       /\ \A i, j \in DOMAIN profiles : i < j => profiles[i].at < profiles[j].at

\* The body of a profile is all that stands below its items: every line from the first text
\* to the next request line but comments, options and sections.  (processLine)
BodyWhole ==
    \A f \in ToSet(found) :
       LET body  == f.profile.body
           below == {i \in DOMAIN read : /\ Own(i) /\ Owner(i) = f.profile.at
                                        /\ \E j \in 1 .. i : /\ Own(j) /\ Owner(j) = f.profile.at
                                                            /\ Line(j).kind \in {"text", "export"}}
       IN  /\ {body[i].line : i \in DOMAIN body} = below
           /\ \A i, j \in DOMAIN body : i < j => body[i].line < body[j].line
=============================================================================

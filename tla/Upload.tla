------------------------------- MODULE Upload -------------------------------
(***************************************************************************)
(* What -u uploads (pkg/blow/internal/file.go and upload.go): the readers  *)
(* made of its parts, the goroutines that walk directories, the cache, and *)
(* the goroutine of DealUploadFilePath, which reads one value after the    *)
(* other and hands each to whichever worker asks for it.                   *)
(*                                                                         *)
(* A part is what one word of -u names: [word, stat, files], its files     *)
(* being those of the directory or of the pattern.  The text of a file     *)
(* does not matter, nor does its type; a value is known by the path and by *)
(* the number it got when it was made.  The context of the goroutines is   *)
(* context.Background() and never done, so the branches that look at it    *)
(* are left out.                                                           *)
(***************************************************************************)
EXTENDS BlowOptions

CONSTANTS Files,    \* the files there are
          Hidden,   \* those whose names begin with a dot
          NoFile    \* the path of a generated value

Rands == {"rand.art", "rand.png", "rand.jpg", "rand.json"}

Parts == [word : STRING, stat : {"file", "dir", "none"}, files : SUBSET Files]

\* A path is never the key of a generated value (GetCachePath), and a word that is a file
\* names that one.
ASSUME FilesAssumption ==
    /\ IsFiniteSet(Files) /\ Files \cap Rands = {}
    /\ \A f \in Setups :
          /\ f.parts \in Seq(Parts)
          /\ \A i \in DOMAIN f.parts : f.parts[i].stat = "file" => \E x \in Files : f.parts[i].files = {x}

VARIABLES
    readers,    \* fileReaders.readers, with the order of the walk that is under way
    current,    \* fileReaders.currentIndex
    at,         \* per reader: globReader.index, or where a walk is
    ch,         \* per reader: the channel of a walk, of capacity 1
    over,       \* per reader: whether that channel is closed
    cached,     \* filePathCache
    uvs,        \* the UploadChanValues made, and given to someone
    nth,        \* the counter behind UPLOAD_INDEX
    deal,       \* where DealUploadFilePath is
    value,      \* ur, as its place in uvs
    sent,       \* history: the values handed over, in order
    uploadIndexVal,  \* the counter behind -opt uploadIndex
    names,      \* history: the names of the uploads
    proc        \* how the process is: up, panicked, or ended by log.Fatal

walkVars   == <<at, ch, over>>
readVars   == <<readers, current, walkVars, cached, uvs, nth>>
uploadVars == <<readVars, deal, value, sent, uploadIndexVal, names>>

Visible(part) == part.files \ Hidden

(***************************************************************************)
(* CreateFileReader                                                        *)
(***************************************************************************)

\* createUploadReader: the kind of reader that a part gets.
Kind(part) ==
    IF part.word \in Rands THEN "rand"
    ELSE IF part.stat = "dir" THEN "dir"
    ELSE IF part.stat = "file" THEN "file"
    ELSE IF opt.ant THEN "ant" ELSE "glob"

\* The type of what is generated; art and png are of the same type.
RandType(part) == IF part.word = "rand.art" THEN "rand.png" ELSE part.word

\* A listing comes in some order, which UPLOAD_SHUFFLE may have chosen for a pattern.
Listings(S) ==
    {l \in [1 .. Cardinality(S) -> S] : \A i, j \in DOMAIN l : l[i] = l[j] => i = j}

\* A named file is read even if it is hidden.
ListingsOf(part) ==
    IF Kind(part) = "rand" THEN {<<>>}
    ELSE Listings(IF Kind(part) = "file" THEN part.files ELSE Visible(part))

ReadersOf(parts) ==
    {rs \in [DOMAIN parts -> [kind : {"rand", "dir", "file", "ant", "glob"},
                              type : Rands \cup {Unset},
                              files : UNION {ListingsOf(parts[i]) : i \in DOMAIN parts}]] :
       \A i \in DOMAIN parts :
          /\ rs[i].kind = Kind(parts[i])
          /\ rs[i].type = IF Kind(parts[i]) = "rand" THEN RandType(parts[i]) ELSE Unset
          /\ rs[i].files \in ListingsOf(parts[i])}

UploadInit ==
    /\ readers \in ReadersOf(opt.parts)
    /\ current = 1
    /\ at = [i \in DOMAIN opt.parts |-> 0]
    /\ ch = [i \in DOMAIN opt.parts |-> <<>>]
    /\ over = [i \in DOMAIN opt.parts |-> FALSE]
    /\ cached = [k \in Files \cup Rands |-> 0]
    /\ uvs = <<>> /\ nth = 0
    /\ deal = IF Uploads THEN "read" ELSE "off"
    /\ value = 0 /\ sent = <<>> /\ uploadIndexVal = 0 /\ names = <<>>
    /\ proc = "up"

(***************************************************************************)
(* The walks of dirReader and antReader, started by Start                  *)
(***************************************************************************)
Walks(i) == proc = "up" /\ readers[i].kind \in {"dir", "ant"} /\ ~over[i]

\* The orders that the walk may be in.
Orders(i) ==
    IF readers[i].kind = "dir" /\ at[i] = 0 THEN Listings(Visible(opt.parts[i])) ELSE {readers[i].files}

\* f.ch <- path.  The directory of dirReader is not sorted: each walk may come to its files
\* in an order of its own.
WalkSend(i) ==
    /\ Walks(i) /\ at[i] < Len(readers[i].files) /\ ch[i] = <<>>
    /\ \E l \in Orders(i) :
          /\ ch' = [ch EXCEPT ![i] = <<l[at[i] + 1]>>]
          /\ readers' = [readers EXCEPT ![i].files = l]
    /\ at' = [at EXCEPT ![i] = @ + 1]
    /\ UNCHANGED <<over, proc>>

\* The end of a walk: another one, or close(f.ch).
WalkEnd(i) ==
    /\ Walks(i) /\ at[i] = Len(readers[i].files)
    /\ IF opt.exit
       THEN over' = [over EXCEPT ![i] = TRUE] /\ UNCHANGED at
       ELSE at' = [at EXCEPT ![i] = 0] /\ UNCHANGED over
    /\ UNCHANGED <<readers, ch, proc>>

\* The directory cannot be read, or read on.
WalkFails(i) ==
    /\ Walks(i) /\ opt.vanishing
    /\ over' = [over EXCEPT ![i] = TRUE]
    /\ UNCHANGED <<readers, at, ch, proc>>

Walker(i) == WalkSend(i) \/ WalkEnd(i) \/ WalkFails(i)

(***************************************************************************)
(* Read                                                                    *)
(***************************************************************************)
Reader == readers[current]

\* Mutant: the key has no path.
KeyOfType(path) == IF Reader.kind = "rand" THEN Reader.type ELSE CHOOSE f \in Files : TRUE

\* GetCachePath: the type and, unless the value is generated, the path.
Key(path) == IF Reader.kind = "rand" THEN Reader.type ELSE path

\* Mutant: what was stored is looked up as if it were one that is still to be made.
HitNever(path) == opt.cache /\ cached[Key(path)] > Len(uvs)

Hit(path) == opt.cache /\ cached[Key(path)] # 0

\* A file is read before the cache is asked, and its name is made then.
Makes(path) == Reader.kind # "rand" \/ ~Hit(path)

\* changeUploadName: the names are numbered as they are made.
ChangeUploadName == nth + 1

CreateDataItem(path, last) ==
    [path |-> path, key |-> Key(path), nth |-> ChangeUploadName, exit |-> last]

\* Every Read ends like this: a value, the cached one or a new one, goes on to the
\* channel, and currentIndex moves on.  last marks it with UploadExit.
Deliver(path, last) ==
    /\ IF Hit(path)
       THEN /\ value' = cached[Key(path)]
            /\ uvs' = [uvs EXCEPT ![value'].exit = @ \/ last]
            /\ UNCHANGED cached
       ELSE /\ uvs' = Append(uvs, CreateDataItem(path, last))
            /\ value' = Len(uvs) + 1
            /\ cached' = IF opt.cache THEN [cached EXCEPT ![Key(path)] = value'] ELSE cached
    /\ nth' = IF Makes(path) THEN ChangeUploadName ELSE nth
    /\ current' = (current % Len(readers)) + 1
    /\ deal' = "send"
    /\ UNCHANGED <<readers, sent, uploadIndexVal, names, proc>>

\* The process ends: log.Fatal, or a panic.
Die(how) ==
    /\ proc' = how
    /\ UNCHANGED uploadVars

Reads(kind) == deal = "read" /\ proc = "up" /\ Reader.kind = kind

ReadRand == Reads("rand") /\ Deliver(NoFile, FALSE) /\ UNCHANGED walkVars

ReadFile == Reads("file") /\ Deliver(Reader.files[1], FALSE) /\ UNCHANGED walkVars

\* Mutant: the index is taken after it was moved on.
ReadGlobAhead ==
    /\ Reads("glob") /\ Reader.files # <<>>
    /\ LET len == Len(Reader.files) IN
          Deliver(Reader.files[(at[current] % len) + 1], opt.exit /\ at[current] + 1 = len - 1)
    /\ at' = [at EXCEPT ![current] = @ + 1]
    /\ UNCHANGED <<ch, over>>

\* matches[index%len(g.matches)]
ReadGlob ==
    /\ Reads("glob") /\ Reader.files # <<>>
    /\ LET len == Len(Reader.files) IN
          Deliver(Reader.files[(at[current] % len) + 1], opt.exit /\ at[current] = len - 1)
    /\ at' = [at EXCEPT ![current] = @ + 1]
    /\ UNCHANGED <<ch, over>>

\* A pattern that matches nothing: the remainder by 0.
ReadGlobEmpty == Reads("glob") /\ Reader.files = <<>> /\ Die("panic")

\* <-f.ch of a walk
ReadWalked ==
    /\ Reads("dir") \/ Reads("ant")
    /\ ch[current] # <<>>
    /\ Deliver(ch[current][1], FALSE)
    /\ ch' = [ch EXCEPT ![current] = <<>>]
    /\ UNCHANGED <<at, over>>

\* The channel is closed: its path is "", which cannot be opened.
ReadClosed ==
    /\ Reads("dir") \/ Reads("ant")
    /\ ch[current] = <<>> /\ over[current]
    /\ Die("fatal")

\* A file that is gone, or that cannot be read.
ReadFails ==
    /\ opt.vanishing
    /\ \/ Reads("file") \/ (Reads("glob") /\ Reader.files # <<>>)
       \/ (Reads("dir") \/ Reads("ant")) /\ ch[current] # <<>>
    /\ Die("fatal")

(***************************************************************************)
(* DealUploadFilePath                                                      *)
(***************************************************************************)
Read == \/ ReadRand \/ ReadFile \/ ReadGlob \/ ReadGlobEmpty
        \/ ReadWalked \/ ReadClosed \/ ReadFails

\* postFileCh <- ur, which is unbuffered: a worker takes the value in the same step.
HandOver ==
    /\ deal = "send"
    /\ deal' = "sent"
    /\ sent' = Append(sent, value)
    /\ UNCHANGED <<readVars, value, uploadIndexVal, names>>

\* Mutant: the goroutine returns and leaves postFileCh open.
DealNextReturns ==
    /\ deal = "sent" /\ proc = "up" /\ ~uvs[value].exit
    /\ deal' = "read"
    /\ UNCHANGED <<readVars, value, sent, uploadIndexVal, names, proc>>

\* if ur.UploadExit { return }, which closes postFileCh
DealNext ==
    /\ deal = "sent" /\ proc = "up"
    /\ deal' = IF uvs[value].exit THEN "closed" ELSE "read"
    /\ UNCHANGED <<readVars, value, sent, uploadIndexVal, names, proc>>

Deal == Read \/ DealNext

(***************************************************************************)
(* CreateFileField, called by the worker that has a value                  *)
(***************************************************************************)

\* Mutant: the counter is read by one call and written by another.
NextIndexUnchanged == uploadIndexVal' = uploadIndexVal

NextIndex == uploadIndexVal' = IF opt.uploadIndex THEN uploadIndexVal + 1 ELSE uploadIndexVal

\* The name a value is uploaded under: that of its making and its index, if any.  The
\* item of a value is copied by Data(), so an index never stays in it.
UploadName(v) == <<uvs[v].path, uvs[v].nth, IF opt.uploadIndex THEN uploadIndexVal + 1 ELSE 0>>
=============================================================================

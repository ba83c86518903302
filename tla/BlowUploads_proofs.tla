------------------------- MODULE BlowUploads_proofs -------------------------
(***************************************************************************)
(* Theorems about what a run of the HTTP bench uploads: names, cache, turn *)
(* and end, for any number of files, parts and workers; and the types of   *)
(* all that the run keeps.                                                 *)
(***************************************************************************)
EXTENDS Blow_proofs

(***************************************************************************)
(* NamesDiffer                                                             *)
(***************************************************************************)
NamesInv ==
    /\ uploadIndexVal \in Nat /\ \E S : names \in Seq(S)
    /\ opt.uploadIndex => /\ Len(names) = uploadIndexVal
                          /\ \A i \in 1 .. Len(names) : names[i][3] = i

LEMMA AppendMore ==
    ASSUME NEW S, NEW s \in Seq(S), NEW x
    PROVE  /\ Append(s, x) \in Seq(S \cup {x}) /\ Len(Append(s, x)) = Len(s) + 1
           /\ DOMAIN Append(s, x) = 1 .. Len(s) + 1 /\ Append(s, x)[Len(s) + 1] = x
           /\ \A i \in 1 .. Len(s) : Append(s, x)[i] = s[i]
           /\ Len(s) \in Nat /\ DOMAIN s = 1 .. Len(s)
<1>1. s \in Seq(S \cup {x}) /\ x \in S \cup {x}
  OBVIOUS
<1> QED
  BY <1>1

\* Only the step that takes a name touches names and their counter.
LEMMA NamesSteps ==
    ASSUME [Next]_vars
    PROVE  \/ UNCHANGED <<opt, names, uploadIndexVal>>
           \/ /\ \E x, y : names' = Append(names, <<x, y, IF opt.uploadIndex THEN uploadIndexVal + 1 ELSE 0>>)
              /\ NextIndex /\ UNCHANGED opt
<1>1. CASE Dealing
  BY <1>1 DEF Dealing, Deal, DealNext, Read, ReadRand, ReadFile, ReadGlob, ReadGlobEmpty, ReadWalked,
     ReadClosed, ReadFails, Deliver, Die, uploadVars
<1>2. ASSUME NEW i \in 1 .. MaxParts, Walking(i) PROVE UNCHANGED <<opt, names, uploadIndexVal>>
  BY <1>2 DEF Walking
<1>3. CASE Boot \/ Final
  BY <1>3 DEF Boot, RunInitial, ReturnInitial, Final, uploadVars
<1>4. CASE UNCHANGED vars
  BY <1>4 DEF vars, uploadVars
<1>5. ASSUME NEW w \in Callers, Request(w) PROVE
             \/ UNCHANGED <<opt, names, uploadIndexVal>>
             \/ /\ \E x, y : names' = Append(names, <<x, y, IF opt.uploadIndex THEN uploadIndexVal + 1 ELSE 0>>)
                /\ NextIndex /\ UNCHANGED opt
  <2>1. CASE SetField(w)
    BY <2>1 DEF SetField, UploadName, NewReaderFails, Die, uploadVars
  <2>2. CASE SetBody(w)
    BY <2>2 DEF SetBody, SetBodyStream, SetBodyUpload, SetBodyBytes, SetBodyLine, SetBodyRest,
       HandOver, uploadVars
  <2>3. CASE \/ RunBegin(w) \/ SetReq(w) \/ NextProfile(w) \/ NextProfileFails(w) \/ Ask(w)
             \/ Connect(w) \/ WriteChunk(w) \/ Write(w) \/ Answer(w)
    BY <2>3 DEF RunBegin, SetReq, NextProfile, NextProfileFails, Die, Ask, Connect, WriteChunk, Write,
       Answer, uploadVars
  <2>4. CASE \/ Discard(w) \/ PrintReq(w) \/ PrintResp(w) \/ Log(w) \/ UpdateThroughput(w)
             \/ Return(w) \/ StopWorker(w)
    BY <2>4 DEF Discard, PrintReq, PrintResp, Log, UpdateThroughput, Return, StopWorker, uploadVars
  <2> QED
    BY <1>5, <2>1, <2>2, <2>3, <2>4 DEF Request
<1> QED
  BY <1>1, <1>2, <1>3, <1>4, <1>5 DEF Next, Ended

LEMMA NamesStep == NamesInv /\ [Next]_vars => NamesInv'
<1> SUFFICES ASSUME NamesInv, [Next]_vars PROVE NamesInv'
  OBVIOUS
<1>1. CASE UNCHANGED <<opt, names, uploadIndexVal>>
  BY <1>1 DEF NamesInv
<1>2. ASSUME NEW x, NEW y, NextIndex, UNCHANGED opt,
             names' = Append(names, <<x, y, IF opt.uploadIndex THEN uploadIndexVal + 1 ELSE 0>>)
      PROVE  NamesInv'
  <2> DEFINE k == IF opt.uploadIndex THEN uploadIndexVal + 1 ELSE 0
             name == <<x, y, k>>
  <2>1. name[3] = k
    OBVIOUS
  <2>2. PICK S : names \in Seq(S)
    BY DEF NamesInv
  <2> HIDE DEF name
  <2>3. names' = Append(names, name)
    BY <1>2 DEF name
  <2>4. /\ names' \in Seq(S \cup {name}) /\ Len(names') = Len(names) + 1 /\ names'[Len(names) + 1] = name
        /\ \A i \in 1 .. Len(names) : names'[i] = names[i]
        /\ Len(names) \in Nat
    BY <2>2, <2>3, AppendMore
  <2>5. uploadIndexVal' \in Nat /\ (opt.uploadIndex => uploadIndexVal' = uploadIndexVal + 1)
    BY <1>2 DEF NextIndex, NamesInv
  <2>6. ASSUME opt.uploadIndex, NEW i \in 1 .. Len(names) + 1
        PROVE  names'[i][3] = i
    <3>1. CASE i \in 1 .. Len(names)
      BY <2>4, <2>6, <3>1 DEF NamesInv
    <3>2. CASE i = Len(names) + 1
      BY <2>1, <2>4, <2>6, <3>2 DEF NamesInv
    <3> QED
      BY <2>4, <3>1, <3>2
  <2> QED
    BY <1>2, <2>4, <2>5, <2>6 DEF NamesInv
<1> QED
  BY <1>1, <1>2, NamesSteps

\* With -opt uploadIndex no two uploads have the same name, whichever values the workers are
\* given and in whatever order they name them.
THEOREM UploadsNamedApart == Spec => []NamesDiffer
<1>1. Init => NamesInv
  <2> SUFFICES ASSUME Init PROVE NamesInv
    OBVIOUS
  <2>1. names = <<>> /\ uploadIndexVal = 0 /\ names \in Seq(Nat)
    BY DEF Init, UploadInit
  <2> QED
    BY <2>1 DEF NamesInv
<1>2. NamesInv /\ [Next]_vars => NamesInv'
  BY NamesStep
<1>3. NamesInv => NamesDiffer
  BY DEF NamesInv, NamesDiffer
<1> QED
  BY <1>1, <1>2, <1>3, PTL DEF Spec

(***************************************************************************)
(* The readers                                                             *)
(***************************************************************************)
Keys == Files \cup Rands

\* Every part has its reader, which reads files that there are.
ReadersInv ==
    /\ opt.parts \in Seq(Parts)
    /\ DOMAIN readers = DOMAIN opt.parts /\ readers \in Seq({readers[i] : i \in DOMAIN readers})
    /\ \A i \in DOMAIN opt.parts :
          /\ readers[i] = [kind |-> readers[i].kind, type |-> readers[i].type, files |-> readers[i].files]
          /\ readers[i].kind = "rand" => readers[i].type \in Rands
          /\ readers[i].files \in Seq(Files)
          /\ readers[i].kind = "file" => Len(readers[i].files) = 1
          /\ readers[i].kind \in {"dir", "glob"} => readers[i].files \in Listings(Visible(opt.parts[i]))
    /\ deal # "off" => current \in DOMAIN opt.parts

\* What has come out of a walk, or will, are files.
WalksInv ==
    /\ at = [i \in DOMAIN opt.parts |-> at[i]] /\ ch = [i \in DOMAIN opt.parts |-> ch[i]]
    /\ \A i \in DOMAIN opt.parts : at[i] \in Nat /\ (ch[i] # <<>> => ch[i][1] \in Files)

\* A listing of files has every one of them once.
LEMMA ListingOnce ==
    ASSUME NEW T \in SUBSET Files, NEW l \in Listings(T)
    PROVE  /\ l \in Seq(Files) /\ Len(l) = Cardinality(T) /\ Len(l) \in Nat
           /\ \A i \in 1 .. Len(l) : l[i] \in T
           /\ \A i, j \in 1 .. Len(l) : l[i] = l[j] => i = j
           /\ \A f \in T : \E i \in 1 .. Len(l) : l[i] = f
<1> DEFINE n == Cardinality(T)
<1>1. IsFiniteSet(T) /\ n \in Nat
  BY FilesAssumption, FS_Subset, FS_CardinalityType
<1>2. l \in [1 .. n -> T] /\ \A i, j \in 1 .. n : l[i] = l[j] => i = j
  BY DEF Listings
<1> HIDE DEF n
<1>3. l \in Injection(1 .. n, T)
  BY <1>2 DEF Injection, IsInjective
<1>4. Cardinality(1 .. n) = n
  BY <1>1, FS_Interval
<1>5. l \in Surjection(1 .. n, T)
  BY <1>1, <1>3, <1>4, FS_Injection DEF n
<1>6. \A f \in T : \E i \in 1 .. n : l[i] = f
  BY <1>5 DEF Surjection
<1>7. l \in [1 .. n -> Files]
  BY <1>2
<1>8. l \in Seq(Files) /\ Len(l) = n
  BY <1>1, <1>7
<1> QED
  BY <1>1, <1>2, <1>6, <1>8 DEF n

LEMMA ListingFacts ==
    ASSUME NEW part \in Parts, NEW l \in ListingsOf(part),
           part.stat = "file" => \E x \in Files : part.files = {x}
    PROVE  /\ l \in Seq(Files)
           /\ Kind(part) = "file" => Len(l) = 1
           /\ Kind(part) \in {"dir", "glob"} => l \in Listings(Visible(part))
<1>1. part.files \subseteq Files /\ Visible(part) \subseteq Files
  BY DEF Parts, Visible
<1>2. CASE Kind(part) = "rand"
  BY <1>2 DEF ListingsOf
<1>3. CASE Kind(part) = "file"
  <2>1. part.stat = "file"
    BY <1>3 DEF Kind
  <2>2. Cardinality(part.files) = 1
    BY <2>1, FS_Singleton
  <2> QED
    BY <1>1, <1>3, <2>2, ListingOnce DEF ListingsOf
<1>4. CASE Kind(part) # "rand" /\ Kind(part) # "file"
  BY <1>1, <1>4, ListingOnce DEF ListingsOf
<1> QED
  BY <1>2, <1>3, <1>4

LEMMA ReadersInit == Init => ReadersInv /\ WalksInv
<1> SUFFICES ASSUME Init PROVE ReadersInv /\ WalksInv
  OBVIOUS
<1>1. PICK f \in Setups : opt = NewInvoker(f)
  BY DEF Init, OptInit
<1>2. opt.parts = f.parts /\ opt.parts \in Seq(Parts)
      /\ \A i \in DOMAIN opt.parts : opt.parts[i].stat = "file" => \E x \in Files : opt.parts[i].files = {x}
  BY <1>1, FilesAssumption DEF NewInvoker, BuildRequestClient, Blow
<1>3. readers \in ReadersOf(opt.parts)
  BY DEF Init, UploadInit
<1>4. /\ DOMAIN readers = DOMAIN opt.parts
      /\ \A i \in DOMAIN opt.parts : /\ readers[i].kind = Kind(opt.parts[i])
                                     /\ readers[i].kind = "rand" => readers[i].type = RandType(opt.parts[i])
                                     /\ readers[i].files \in ListingsOf(opt.parts[i])
                                     /\ readers[i] = [kind |-> readers[i].kind, type |-> readers[i].type,
                                                      files |-> readers[i].files]
  BY <1>3 DEF ReadersOf
<1>5. readers \in Seq({readers[i] : i \in DOMAIN readers})
  <2>1. DOMAIN opt.parts = 1 .. Len(opt.parts) /\ Len(opt.parts) \in Nat
    BY <1>2
  <2>2. readers \in [1 .. Len(opt.parts) -> {readers[i] : i \in DOMAIN readers}]
    BY <1>3, <1>4, <2>1 DEF ReadersOf
  <2> QED
    BY <2>1, <2>2
<1>6. ASSUME NEW i \in DOMAIN opt.parts
      PROVE  /\ readers[i].kind = "rand" => readers[i].type \in Rands
             /\ readers[i].files \in Seq(Files)
             /\ readers[i].kind = "file" => Len(readers[i].files) = 1
             /\ readers[i].kind \in {"dir", "glob"} => readers[i].files \in Listings(Visible(opt.parts[i]))
  <2>1. opt.parts[i] \in Parts
    BY <1>2
  <2>2. Kind(opt.parts[i]) = "rand" => RandType(opt.parts[i]) \in Rands
    BY DEF Kind, RandType, Rands
  <2> QED
    BY <1>2, <1>4, <2>1, <2>2, ListingFacts
<1>7. deal # "off" => current \in DOMAIN opt.parts
  <2>1. deal # "off" => opt.parts # <<>> /\ current = 1
    BY DEF Init, UploadInit, Uploads
  <2> QED
    BY <1>2, <2>1
<1>8. WalksInv
  BY DEF WalksInv, Init, UploadInit
<1> QED
  BY <1>1, <1>2, <1>4, <1>5, <1>6, <1>7, <1>8 DEF ReadersInv

(***************************************************************************)
(* CachedOnce                                                              *)
(***************************************************************************)
ItemFields == {"path", "key", "nth", "exit"}

\* A value is cached under its key, and what is cached under a key is a value of that key.
CacheInv ==
    /\ cached = [k \in Keys |-> cached[k]] /\ \E S : uvs \in Seq(S)
    /\ \A v \in 1 .. Len(uvs) : uvs[v] = [k \in ItemFields |-> uvs[v][k]]
    /\ \A k \in Keys : cached[k] # 0 => cached[k] \in 1 .. Len(uvs) /\ uvs[cached[k]].key = k
    /\ opt.cache => \A v \in 1 .. Len(uvs) : uvs[v].key \in Keys /\ cached[uvs[v].key] = v
    /\ deal \in {"send", "sent"} => value \in 1 .. Len(uvs)
    /\ sent \in Seq(Nat) /\ \A i \in 1 .. Len(sent) : sent[i] \in 1 .. Len(uvs)

UploadsInv == ReadersInv /\ WalksInv /\ CacheInv

LEMMA KeyIsKey ==
    ASSUME ReadersInv, deal # "off", NEW path, Reader.kind # "rand" => path \in Files
    PROVE  Key(path) \in Keys
BY DEF ReadersInv, Reader, Key, Keys

LEMMA DeliverMade ==
    ASSUME CacheInv, UNCHANGED opt, NEW path, NEW last, Key(path) \in Keys, Deliver(path, last), ~Hit(path)
    PROVE  CacheInv'
<1> DEFINE key == Key(path)
           n == Len(uvs)
           item == CreateDataItem(path, last)
<1>1. item = [k \in ItemFields |-> item[k]] /\ item.key = key
  BY DEF CreateDataItem, ItemFields
<1>2. uvs' = Append(uvs, item) /\ value' = n + 1 /\ sent' = sent /\ deal' = "send"
      /\ cached' = IF opt.cache THEN [cached EXCEPT ![key] = value'] ELSE cached
  BY DEF Deliver
<1>3. opt.cache => cached[key] = 0
  BY DEF Hit
<1>4. key \in Keys /\ \A k \in Keys : cached[k] # 0 => cached[k] \in 1 .. n /\ uvs[cached[k]].key = k
  BY DEF CacheInv
<1>5. opt.cache => \A v \in 1 .. n : uvs[v].key \in Keys /\ cached[uvs[v].key] = v
  BY DEF CacheInv
<1>6. \A v \in 1 .. n : uvs[v] = [k \in ItemFields |-> uvs[v][k]]
  BY DEF CacheInv
<1>7. sent \in Seq(Nat) /\ \A i \in 1 .. Len(sent) : sent[i] \in 1 .. n
  BY DEF CacheInv
<1>8. PICK S : uvs \in Seq(S)
  BY DEF CacheInv
<1> HIDE DEF item, key
<1>9. /\ uvs' \in Seq(S \cup {item}) /\ Len(uvs') = n + 1 /\ n \in Nat
      /\ uvs'[n + 1] = item /\ \A v \in 1 .. n : uvs'[v] = uvs[v]
  BY <1>2, <1>8, AppendMore
<1> HIDE DEF n
<1>10. cached' = [k \in Keys |-> cached'[k]]
  BY <1>2 DEF CacheInv
<1>11. \A k \in Keys : cached'[k] = IF opt.cache /\ k = key THEN n + 1 ELSE cached[k]
  BY <1>2, <1>4 DEF CacheInv
<1>12. \A v \in 1 .. n + 1 : uvs'[v] = [k \in ItemFields |-> uvs'[v][k]]
  <2>1. ASSUME NEW v \in 1 .. n + 1 PROVE uvs'[v] = [k \in ItemFields |-> uvs'[v][k]]
    <3>1. v \in 1 .. n \/ v = n + 1
      BY <1>9
    <3> QED
      BY <1>1, <1>6, <1>9, <3>1
  <2> QED
    BY <2>1
<1>13. \A k \in Keys : cached'[k] # 0 => cached'[k] \in 1 .. n + 1 /\ uvs'[cached'[k]].key = k
  <2>1. ASSUME NEW k \in Keys, cached'[k] # 0
        PROVE  cached'[k] \in 1 .. n + 1 /\ uvs'[cached'[k]].key = k
    <3>1. CASE opt.cache /\ k = key
      BY <1>1, <1>9, <1>11, <3>1
    <3>2. CASE ~(opt.cache /\ k = key)
      BY <1>4, <1>9, <1>11, <2>1, <3>2
    <3> QED
      BY <3>1, <3>2
  <2> QED
    BY <2>1
<1>14. ASSUME opt.cache, NEW v \in 1 .. n + 1 PROVE uvs'[v].key \in Keys /\ cached'[uvs'[v].key] = v
  <2>1. CASE v \in 1 .. n
    <3>1. uvs'[v] = uvs[v] /\ uvs[v].key \in Keys /\ cached[uvs[v].key] = v /\ v # 0
      BY <1>5, <1>9, <1>14, <2>1
    <3> QED
      BY <1>3, <1>11, <1>14, <3>1
  <2>2. CASE v = n + 1
    BY <1>1, <1>4, <1>9, <1>11, <1>14, <2>2
  <2> QED
    BY <1>9, <2>1, <2>2
<1>15. value' \in 1 .. n + 1 /\ \A i \in 1 .. Len(sent') : sent'[i] \in 1 .. n + 1
  BY <1>2, <1>7, <1>9
<1> QED
  BY <1>2, <1>7, <1>9, <1>10, <1>12, <1>13, <1>14, <1>15 DEF CacheInv

LEMMA DeliverHit ==
    ASSUME CacheInv, UNCHANGED opt, NEW path, NEW last, Key(path) \in Keys, Deliver(path, last), Hit(path)
    PROVE  CacheInv'
<1> DEFINE key == Key(path)
           n == Len(uvs)
           h == cached[key]
           item == [uvs[h] EXCEPT !.exit = @ \/ last]
<1>1. h # 0 /\ key \in Keys /\ opt.cache
  BY DEF Hit
<1>2. h \in 1 .. n /\ uvs[h] = [k \in ItemFields |-> uvs[h][k]]
  BY <1>1 DEF CacheInv
<1>3. item = [k \in ItemFields |-> item[k]] /\ item.key = uvs[h].key
  BY <1>2 DEF ItemFields
<1>4. value' = h /\ uvs' = [uvs EXCEPT ![h] = item] /\ UNCHANGED <<cached, sent>> /\ deal' = "send"
  BY DEF Deliver
<1>5. PICK S : uvs \in Seq(S)
  BY DEF CacheInv
<1> HIDE DEF item, key, h
<1>6. /\ n \in Nat /\ uvs' \in Seq(S \cup {item}) /\ Len(uvs') = n
      /\ uvs'[h] = item /\ \A v \in 1 .. n : v # h => uvs'[v] = uvs[v]
  BY <1>2, <1>4, <1>5
<1>7. \A v \in 1 .. n : uvs'[v].key = uvs[v].key /\ uvs'[v] = [k \in ItemFields |-> uvs'[v][k]]
  BY <1>3, <1>6 DEF CacheInv
<1>8. \A k \in Keys : cached[k] # 0 => cached[k] \in 1 .. n /\ uvs'[cached[k]].key = k
  BY <1>7 DEF CacheInv
<1>9. opt.cache => \A v \in 1 .. n : uvs'[v].key \in Keys /\ cached[uvs'[v].key] = v
  BY <1>7 DEF CacheInv
<1>10. sent \in Seq(Nat) /\ \A i \in 1 .. Len(sent) : sent[i] \in 1 .. n
  BY DEF CacheInv
<1>11. cached = [k \in Keys |-> cached[k]]
  BY DEF CacheInv
<1> HIDE DEF n
<1> QED
  BY <1>2, <1>4, <1>6, <1>7, <1>8, <1>9, <1>10, <1>11 DEF CacheInv

\* What the reader whose turn it is gives, and what that does to the walks.
Gives(path, last) ==
    \/ Reader.kind = "rand" /\ path = NoFile /\ last = FALSE /\ UNCHANGED walkVars
    \/ Reader.kind = "file" /\ path = Reader.files[1] /\ last = FALSE /\ UNCHANGED walkVars
    \/ /\ Reader.kind = "glob" /\ Reader.files # <<>>
       /\ path = Reader.files[(at[current] % Len(Reader.files)) + 1]
       /\ last = (opt.exit /\ at[current] = Len(Reader.files) - 1)
       /\ at' = [at EXCEPT ![current] = @ + 1] /\ UNCHANGED <<ch, over>>
    \/ /\ Reader.kind \in {"dir", "ant"} /\ ch[current] # <<>> /\ path = ch[current][1] /\ last = FALSE
       /\ ch' = [ch EXCEPT ![current] = <<>>] /\ UNCHANGED <<at, over>>

\* What is read is delivered, with a key of the cache.
LEMMA ReadKinds ==
    ASSUME UploadsInv, Read
    PROVE  \/ UNCHANGED uploadVars
           \/ /\ deal = "read"
              /\ \E path, last : /\ Deliver(path, last) /\ Gives(path, last)
                                 /\ Reader.kind # "rand" => path \in Files
<1>1. CASE ReadRand
  BY <1>1 DEF ReadRand, Reads, Gives
<1>2. CASE ReadFile
  <2>1. deal = "read" /\ Reader.kind = "file" /\ UNCHANGED walkVars /\ Deliver(Reader.files[1], FALSE)
    BY <1>2 DEF ReadFile, Reads
  <2>2. Reader.files \in Seq(Files) /\ Len(Reader.files) = 1
    BY <2>1 DEF UploadsInv, ReadersInv, Reader
  <2>3. Reader.files[1] \in Files
    BY <2>2
  <2> QED
    BY <2>1, <2>3 DEF Gives
<1>3. CASE ReadGlob
  <2> DEFINE fs == Reader.files
             path == fs[(at[current] % Len(fs)) + 1]
             last == (opt.exit /\ at[current] = Len(fs) - 1)
  <2>1. /\ deal = "read" /\ fs # <<>> /\ Deliver(path, last) /\ Gives(path, last)
    BY <1>3 DEF ReadGlob, Reads, Gives
  <2>2. fs \in Seq(Files) /\ at[current] \in Nat
    BY <2>1 DEF UploadsInv, ReadersInv, WalksInv, Reader
  <2> HIDE DEF fs, last
  <2>3. Len(fs) \in Nat /\ Len(fs) > 0
    BY <2>1, <2>2
  <2>4. (at[current] % Len(fs)) + 1 \in 1 .. Len(fs)
    BY <2>2, <2>3
  <2>5. path \in Files
    BY <2>2, <2>4
  <2> QED
    BY <2>1, <2>5
<1>4. CASE ReadWalked
  <2>1. deal = "read" /\ ch[current] # <<>> /\ Deliver(ch[current][1], FALSE) /\ Gives(ch[current][1], FALSE)
    BY <1>4 DEF ReadWalked, Reads, Gives
  <2>2. ch[current][1] \in Files
    BY <2>1 DEF UploadsInv, ReadersInv, WalksInv
  <2> QED
    BY <2>1, <2>2
<1>5. CASE ReadGlobEmpty \/ ReadClosed \/ ReadFails
  BY <1>5 DEF ReadGlobEmpty, ReadClosed, ReadFails, Die
<1> QED
  BY <1>1, <1>2, <1>3, <1>4, <1>5 DEF Read

\* The steps of a walk, and of what is taken out of it.
LEMMA AtMoves ==
    ASSUME WalksInv, UNCHANGED <<opt, ch>>, NEW i, NEW x \in Nat, at' = [at EXCEPT ![i] = x]
    PROVE  WalksInv'
<1>1. \A k \in DOMAIN opt.parts : at'[k] \in Nat
  BY DEF WalksInv
<1>2. at' = [k \in DOMAIN opt'.parts |-> at'[k]]
  BY DEF WalksInv
<1> QED
  BY <1>1, <1>2 DEF WalksInv

LEMMA ChMoves ==
    ASSUME WalksInv, UNCHANGED <<opt, at>>, NEW i, NEW c, c = <<>> \/ c[1] \in Files, ch' = [ch EXCEPT ![i] = c]
    PROVE  WalksInv'
<1>1. \A k \in DOMAIN opt.parts : ch'[k] # <<>> => ch'[k][1] \in Files
  BY DEF WalksInv
<1>2. ch' = [k \in DOMAIN opt'.parts |-> ch'[k]]
  BY DEF WalksInv
<1> QED
  BY <1>1, <1>2 DEF WalksInv

LEMMA ReadUploads ==
    ASSUME UploadsInv, Read, UNCHANGED opt
    PROVE  UploadsInv'
<1>1. CASE UNCHANGED uploadVars
  <2>1. ReadersInv'
    BY <1>1 DEF UploadsInv, ReadersInv, uploadVars, readVars
  <2>2. WalksInv'
    BY <1>1 DEF UploadsInv, WalksInv, uploadVars, readVars, walkVars
  <2>3. CacheInv'
    BY <1>1 DEF UploadsInv, CacheInv, uploadVars, readVars
  <2> QED
    BY <2>1, <2>2, <2>3 DEF UploadsInv
<1>2. ASSUME deal = "read", NEW path, NEW last, Deliver(path, last), Reader.kind # "rand" => path \in Files,
             Gives(path, last)
      PROVE  UploadsInv'
  <2>1. Key(path) \in Keys
    BY <1>2, KeyIsKey DEF UploadsInv
  <2>2. CacheInv'
    BY <1>2, <2>1, DeliverMade, DeliverHit DEF UploadsInv
  <2>3. WalksInv'
    <3>1. CASE UNCHANGED walkVars
      <4>1. WalksInv /\ UNCHANGED <<opt, at, ch>>
        BY <3>1 DEF UploadsInv, walkVars
      <4> QED
        BY <4>1 DEF WalksInv
    <3>2. CASE at' = [at EXCEPT ![current] = @ + 1] /\ UNCHANGED <<ch, over>>
      <4>1. at[current] + 1 \in Nat /\ WalksInv
        <5>1. current \in DOMAIN opt.parts /\ WalksInv
          BY <1>2 DEF UploadsInv, ReadersInv
        <5>2. at[current] \in Nat
          BY <5>1 DEF WalksInv
        <5> QED
          BY <5>1, <5>2
      <4> QED
        BY <3>2, <4>1, AtMoves
    <3>3. CASE ch' = [ch EXCEPT ![current] = <<>>] /\ UNCHANGED <<at, over>>
      BY <3>3, ChMoves DEF UploadsInv
    <3> QED
      BY <1>2, <3>1, <3>2, <3>3 DEF Gives
  <2>4. current' \in DOMAIN opt.parts
    <3>1. current' = (current % Len(readers)) + 1 /\ current \in DOMAIN opt.parts
      BY <1>2 DEF Deliver, UploadsInv, ReadersInv
    <3>2. DOMAIN opt.parts = 1 .. Len(readers) /\ Len(readers) \in Nat
      BY DEF UploadsInv, ReadersInv
    <3>3. current \in Nat /\ Len(readers) > 0
      BY <3>1, <3>2
    <3>4. (current % Len(readers)) + 1 \in 1 .. Len(readers)
      BY <3>2, <3>3
    <3> QED
      BY <3>1, <3>2, <3>4
  <2>5. readers' = readers
    BY <1>2 DEF Deliver
  <2>6. ReadersInv'
    BY <2>4, <2>5 DEF UploadsInv, ReadersInv
  <2> QED
    BY <2>2, <2>3, <2>6 DEF UploadsInv
<1> QED
  BY <1>1, <1>2, ReadKinds

\* What a walk does to the readers: that of a directory may have another order.
LEMMA WalkReaders ==
    ASSUME UploadsInv, NEW i \in 1 .. MaxParts, Walking(i)
    PROVE  /\ ReadersInv' /\ UNCHANGED opt /\ i \in DOMAIN opt.parts /\ i \in DOMAIN readers
           /\ Len(readers') = Len(readers) /\ DOMAIN readers' = DOMAIN readers
           /\ \A r \in DOMAIN opt.parts :
                 /\ readers'[r].kind = readers[r].kind
                 /\ Len(readers'[r].files) = Len(readers[r].files)
                 /\ ~(r = i /\ WalkSend(i) /\ at[i] = 0 /\ readers[i].kind = "dir") => readers'[r] = readers[r]
           /\ WalkSend(i) => ch' = [ch EXCEPT ![i] = <<readers'[i].files[at[i] + 1]>>]
<1>1. /\ UNCHANGED <<opt, current, deal>> /\ i \in DOMAIN readers /\ Walker(i)
  BY DEF Walking
<1>2. PICK n \in Nat : DOMAIN readers = 1 .. n /\ n = Len(readers)
  BY DEF UploadsInv, ReadersInv
<1>3. /\ opt.parts \in Seq(Parts) /\ DOMAIN readers = DOMAIN opt.parts
      /\ readers \in Seq({readers[k] : k \in DOMAIN readers})
      /\ deal # "off" => current \in DOMAIN opt.parts
  BY DEF UploadsInv, ReadersInv
<1>4. CASE WalkSend(i)
  <2>1. PICK l \in Orders(i) : readers' = [readers EXCEPT ![i].files = l]
                                /\ ch' = [ch EXCEPT ![i] = <<l[at[i] + 1]>>]
    BY <1>4 DEF WalkSend
  <2>2. readers[i].kind \in {"dir", "ant"} /\ opt.parts[i] \in Parts
    BY <1>1, <1>3, <1>4 DEF WalkSend, Walks
  <2>3. Visible(opt.parts[i]) \in SUBSET Files
    BY <2>2 DEF Visible, Parts
  <2>4. readers[i] = [kind |-> readers[i].kind, type |-> readers[i].type, files |-> readers[i].files]
    BY <1>1 DEF UploadsInv, ReadersInv
  <2>5. /\ l \in Seq(Files) /\ Len(l) = Len(readers[i].files)
        /\ readers[i].kind = "dir" => l \in Listings(Visible(opt.parts[i]))
    <3>1. CASE l = readers[i].files
      BY <1>1, <3>1 DEF UploadsInv, ReadersInv
    <3>2. CASE readers[i].kind = "dir" /\ l \in Listings(Visible(opt.parts[i]))
      <4>1. readers[i].files \in Listings(Visible(opt.parts[i]))
        BY <1>1, <3>2 DEF UploadsInv, ReadersInv
      <4> QED
        BY <2>3, <3>2, <4>1, ListingOnce
    <3> QED
      BY <2>1, <3>1, <3>2 DEF Orders
  <2> DEFINE new == [readers[i] EXCEPT !.files = l]
  <2>6. new = [kind |-> readers[i].kind, type |-> readers[i].type, files |-> l]
    BY <2>4
  <2>7. readers' = [readers EXCEPT ![i] = new]
    BY <2>1
  <2>8. ~(at[i] = 0 /\ readers[i].kind = "dir") => new = readers[i]
    <3>1. ~(at[i] = 0 /\ readers[i].kind = "dir") => l = readers[i].files
      BY <2>1 DEF Orders
    <3> QED
      BY <2>4, <2>6, <3>1
  <2> HIDE DEF new
  <2>9. DOMAIN readers' = 1 .. n /\ readers'[i] = new /\ \A r \in 1 .. n : r # i => readers'[r] = readers[r]
    BY <1>1, <1>2, <1>3, <2>7
  <2>10. readers' \in Seq({readers'[k] : k \in DOMAIN readers'}) /\ Len(readers') = n
    <3> DEFINE Held == {readers'[k] : k \in DOMAIN readers'}
    <3>1. readers' \in [1 .. n -> Held]
      BY <1>2, <1>3, <2>7, <2>9
    <3> HIDE DEF Held
    <3>2. readers' \in Seq(Held) /\ Len(readers') = n
      BY <3>1
    <3> QED
      BY <3>2 DEF Held
  <2>11. ASSUME NEW r \in DOMAIN opt.parts
         PROVE  /\ readers'[r] = [kind |-> readers'[r].kind, type |-> readers'[r].type, files |-> readers'[r].files]
                /\ readers'[r].kind = readers[r].kind
                /\ readers'[r].kind = "rand" => readers'[r].type \in Rands
                /\ readers'[r].files \in Seq(Files) /\ Len(readers'[r].files) = Len(readers[r].files)
                /\ readers'[r].kind = "file" => Len(readers'[r].files) = 1
                /\ readers'[r].kind \in {"dir", "glob"} => readers'[r].files \in Listings(Visible(opt.parts[r]))
    <3>1. CASE r = i
      BY <2>2, <2>5, <2>6, <2>9, <3>1
    <3>2. CASE r # i
      <4>1. readers'[r] = readers[r]
        BY <1>2, <1>3, <2>9, <3>2
      <4> QED
        BY <4>1 DEF UploadsInv, ReadersInv
    <3> QED
      BY <3>1, <3>2
  <2>12. ReadersInv'
    BY <1>1, <1>2, <1>3, <2>9, <2>10, <2>11 DEF ReadersInv
  <2>13. readers'[i].files = l
    BY <2>6, <2>9
  <2>14. Len(readers') = Len(readers) /\ DOMAIN readers' = DOMAIN readers
    BY <1>2, <2>9, <2>10
  <2>15. ch' = [ch EXCEPT ![i] = <<readers'[i].files[at[i] + 1]>>]
    BY <2>1, <2>13
  <2>16. ASSUME NEW r \in DOMAIN opt.parts
         PROVE  /\ readers'[r].kind = readers[r].kind
                /\ Len(readers'[r].files) = Len(readers[r].files)
                /\ ~(r = i /\ WalkSend(i) /\ at[i] = 0 /\ readers[i].kind = "dir") => readers'[r] = readers[r]
    <3>1. readers'[r].kind = readers[r].kind /\ Len(readers'[r].files) = Len(readers[r].files)
      BY <2>11
    <3>2. ~(r = i /\ WalkSend(i) /\ at[i] = 0 /\ readers[i].kind = "dir") => readers'[r] = readers[r]
      BY <1>2, <1>3, <1>4, <2>8, <2>9
    <3> QED
      BY <3>1, <3>2
  <2> QED
    BY <1>1, <1>3, <2>12, <2>14, <2>15, <2>16
<1>5. CASE (WalkEnd(i) \/ WalkFails(i)) /\ ~WalkSend(i)
  <2>1. readers' = readers
    BY <1>5 DEF WalkEnd, WalkFails
  <2>2. ReadersInv'
    BY <1>1, <2>1 DEF UploadsInv, ReadersInv
  <2> QED
    BY <1>1, <1>3, <1>5, <2>1, <2>2
<1> QED
  BY <1>1, <1>4, <1>5 DEF Walker

LEMMA WalkUploads ==
    ASSUME UploadsInv, NEW i \in 1 .. MaxParts, Walking(i)
    PROVE  UploadsInv'
<1>1. /\ UNCHANGED <<opt, current, cached, uvs, deal, value, sent>> /\ i \in DOMAIN opt.parts
      /\ Walker(i) /\ ReadersInv'
  BY WalkReaders DEF Walking
<1>2. CacheInv'
  BY <1>1 DEF UploadsInv, CacheInv
<1>3. at[i] \in Nat
  BY <1>1 DEF UploadsInv, WalksInv
<1>4. CASE WalkSend(i)
  <2> DEFINE p == readers'[i].files[at[i] + 1]
  <2>1. p \in Files
    <3>1. readers'[i].files \in Seq(Files)
      BY <1>1 DEF ReadersInv
    <3>2. at[i] < Len(readers'[i].files)
      BY <1>1, <1>4, WalkReaders DEF WalkSend
    <3> QED
      BY <1>3, <3>1, <3>2
  <2>2. ch' = [ch EXCEPT ![i] = <<p>>] /\ at' = [at EXCEPT ![i] = @ + 1]
    BY <1>4, WalkReaders DEF WalkSend
  <2>3. <<p>>[1] = p
    OBVIOUS
  <2> HIDE DEF p
  <2>4. WalksInv'
    <3>1. \A k \in DOMAIN opt.parts : at'[k] \in Nat /\ (ch'[k] # <<>> => ch'[k][1] \in Files)
      <4>1. ASSUME NEW k \in DOMAIN opt.parts, k # i
            PROVE  at'[k] \in Nat /\ (ch'[k] # <<>> => ch'[k][1] \in Files)
        <5>1. at'[k] = at[k] /\ ch'[k] = ch[k]
          BY <2>2, <4>1 DEF UploadsInv, WalksInv
        <5> QED
          BY <4>1, <5>1 DEF UploadsInv, WalksInv
      <4>2. at'[i] = at[i] + 1 /\ ch'[i] = <<p>>
        BY <1>1, <2>2 DEF UploadsInv, WalksInv
      <4> QED
        BY <1>3, <2>1, <2>3, <4>1, <4>2
    <3>2. at' = [k \in DOMAIN opt'.parts |-> at'[k]] /\ ch' = [k \in DOMAIN opt'.parts |-> ch'[k]]
      BY <1>1, <2>2 DEF UploadsInv, WalksInv
    <3> QED
      BY <1>1, <3>1, <3>2 DEF WalksInv
  <2> QED
    BY <1>1, <1>2, <2>4 DEF UploadsInv
<1>5. CASE WalkEnd(i) \/ WalkFails(i)
  <2>1. WalksInv'
    <3>1. ch' = ch /\ (at' = at \/ at' = [at EXCEPT ![i] = 0])
      BY <1>5 DEF WalkEnd, WalkFails
    <3>2. CASE at' = at
      BY <1>1, <3>1, <3>2 DEF UploadsInv, WalksInv
    <3> QED
      BY <1>1, <3>1, <3>2, AtMoves DEF UploadsInv
  <2> QED
    BY <1>1, <1>2, <2>1 DEF UploadsInv
<1> QED
  BY <1>1, <1>4, <1>5 DEF Walker

LEMMA HandOverUploads ==
    ASSUME UploadsInv, HandOver, UNCHANGED opt
    PROVE  UploadsInv'
<1>1. /\ deal = "send" /\ deal' = "sent" /\ sent' = Append(sent, value)
      /\ UNCHANGED <<readers, current, at, ch, cached, uvs, value>>
  BY DEF HandOver, readVars, walkVars
<1>2. ReadersInv' /\ WalksInv'
  BY <1>1 DEF UploadsInv, ReadersInv, WalksInv
<1>3. value \in 1 .. Len(uvs) /\ sent \in Seq(Nat) /\ \A i \in 1 .. Len(sent) : sent[i] \in 1 .. Len(uvs)
  BY <1>1 DEF UploadsInv, CacheInv
<1>4. /\ sent' \in Seq(Nat) /\ Len(sent') = Len(sent) + 1 /\ sent'[Len(sent) + 1] = value
      /\ Len(sent) \in Nat /\ \A i \in 1 .. Len(sent) : sent'[i] = sent[i]
  <2>1. value \in Nat
    BY <1>3
  <2> QED
    BY <1>1, <1>3, <2>1
<1>5. ASSUME NEW i \in 1 .. Len(sent') PROVE sent'[i] \in 1 .. Len(uvs)
  <2>1. i \in 1 .. Len(sent) \/ i = Len(sent) + 1
    BY <1>4
  <2> QED
    BY <1>3, <1>4, <2>1
<1>6. CacheInv'
  BY <1>1, <1>3, <1>4, <1>5 DEF UploadsInv, CacheInv
<1> QED
  BY <1>2, <1>6 DEF UploadsInv

\* The steps that have to do with what is read and handed over.
LEMMA UploadSteps ==
    ASSUME [Next]_vars
    PROVE  \/ UNCHANGED <<opt, readVars, deal, value, sent>>
           \/ (Read \/ DealNext \/ HandOver) /\ UNCHANGED opt
           \/ \E i \in 1 .. MaxParts : Walking(i)
<1>1. CASE Dealing
  BY <1>1 DEF Dealing, Deal
<1>2. CASE \E i \in 1 .. MaxParts : Walking(i)
  BY <1>2
<1>3. CASE Boot \/ Final
  BY <1>3 DEF Boot, RunInitial, ReturnInitial, Final, uploadVars
<1>4. CASE UNCHANGED vars
  BY <1>4 DEF vars, uploadVars
<1>5. ASSUME NEW w \in Callers, Request(w)
      PROVE  UNCHANGED <<opt, readVars, deal, value, sent>> \/ (HandOver /\ UNCHANGED opt)
  <2>1. CASE SetField(w)
    BY <2>1 DEF SetField, NewReaderFails, Die, uploadVars
  <2>2. CASE SetBody(w)
    BY <2>2 DEF SetBody, SetBodyStream, SetBodyUpload, SetBodyBytes, SetBodyLine, SetBodyRest, uploadVars
  <2>3. CASE \/ RunBegin(w) \/ SetReq(w) \/ NextProfile(w) \/ NextProfileFails(w) \/ Ask(w)
             \/ Connect(w) \/ WriteChunk(w) \/ Write(w) \/ Answer(w)
    BY <2>3 DEF RunBegin, SetReq, NextProfile, NextProfileFails, Die, Ask, Connect, WriteChunk,
       Write, Answer, uploadVars
  <2>4. CASE \/ Discard(w) \/ PrintReq(w) \/ PrintResp(w) \/ Log(w) \/ UpdateThroughput(w)
             \/ Return(w) \/ StopWorker(w)
    BY <2>4 DEF Discard, PrintReq, PrintResp, Log, UpdateThroughput, Return, StopWorker, uploadVars
  <2> QED
    BY <1>5, <2>1, <2>2, <2>3, <2>4 DEF Request
<1> QED
  BY <1>1, <1>2, <1>3, <1>4, <1>5 DEF Next, Ended

LEMMA UploadsStep == UploadsInv /\ [Next]_vars => UploadsInv'
<1> SUFFICES ASSUME UploadsInv, [Next]_vars PROVE UploadsInv'
  OBVIOUS
<1>1. CASE UNCHANGED <<opt, readVars, deal, value, sent>>
  <2>1. ReadersInv'
    BY <1>1 DEF UploadsInv, ReadersInv, readVars
  <2>2. WalksInv'
    BY <1>1 DEF UploadsInv, WalksInv, readVars, walkVars
  <2>3. CacheInv'
    BY <1>1 DEF UploadsInv, CacheInv, readVars
  <2> QED
    BY <2>1, <2>2, <2>3 DEF UploadsInv
<1>2. CASE DealNext /\ UNCHANGED opt
  <2>1. /\ deal = "sent" /\ deal' \in {"closed", "read"}
        /\ UNCHANGED <<readers, current, at, ch, cached, uvs, value, sent>>
    BY <1>2 DEF DealNext, readVars, walkVars
  <2>2. ReadersInv'
    BY <1>2, <2>1 DEF UploadsInv, ReadersInv
  <2>3. WalksInv'
    BY <1>2, <2>1 DEF UploadsInv, WalksInv
  <2>4. CacheInv'
    BY <1>2, <2>1 DEF UploadsInv, CacheInv
  <2> QED
    BY <2>2, <2>3, <2>4 DEF UploadsInv
<1> QED
  BY <1>1, <1>2, UploadSteps, ReadUploads, HandOverUploads, WalkUploads

LEMMA UploadsInit == Init => UploadsInv
<1> SUFFICES ASSUME Init PROVE CacheInv
  BY ReadersInit DEF UploadsInv
<1>1. /\ cached = [k \in Files \cup Rands |-> 0] /\ uvs = <<>> /\ sent = <<>> /\ deal \in {"read", "off"}
  BY DEF Init, UploadInit
<1>2. uvs \in Seq(Nat) /\ sent \in Seq(Nat) /\ Len(uvs) = 0 /\ Len(sent) = 0
  BY <1>1
<1> QED
  BY <1>1, <1>2 DEF CacheInv, Keys

\* With :cache two uploads are of one value exactly if they are of one file or of one
\* generated type, whatever readers they come from.
THEOREM UploadsCachedOnce == Spec => []CachedOnce
<1>1. Init => UploadsInv
  BY UploadsInit
<1>2. UploadsInv /\ [Next]_vars => UploadsInv'
  BY UploadsStep
<1>3. UploadsInv => CachedOnce
  <2> SUFFICES ASSUME CacheInv PROVE CachedOnce
    BY DEF UploadsInv
  <2>1. DOMAIN sent = 1 .. Len(sent)
    BY DEF CacheInv
  <2> QED
    BY <2>1 DEF CacheInv, CachedOnce
<1> QED
  BY <1>1, <1>2, <1>3, PTL DEF Spec

(***************************************************************************)
(* Turns: of n readers that take turns, r has every n-th.                  *)
(***************************************************************************)
LEMMA NextTurn ==
    ASSUME NEW m \in Nat, NEW n \in Nat \ {0}
    PROVE  IF m % n = n - 1 THEN (m + 1) % n = 0 /\ (m + 1) \div n = (m \div n) + 1
           ELSE (m + 1) % n = (m % n) + 1 /\ (m + 1) \div n = m \div n
<1> DEFINE q == m \div n
           r == m % n
<1>1. q \in Nat /\ r \in 0 .. n - 1 /\ m = n * q + r
  BY Division
<1> HIDE DEF q, r
<1>2. CASE r = n - 1
  <2>1. PICK p \in Nat : p = q + 1 /\ m + 1 = n * p + 0
    BY <1>1, <1>2
  <2>2. (m + 1) \div n = p /\ (m + 1) % n = 0
    BY ONLY <2>1, DivisionUnique, n \in Nat \ {0}, 0 \in 0 .. n - 1
  <2> QED
    BY <1>2, <2>1, <2>2 DEF q, r
<1>3. CASE r # n - 1
  <2>1. m + 1 = n * q + (r + 1) /\ r + 1 \in 0 .. n - 1
    BY <1>1, <1>3
  <2>2. (m + 1) \div n = q /\ (m + 1) % n = r + 1
    BY ONLY <1>1, <2>1, DivisionUnique, n \in Nat \ {0}
  <2> QED
    BY <1>3, <2>2 DEF q, r
<1> QED
  BY <1>2, <1>3

\* Remainders stay equal when both numbers go on by one.
LEMMA SameRemainder ==
    ASSUME NEW i \in Nat, NEW j \in Nat, NEW n \in Nat \ {0}, i % n = j % n
    PROVE  (i + 1) % n = (j + 1) % n
<1>1. i % n = n - 1 => (i + 1) % n = 0 /\ (j + 1) % n = 0
  BY NextTurn
<1>2. i % n # n - 1 => (i + 1) % n = (i % n) + 1 /\ (j + 1) % n = (j % n) + 1
  BY NextTurn
<1> QED
  BY <1>1, <1>2

\* How many of the first m turns are those of reader r.
Turns(m, r) == IF r <= m % Len(readers) THEN (m \div Len(readers)) + 1 ELSE m \div Len(readers)

LEMMA TurnsNext ==
    ASSUME Len(readers) \in Nat \ {0}, NEW m \in Nat, NEW r \in 1 .. Len(readers)
    PROVE  /\ Turns(m, r) \in Nat /\ (m % Len(readers)) + 1 \in 1 .. Len(readers) /\ m \div Len(readers) \in Nat
           /\ r = (m % Len(readers)) + 1 => Turns(m, r) = m \div Len(readers)
           /\ Turns(m + 1, r) = IF r = (m % Len(readers)) + 1 THEN Turns(m, r) + 1 ELSE Turns(m, r)
<1> DEFINE n == Len(readers)
           q == m \div n
           k == m % n
<1>1. q \in Nat /\ k \in 0 .. n - 1 /\ n \in Nat \ {0}
  BY Division
<1>2. IF k = n - 1 THEN (m + 1) % n = 0 /\ (m + 1) \div n = q + 1
      ELSE (m + 1) % n = k + 1 /\ (m + 1) \div n = q
  BY NextTurn
<1>3. /\ Turns(m, r) = IF r <= k THEN q + 1 ELSE q
      /\ Turns(m + 1, r) = IF r <= (m + 1) % n THEN ((m + 1) \div n) + 1 ELSE (m + 1) \div n
  BY DEF Turns
<1> HIDE DEF q, k
<1>4. CASE k = n - 1
  BY <1>1, <1>2, <1>3, <1>4 DEF q, k
<1>5. CASE k # n - 1
  BY <1>1, <1>2, <1>3, <1>5 DEF q, k
<1> QED
  BY <1>4, <1>5

(***************************************************************************)
(* UploadsInTurn                                                           *)
(***************************************************************************)
\* How many values were read, and how many of them from reader r.
Delivered == IF deal = "send" THEN Len(sent) + 1 ELSE Len(sent)
Had(r)    == Turns(Delivered, r)

\* What reader r gives for the k-th time, counted from 0, in the order that it has now.
FilesOf(r) == readers[r].files
Due(r, k)  == IF readers[r].kind = "rand" THEN NoFile ELSE FilesOf(r)[(k % Len(FilesOf(r))) + 1]

\* The m-th value that was read, counted from 0: its reader, the turns that one had before,
\* what is due, and its path.
TurnAt(m)  == (m % Len(readers)) + 1
RoundAt(m) == m \div Len(readers)
KindAt(m)  == readers[TurnAt(m)].kind
DueAt(m)   == Due(TurnAt(m), RoundAt(m))
PathAt(m)  == uvs[IF m < Len(sent) THEN sent[m + 1] ELSE value].path

\* The path of a value follows from its key, so that a value of the cache has the path
\* that was read.
PathsInv == \A v \in 1 .. Len(uvs) : uvs[v].path = IF uvs[v].key \in Rands THEN NoFile ELSE uvs[v].key

\* The values that were read are those that were due, unless they are of a directory.
TurnInv ==
    /\ deal = "off" => opt.parts = <<>> /\ sent = <<>>
    /\ deal # "off" => current = TurnAt(Delivered)
    /\ \A m \in 0 .. Delivered - 1 : KindAt(m) # "dir" => PathAt(m) = DueAt(m)

\* A walk is one file ahead of the turns if its channel is full.
Ahead(r) == IF ch[r] = <<>> THEN 0 ELSE 1
Made(r)  == Had(r) + Ahead(r)

\* Whether the k-th value of reader r is of the walk that the last one is of, whose order
\* the reader has.
Recent(r, k) == k \div Len(FilesOf(r)) = (Made(r) - 1) \div Len(FilesOf(r))

\* The walk that the m-th value is of.
LapOf(m) == RoundAt(m) \div Len(FilesOf(TurnAt(m)))

\* A value of a directory is one of its files, none of which is given twice in a walk.
DirAt(m) ==
    /\ FilesOf(TurnAt(m)) # <<>> /\ PathAt(m) \in Visible(opt.parts[TurnAt(m)])
    /\ Recent(TurnAt(m), RoundAt(m)) => PathAt(m) = DueAt(m)
    /\ \A l \in 0 .. Delivered - 1 :
          l # m /\ TurnAt(l) = TurnAt(m) /\ LapOf(l) = LapOf(m) => PathAt(l) # PathAt(m)

LapsInv == \A m \in 0 .. Delivered - 1 : KindAt(m) = "dir" => DirAt(m)

\* A pattern goes on with each turn, and a walk with each file; what is due is in its
\* channel if that is full.
PlaceIn(r) ==
    /\ readers[r].kind = "glob" => at[r] = Had(r)
    /\ readers[r].kind \in {"dir", "ant"} =>
          /\ at[r] <= Len(FilesOf(r))
          /\ FilesOf(r) # <<>> => at[r] % Len(FilesOf(r)) = Made(r) % Len(FilesOf(r))
          /\ ch[r] # <<>> => FilesOf(r) # <<>> /\ ch[r][1] = Due(r, Had(r))

PlaceInv == \A r \in DOMAIN opt.parts : PlaceIn(r)

TurnsInv == UploadsInv /\ PathsInv /\ TurnInv /\ LapsInv /\ PlaceInv

LEMMA DeliveredFacts ==
    ASSUME UploadsInv
    PROVE  /\ Len(sent) \in Nat /\ Delivered \in Nat /\ Len(sent) <= Delivered
           /\ Len(readers) \in Nat /\ DOMAIN opt.parts = 1 .. Len(readers)
           /\ deal # "off" => Len(readers) \in Nat \ {0} /\ current \in 1 .. Len(readers)
           /\ \A r \in DOMAIN opt.parts : /\ FilesOf(r) \in Seq(Files) /\ Len(FilesOf(r)) \in Nat /\ at[r] \in Nat
                                          /\ FilesOf(r) # <<>> => Len(FilesOf(r)) \in Nat \ {0}
<1>1. Len(sent) \in Nat
  BY DEF UploadsInv, CacheInv
<1>2. Len(readers) \in Nat /\ DOMAIN opt.parts = 1 .. Len(readers)
  BY DEF UploadsInv, ReadersInv
<1>3. deal # "off" => current \in 1 .. Len(readers)
  BY <1>2 DEF UploadsInv, ReadersInv
<1>4. \A r \in DOMAIN opt.parts : FilesOf(r) \in Seq(Files) /\ at[r] \in Nat
  BY DEF UploadsInv, ReadersInv, WalksInv, FilesOf
<1>5. \A r \in DOMAIN opt.parts : FilesOf(r) # <<>> => Len(FilesOf(r)) \in Nat \ {0}
  BY <1>4
<1> QED
  BY <1>1, <1>2, <1>3, <1>4, <1>5 DEF Delivered

\* The files of a directory or of a pattern are listed once each.
LEMMA OnceListed ==
    ASSUME UploadsInv, NEW r \in DOMAIN opt.parts, readers[r].kind \in {"dir", "glob"}
    PROVE  /\ \A i \in 1 .. Len(FilesOf(r)) : FilesOf(r)[i] \in Visible(opt.parts[r])
           /\ \A i, j \in 1 .. Len(FilesOf(r)) : FilesOf(r)[i] = FilesOf(r)[j] => i = j
           /\ \A f \in Visible(opt.parts[r]) : \E i \in 1 .. Len(FilesOf(r)) : FilesOf(r)[i] = f
<1>1. FilesOf(r) \in Listings(Visible(opt.parts[r])) /\ opt.parts[r] \in Parts
  <2>1. readers[r].files \in Listings(Visible(opt.parts[r])) /\ opt.parts \in Seq(Parts)
    BY DEF UploadsInv, ReadersInv
  <2> QED
    BY <2>1 DEF FilesOf
<1>2. Visible(opt.parts[r]) \in SUBSET Files
  BY <1>1 DEF Visible, Parts
<1> QED
  BY <1>1, <1>2, ListingOnce

LEMMA Multiples ==
    ASSUME NEW n \in Nat, NEW a \in Nat, NEW b \in Nat, a < b
    PROVE  n * a + n <= n * b
<1>1. PICK c \in Nat : b = (a + 1) + c
  <2>1. b - (a + 1) \in Nat /\ b = (a + 1) + (b - (a + 1))
    OBVIOUS
  <2> QED
    BY <2>1
<1>2. n * b = n * a + n + n * c
  BY <1>1
<1>3. n * c \in Nat /\ n * a \in Nat
  OBVIOUS
<1> QED
  BY <1>2, <1>3

\* A number is known by quotient and remainder.
LEMMA SameNumber ==
    ASSUME NEW i \in Nat, NEW j \in Nat, NEW n \in Nat \ {0}, i \div n = j \div n, i % n = j % n
    PROVE  i = j
<1>1. i = n * (i \div n) + (i % n) /\ j = n * (j \div n) + (j % n)
  BY Division
<1> QED
  BY <1>1

\* What comes before a multiple of n has a smaller quotient.
LEMMA QuotientBefore ==
    ASSUME NEW m \in Nat, NEW n \in Nat \ {0}, m % n = 0, NEW k \in 0 .. m - 1
    PROVE  k \div n # m \div n
<1> SUFFICES ASSUME k \div n = m \div n PROVE FALSE
  OBVIOUS
<1>1. m = n * (m \div n) + (m % n) /\ m \div n \in Nat
  BY Division
<1>2. k \in Nat /\ k < m
  OBVIOUS
<1>3. k = n * (k \div n) + (k % n) /\ k % n \in 0 .. n - 1
  BY <1>2, Division
<1>4. n * (m \div n) \in Nat
  BY <1>1
<1> QED
  BY <1>1, <1>2, <1>3, <1>4

\* Of the first m values those of a reader are in the turns it had.
LEMMA TurnsBefore ==
    ASSUME Len(readers) \in Nat \ {0}, NEW m \in Nat, NEW l \in 0 .. m - 1
    PROVE  /\ TurnAt(l) \in 1 .. Len(readers) /\ RoundAt(l) \in Nat
           /\ RoundAt(l) < Turns(m, TurnAt(l))
<1> DEFINE n == Len(readers)
           q == l \div n
           k == l % n
           p == m \div n
           h == m % n
<1>1. q \in Nat /\ k \in 0 .. n - 1 /\ l = n * q + k /\ n \in Nat \ {0}
  <2>1. l \in Nat
    OBVIOUS
  <2> QED
    BY <2>1, Division
<1>2. p \in Nat /\ h \in 0 .. n - 1 /\ m = n * p + h
  BY Division
<1>3. TurnAt(l) = k + 1 /\ RoundAt(l) = q
  BY DEF TurnAt, RoundAt
<1>4. Turns(m, k + 1) = IF k + 1 <= h THEN p + 1 ELSE p
  BY DEF Turns
<1> HIDE DEF q, k, p, h
<1>5. CASE q < p
  BY <1>1, <1>2, <1>3, <1>4, <1>5 DEF n
<1>6. CASE q = p
  <2>1. k < h
    BY <1>1, <1>2, <1>6
  <2> QED
    BY <1>1, <1>2, <1>3, <1>4, <1>6, <2>1 DEF n
<1>7. CASE p < q
  <2>1. n * p + n <= n * q
    BY <1>1, <1>2, <1>7, Multiples
  <2>2. n * p \in Nat /\ n * q \in Nat
    BY <1>1, <1>2
  <2> HIDE DEF n
  <2> QED
    BY <1>1, <1>2, <2>1, <2>2
<1> QED
  BY <1>1, <1>2, <1>5, <1>6, <1>7

\* Each of the turns that a reader had is that of one of the first m values.
LEMMA TurnTaken ==
    ASSUME Len(readers) \in Nat \ {0}, NEW m \in Nat, NEW r \in 1 .. Len(readers),
           NEW k \in Nat, k < Turns(m, r)
    PROVE  \E l \in 0 .. m - 1 : TurnAt(l) = r /\ RoundAt(l) = k
<1> DEFINE n == Len(readers)
           p == m \div n
           h == m % n
           l == n * k + (r - 1)
<1>1. p \in Nat /\ h \in 0 .. n - 1 /\ m = n * p + h /\ n \in Nat \ {0}
  BY Division
<1>2. Turns(m, r) = IF r <= h THEN p + 1 ELSE p
  BY DEF Turns
<1>3. l \div n = k /\ l % n = r - 1
  BY DivisionUnique
<1>4. TurnAt(l) = r /\ RoundAt(l) = k
  BY <1>3 DEF TurnAt, RoundAt
<1> HIDE DEF p, h
<1>5. n * k \in Nat /\ n * p \in Nat /\ r \in 1 .. n
  BY <1>1
<1>6. CASE k < p
  <2>1. n * k + n <= n * p
    BY <1>1, <1>6, Multiples
  <2> HIDE DEF n
  <2>2. l \in Nat /\ l < m
    BY <1>1, <1>5, <2>1
  <2> QED
    BY <1>4, <2>2
<1>7. CASE k = p
  <2>1. r <= h
    BY <1>1, <1>2, <1>7
  <2> HIDE DEF n
  <2>2. l \in Nat /\ l < m
    BY <1>1, <1>5, <1>7, <2>1
  <2> QED
    BY <1>4, <2>2
<1> QED
  BY <1>1, <1>2, <1>6, <1>7

\* What is read is due.
LEMMA ReadDue ==
    ASSUME TurnsInv, deal = "read", NEW path, NEW last, Gives(path, last)
    PROVE  /\ path = Due(current, Had(current)) /\ TurnAt(Len(sent)) = current
           /\ RoundAt(Len(sent)) = Had(current) /\ Had(current) \in Nat
<1>1. /\ Len(sent) \in Nat /\ Len(readers) \in Nat \ {0} /\ current \in DOMAIN opt.parts
      /\ current \in 1 .. Len(readers) /\ Delivered = Len(sent)
      /\ FilesOf(current) \in Seq(Files) /\ Len(FilesOf(current)) \in Nat
  BY DeliveredFacts DEF TurnsInv, Delivered
<1>2. current = (Len(sent) % Len(readers)) + 1
  BY <1>1 DEF TurnsInv, TurnInv, TurnAt
<1>3. Had(current) = Len(sent) \div Len(readers) /\ Had(current) \in Nat
  BY <1>1, <1>2, TurnsNext DEF Had
<1>4. TurnAt(Len(sent)) = current /\ RoundAt(Len(sent)) = Had(current)
  BY <1>2, <1>3 DEF TurnAt, RoundAt
<1>5. PlaceIn(current)
  BY <1>1 DEF TurnsInv, PlaceInv
<1>6. CASE Reader.kind = "file"
  <2>1. Len(FilesOf(current)) = 1
    BY <1>1, <1>6 DEF TurnsInv, UploadsInv, ReadersInv, Reader, FilesOf
  <2>2. Had(current) % 1 = 0
    BY <1>3
  <2>3. path = FilesOf(current)[1] /\ readers[current].kind = "file"
    BY <1>6 DEF Gives, Reader, FilesOf
  <2> QED
    BY <1>3, <1>4, <2>1, <2>2, <2>3 DEF Due
<1>7. CASE Reader.kind \in {"glob", "rand"}
  BY <1>3, <1>4, <1>5, <1>7 DEF Gives, PlaceIn, Due, FilesOf, Reader
<1>8. CASE Reader.kind \in {"dir", "ant"}
  BY <1>3, <1>4, <1>5, <1>8 DEF Gives, PlaceIn, Reader
<1> QED
  BY <1>3, <1>4, <1>6, <1>7, <1>8 DEF Gives

\* The values there were keep path and mark; the one that is delivered has the path that
\* was read, and the mark if it had it or gets it.
LEMMA DeliverValue ==
    ASSUME UploadsInv, PathsInv, NEW path, NEW last \in BOOLEAN, Deliver(path, last), Key(path) \in Keys,
           IF Reader.kind = "rand" THEN Reader.type \in Rands /\ path = NoFile ELSE path \in Files
    PROVE  /\ Len(uvs) \in Nat /\ Len(uvs') \in Nat /\ Len(uvs) <= Len(uvs') /\ value' \in 1 .. Len(uvs')
           /\ \A v \in 1 .. Len(uvs) : uvs'[v].path = uvs[v].path
           /\ uvs'[value'].path = path /\ PathsInv'
           /\ \A v \in 1 .. Len(uvs') : v # value' => v \in 1 .. Len(uvs) /\ uvs'[v].exit = uvs[v].exit
           /\ uvs'[value'].exit <=> last \/ (value' \in 1 .. Len(uvs) /\ uvs[value'].exit)
<1> DEFINE key == Key(path)
           n == Len(uvs)
<1>1. PICK S : uvs \in Seq(S)
  BY DEF UploadsInv, CacheInv
<1>2. path = (IF key \in Rands THEN NoFile ELSE key)
  BY FilesAssumption DEF Key
<1>3. CASE ~Hit(path)
  <2> DEFINE item == CreateDataItem(path, last)
  <2>1. uvs' = Append(uvs, item) /\ value' = n + 1
    BY <1>3 DEF Deliver
  <2>2. item.path = path /\ item.key = key /\ item.exit = last
    BY DEF CreateDataItem
  <2> HIDE DEF item, key
  <2>3. Len(uvs') = n + 1 /\ n \in Nat /\ uvs'[n + 1] = item /\ \A v \in 1 .. n : uvs'[v] = uvs[v]
    BY <1>1, <2>1, AppendMore
  <2>4. PathsInv'
    <3>1. ASSUME NEW v \in 1 .. Len(uvs') PROVE uvs'[v].path = IF uvs'[v].key \in Rands THEN NoFile ELSE uvs'[v].key
      <4>1. v \in 1 .. n \/ v = n + 1
        BY <2>3
      <4> QED
        BY <1>2, <2>2, <2>3, <4>1 DEF PathsInv
    <3> QED
      BY <3>1 DEF PathsInv
  <2> QED
    BY <2>1, <2>2, <2>3, <2>4
<1>4. CASE Hit(path)
  <2> DEFINE h == cached[key]
             item == [uvs[h] EXCEPT !.exit = @ \/ last]
  <2>1. h # 0 /\ value' = h /\ uvs' = [uvs EXCEPT ![h] = item]
    BY <1>4 DEF Hit, Deliver
  <2>2. h \in 1 .. n /\ uvs[h].key = key /\ uvs[h] = [k \in ItemFields |-> uvs[h][k]]
    BY <2>1 DEF UploadsInv, CacheInv
  <2>3. item.path = uvs[h].path /\ item.key = uvs[h].key /\ item.exit = (uvs[h].exit \/ last)
    BY <2>2 DEF ItemFields
  <2>4. uvs[h].path = path
    BY <1>2, <2>2 DEF PathsInv
  <2> HIDE DEF item, key, h
  <2>5. Len(uvs') = n /\ n \in Nat /\ uvs'[h] = item /\ \A v \in 1 .. n : v # h => uvs'[v] = uvs[v]
    BY <1>1, <2>1, <2>2
  <2>6. \A v \in 1 .. n : uvs'[v].path = uvs[v].path /\ uvs'[v].key = uvs[v].key
    BY <2>3, <2>5
  <2>7. PathsInv'
    BY <2>5, <2>6 DEF PathsInv
  <2>8. uvs'[value'].path = path /\ value' \in 1 .. n /\ value' = h
    BY <2>1, <2>2, <2>4, <2>6
  <2>9. uvs'[h].exit <=> last \/ uvs[h].exit
    BY <2>3, <2>5
  <2> QED
    BY <2>5, <2>6, <2>7, <2>8, <2>9
<1> QED
  BY <1>3, <1>4

\* The reader whose turn it was has had one more.
LEMMA HadMore ==
    ASSUME UploadsInv, TurnInv, deal = "read", deal' = "send", UNCHANGED <<readers, sent>>, NEW r \in DOMAIN opt.parts
    PROVE  Had(r) \in Nat /\ Had(r)' = IF r = current THEN Had(r) + 1 ELSE Had(r)
<1>1. /\ Len(sent) \in Nat /\ Len(readers) \in Nat \ {0} /\ r \in 1 .. Len(readers)
      /\ Delivered = Len(sent) /\ Delivered' = Len(sent) + 1
  BY DeliveredFacts DEF Delivered
<1>2. current = (Len(sent) % Len(readers)) + 1
  BY <1>1 DEF TurnInv, TurnAt
<1>3. Turns(Len(sent) + 1, r) = (IF r = current THEN Turns(Len(sent), r) + 1 ELSE Turns(Len(sent), r))
      /\ Turns(Len(sent), r) \in Nat
  BY <1>1, <1>2, TurnsNext
<1>4. Had(r)' = Turns(Len(sent) + 1, r) /\ Had(r) = Turns(Len(sent), r)
  BY <1>1 DEF Had, Turns
<1> QED
  BY <1>3, <1>4

\* A file that a walk gives is none of those it gave before.
LEMMA ReadApart ==
    ASSUME TurnsInv, deal = "read", NEW path, NEW last, Gives(path, last), Reader.kind = "dir",
           NEW l \in 0 .. Len(sent) - 1, TurnAt(l) = current, LapOf(l) = LapOf(Len(sent))
    PROVE  PathAt(l) # path
<1> DEFINE len == Len(FilesOf(current))
           k == RoundAt(l)
           h == Had(current)
<1>1. /\ Len(sent) \in Nat /\ Len(readers) \in Nat \ {0} /\ current \in DOMAIN opt.parts
      /\ Delivered = Len(sent)
  BY DeliveredFacts DEF TurnsInv, Delivered
<1>2. path = Due(current, h) /\ TurnAt(Len(sent)) = current /\ RoundAt(Len(sent)) = h /\ h \in Nat
  BY ReadDue
<1>3. ch[current] # <<>> /\ readers[current].kind = "dir"
  BY DEF Gives, Reader
<1>4. FilesOf(current) # <<>> /\ len \in Nat \ {0}
  BY <1>1, <1>3, DeliveredFacts DEF TurnsInv, PlaceInv, PlaceIn
<1>5. k \in Nat /\ k < h
  BY <1>1, TurnsBefore DEF Had
<1>6. k \div len = h \div len
  BY <1>2 DEF LapOf
<1>7. Made(current) - 1 = h
  BY <1>2, <1>3 DEF Made, Ahead
<1>8. PathAt(l) = Due(current, k)
  <2>1. Recent(current, k)
    BY <1>6, <1>7 DEF Recent
  <2>2. DirAt(l)
    BY <1>1, <1>3 DEF TurnsInv, LapsInv, KindAt
  <2> QED
    BY <2>1, <2>2 DEF DirAt, DueAt
<1>9. path = FilesOf(current)[(h % len) + 1] /\ PathAt(l) = FilesOf(current)[(k % len) + 1]
  BY <1>2, <1>3, <1>8 DEF Due
<1>10. k % len # h % len
  BY <1>2, <1>4, <1>5, <1>6, SameNumber
<1>11. \A i, j \in 1 .. len : FilesOf(current)[i] = FilesOf(current)[j] => i = j
  BY <1>1, <1>3, OnceListed DEF TurnsInv
<1> HIDE DEF len, k, h
<1>12. (h % len) + 1 \in 1 .. len /\ (k % len) + 1 \in 1 .. len /\ (h % len) + 1 # (k % len) + 1
  BY <1>2, <1>4, <1>5, <1>10
<1> QED
  BY <1>9, <1>11, <1>12

\* A file that is read from a directory is one of its files.
LEMMA ReadVisible ==
    ASSUME TurnsInv, deal = "read", NEW path, NEW last, Gives(path, last), Reader.kind = "dir"
    PROVE  FilesOf(current) # <<>> /\ path \in Visible(opt.parts[current])
<1>1. current \in DOMAIN opt.parts /\ readers[current].kind = "dir" /\ ch[current] # <<>>
  BY DeliveredFacts DEF TurnsInv, Gives, Reader
<1>2. FilesOf(current) # <<>> /\ Len(FilesOf(current)) \in Nat \ {0}
  BY <1>1, DeliveredFacts DEF TurnsInv, PlaceInv, PlaceIn
<1>3. path = FilesOf(current)[(Had(current) % Len(FilesOf(current))) + 1] /\ Had(current) \in Nat
  BY <1>1, ReadDue DEF Due
<1>4. (Had(current) % Len(FilesOf(current))) + 1 \in 1 .. Len(FilesOf(current))
  BY <1>2, <1>3
<1> QED
  BY <1>1, <1>2, <1>3, <1>4, OnceListed DEF TurnsInv

\* The state of the turns does not depend on what else there is.
LEMMA SameTurns ==
    ASSUME TurnsInv, UNCHANGED <<opt, readers, at, ch, uvs, current>>, Delivered' = Delivered,
           \A m \in 0 .. Delivered - 1 : PathAt(m)' = PathAt(m), deal' = deal \/ (deal' # "off" /\ deal # "off"),
           deal = "off" => sent' = sent
    PROVE  PathsInv' /\ TurnInv' /\ LapsInv' /\ PlaceInv'
<1>1. /\ \A m : TurnAt(m)' = TurnAt(m) /\ RoundAt(m)' = RoundAt(m) /\ KindAt(m)' = KindAt(m) /\ DueAt(m)' = DueAt(m)
      /\ \A m : LapOf(m)' = LapOf(m)
      /\ \A r : FilesOf(r)' = FilesOf(r) /\ Had(r)' = Had(r) /\ Made(r)' = Made(r)
      /\ \A r, k : Due(r, k)' = Due(r, k) /\ Recent(r, k)' = Recent(r, k)
  BY DEF TurnAt, RoundAt, KindAt, DueAt, LapOf, Due, FilesOf, Had, Turns, Made, Ahead, Recent
<1>2. PathsInv'
  BY DEF TurnsInv, PathsInv
<1>3. TurnInv'
  BY <1>1 DEF TurnsInv, TurnInv
<1>4. LapsInv'
  <2>1. ASSUME NEW m \in 0 .. Delivered - 1, DirAt(m) PROVE DirAt(m)'
    BY <1>1, <2>1 DEF DirAt
  <2> QED
    BY <1>1, <2>1 DEF TurnsInv, LapsInv
<1>5. PlaceInv'
  BY <1>1 DEF TurnsInv, PlaceInv, PlaceIn
<1> QED
  BY <1>2, <1>3, <1>4, <1>5

LEMMA ReadTurns ==
    ASSUME TurnsInv, UploadsInv', Read, UNCHANGED opt
    PROVE  PathsInv' /\ TurnInv' /\ LapsInv' /\ PlaceInv'
<1>1. CASE UNCHANGED uploadVars
  <2>1. UNCHANGED <<readers, at, ch, uvs, current, deal, sent, value>>
    BY <1>1 DEF uploadVars, readVars, walkVars
  <2>2. Delivered' = Delivered /\ \A m : PathAt(m)' = PathAt(m)
    BY <2>1 DEF Delivered, PathAt
  <2> QED
    BY <2>1, <2>2, SameTurns
<1>2. ASSUME deal = "read", NEW path, NEW last, Deliver(path, last), Gives(path, last),
             Reader.kind # "rand" => path \in Files
      PROVE  PathsInv' /\ TurnInv' /\ LapsInv' /\ PlaceInv'
  <2> DEFINE n == Len(sent)
  <2>1. /\ n \in Nat /\ Len(readers) \in Nat \ {0} /\ current \in DOMAIN opt.parts
        /\ Delivered = n /\ current = (n % Len(readers)) + 1
        /\ DOMAIN opt.parts = 1 .. Len(readers)
    BY <1>2, DeliveredFacts DEF Delivered, TurnsInv, TurnInv, TurnAt
  <2>2. deal' = "send" /\ UNCHANGED <<readers, sent>> /\ current' = (current % Len(readers)) + 1
    BY <1>2 DEF Deliver
  <2>3. Key(path) \in Keys
    BY <1>2, KeyIsKey DEF TurnsInv, UploadsInv
  <2>4. IF Reader.kind = "rand" THEN Reader.type \in Rands /\ path = NoFile ELSE path \in Files
    BY <1>2, <2>1 DEF Gives, TurnsInv, UploadsInv, ReadersInv, Reader
  <2>5. last \in BOOLEAN
    BY <1>2 DEF Gives
  <2>6. /\ PathsInv' /\ uvs'[value'].path = path
        /\ \A v \in 1 .. Len(uvs) : uvs'[v].path = uvs[v].path
    BY <1>2, <2>3, <2>4, <2>5, DeliverValue DEF TurnsInv
  <2>7. path = Due(current, Had(current)) /\ TurnAt(n) = current /\ RoundAt(n) = Had(current) /\ Had(current) \in Nat
    BY <1>2, ReadDue
  <2>8. /\ \A m : TurnAt(m)' = TurnAt(m) /\ RoundAt(m)' = RoundAt(m) /\ KindAt(m)' = KindAt(m)
        /\ \A m : DueAt(m)' = DueAt(m) /\ LapOf(m)' = LapOf(m)
        /\ \A r : FilesOf(r)' = FilesOf(r) /\ \A k : Due(r, k)' = Due(r, k)
    BY <2>2 DEF TurnAt, RoundAt, KindAt, DueAt, LapOf, Due, FilesOf
  <2>9. Delivered' = n + 1
    BY <2>2 DEF Delivered
  <2>10. \A m \in 0 .. n : PathAt(m)' = IF m = n THEN path ELSE PathAt(m)
    <3>1. ASSUME NEW m \in 0 .. n - 1 PROVE PathAt(m)' = PathAt(m)
      <4>1. sent[m + 1] \in 1 .. Len(uvs) /\ m < n
        BY <2>1 DEF TurnsInv, UploadsInv, CacheInv
      <4> QED
        BY <2>2, <2>6, <4>1 DEF PathAt
    <3>2. ASSUME NEW m \in 0 .. n, m = n PROVE PathAt(m)' = path
      BY <2>1, <2>2, <2>6, <3>2 DEF PathAt
    <3> QED
      BY <2>1, <3>1, <3>2
  <2>11. TurnInv'
    <3>1. current' = ((n + 1) % Len(readers)) + 1
      <4>1. CASE current = Len(readers)
        <5>1. current % Len(readers) = 0 /\ n % Len(readers) = Len(readers) - 1
          BY <2>1, <4>1
        <5> QED
          BY <2>1, <2>2, <5>1, NextTurn
      <4>2. CASE current # Len(readers)
        <5>1. current % Len(readers) = current /\ n % Len(readers) # Len(readers) - 1
          BY <2>1, <4>2
        <5> QED
          BY <2>1, <2>2, <5>1, NextTurn
      <4> QED
        BY <4>1, <4>2
    <3>2. ASSUME NEW m \in 0 .. n, KindAt(m) # "dir" PROVE PathAt(m)' = DueAt(m)
      <4>1. CASE m = n
        BY <2>1, <2>7, <2>10, <4>1 DEF DueAt
      <4>2. CASE m \in 0 .. n - 1
        BY <2>1, <2>10, <3>2, <4>2 DEF TurnsInv, TurnInv
      <4> QED
        BY <2>1, <4>1, <4>2
    <3>3. current' = TurnAt(n + 1)'
      BY <2>2, <3>1 DEF TurnAt
    <3>4. 0 .. (n + 1) - 1 = 0 .. n
      BY <2>1
    <3> QED
      BY <2>2, <2>8, <2>9, <3>2, <3>3, <3>4 DEF TurnInv
  <2>12. ASSUME NEW r \in DOMAIN opt.parts
         PROVE  /\ Had(r) \in Nat /\ Had(r)' = IF r = current THEN Had(r) + 1 ELSE Had(r)
                /\ r # current => at'[r] = at[r] /\ ch'[r] = ch[r]
                /\ readers[r].kind \in {"dir", "ant"} => at'[r] = at[r] /\ Made(r)' = Made(r)
    <3>1. Had(r) \in Nat /\ Had(r)' = IF r = current THEN Had(r) + 1 ELSE Had(r)
      BY <1>2, <2>2, HadMore DEF TurnsInv
    <3>2. at = [k \in DOMAIN opt.parts |-> at[k]] /\ ch = [k \in DOMAIN opt.parts |-> ch[k]]
      BY DEF TurnsInv, UploadsInv, WalksInv
    <3>3. r # current => at'[r] = at[r] /\ ch'[r] = ch[r]
      BY <1>2, <2>12, <3>2 DEF Gives, walkVars
    <3>4. r = current /\ readers[r].kind \in {"dir", "ant"} => at'[r] = at[r] /\ ch[r] # <<>> /\ ch'[r] = <<>>
      BY <1>2, <2>1, <3>2 DEF Gives, Reader
    <3> QED
      BY <3>1, <3>3, <3>4 DEF Made, Ahead
  <2>13. LapsInv'
    <3>1. ASSUME NEW m \in 0 .. n, KindAt(m) = "dir" PROVE DirAt(m)'
      <4>1. TurnAt(m) \in DOMAIN opt.parts /\ readers[TurnAt(m)].kind = "dir"
        BY <2>1, <3>1 DEF TurnAt, KindAt
      <4>2. Recent(TurnAt(m), RoundAt(m))' = Recent(TurnAt(m), RoundAt(m))
        BY <2>8, <2>12, <4>1 DEF Recent
      <4>3. ASSUME NEW l \in 0 .. n, l # m, TurnAt(l) = TurnAt(m), LapOf(l) = LapOf(m)
            PROVE  PathAt(l)' # PathAt(m)'
        <5>1. CASE m = n
          <6>1. l \in 0 .. n - 1 /\ Reader.kind = "dir"
            BY <2>1, <2>7, <4>1, <4>3, <5>1 DEF Reader
          <6>2. PathAt(l) # path
            BY <1>2, <2>7, <4>3, <5>1, <6>1, ReadApart
          <6> QED
            BY <2>1, <2>10, <5>1, <6>1, <6>2
        <5>2. CASE l = n
          <6>1. m \in 0 .. n - 1 /\ Reader.kind = "dir"
            BY <2>1, <2>7, <4>1, <4>3, <5>2 DEF Reader
          <6>2. PathAt(m) # path
            BY <1>2, <2>7, <4>3, <5>2, <6>1, ReadApart
          <6> QED
            BY <2>1, <2>10, <5>2, <6>1, <6>2
        <5>3. CASE l # n /\ m # n
          <6>1. l \in 0 .. n - 1 /\ m \in 0 .. n - 1
            BY <2>1, <5>3
          <6> QED
            BY <2>1, <2>10, <3>1, <4>3, <6>1 DEF TurnsInv, LapsInv, DirAt
        <5> QED
          BY <5>1, <5>2, <5>3
      <4>4. /\ FilesOf(TurnAt(m)) # <<>> /\ PathAt(m)' \in Visible(opt.parts[TurnAt(m)])
            /\ Recent(TurnAt(m), RoundAt(m)) => PathAt(m)' = DueAt(m)
        <5>1. CASE m = n
          <6>1. PathAt(m)' = path /\ TurnAt(m) = current /\ path = DueAt(m)
            BY <2>1, <2>7, <2>10, <5>1 DEF DueAt
          <6> QED
            BY <1>2, <4>1, <6>1, ReadVisible DEF Reader
        <5>2. CASE m \in 0 .. n - 1
          BY <2>1, <2>10, <3>1, <5>2 DEF TurnsInv, LapsInv, DirAt
        <5> QED
          BY <2>1, <5>1, <5>2
      <4>5. 0 .. Delivered' - 1 = 0 .. n
        BY <2>1, <2>9
      <4> QED
        BY <2>8, <4>2, <4>3, <4>4, <4>5 DEF DirAt
    <3>2. 0 .. Delivered' - 1 = 0 .. n
      BY <2>1, <2>9
    <3> QED
      BY <2>8, <3>1, <3>2 DEF LapsInv
  <2>14. ASSUME NEW r \in DOMAIN opt.parts PROVE PlaceIn(r)'
    <3>1. PlaceIn(r) /\ at[r] \in Nat
      BY <2>14, DeliveredFacts DEF TurnsInv, PlaceInv
    <3>2. /\ Had(r)' = (IF r = current THEN Had(r) + 1 ELSE Had(r))
          /\ r # current => at'[r] = at[r] /\ ch'[r] = ch[r]
          /\ readers[r].kind \in {"dir", "ant"} => at'[r] = at[r] /\ Made(r)' = Made(r)
      BY <2>12, <2>14
    <3>3. at = [k \in DOMAIN opt.parts |-> at[k]] /\ ch = [k \in DOMAIN opt.parts |-> ch[k]]
      BY DEF TurnsInv, UploadsInv, WalksInv
    <3>4. CASE r # current
      BY <2>2, <2>8, <3>1, <3>2, <3>4 DEF PlaceIn
    <3>5. CASE r = current /\ Reader.kind = "glob"
      <4>1. at'[r] = at[r] + 1 /\ readers[r].kind = "glob"
        BY <1>2, <2>1, <3>3, <3>5 DEF Gives, Reader
      <4> QED
        BY <2>2, <3>1, <3>2, <3>5, <4>1 DEF PlaceIn
    <3>6. CASE r = current /\ Reader.kind \in {"dir", "ant"}
      <4>1. ch'[r] = <<>> /\ readers[r].kind = Reader.kind
        BY <1>2, <2>1, <3>3, <3>6 DEF Gives, Reader
      <4> QED
        BY <2>2, <2>8, <3>1, <3>2, <3>6, <4>1 DEF PlaceIn
    <3>7. CASE r = current /\ Reader.kind \in {"rand", "file"}
      BY <2>2, <3>7 DEF PlaceIn, Reader
    <3> QED
      BY <1>2, <3>4, <3>5, <3>6, <3>7 DEF Gives
  <2> QED
    BY <2>6, <2>11, <2>13, <2>14 DEF PlaceInv
<1> QED
  BY <1>1, <1>2, ReadKinds DEF TurnsInv

\* What a walk sends is due, and it is the first file of an order or follows the one before.
LEMMA SentIsDue ==
    ASSUME TurnsInv, NEW i \in 1 .. MaxParts, Walking(i), WalkSend(i)
    PROVE  LET len == Len(FilesOf(i)) IN
           /\ len \in Nat \ {0} /\ Had(i) \in Nat /\ Had(i)' = Had(i) /\ at[i] < len
           /\ at'[i] = at[i] + 1 /\ Made(i) = Had(i) /\ Made(i)' = Had(i) + 1
           /\ FilesOf(i)' # <<>> /\ Len(FilesOf(i)') = len
           /\ ch'[i] # <<>> /\ ch'[i][1] = Due(i, Had(i))'
           /\ at[i] = Had(i) % len /\ (at[i] + 1) % len = (Had(i) + 1) % len
<1> DEFINE len == Len(FilesOf(i))
           p == FilesOf(i)'[at[i] + 1]
<1>1. /\ i \in DOMAIN opt.parts /\ Len(readers') = Len(readers) /\ UNCHANGED <<deal, sent>>
      /\ readers'[i].kind = readers[i].kind /\ Len(FilesOf(i)') = len
      /\ ch' = [ch EXCEPT ![i] = <<p>>] /\ readers[i].kind \in {"dir", "ant"}
  BY WalkReaders DEF TurnsInv, Walking, WalkSend, Walks, FilesOf
<1>2. /\ PlaceIn(i) /\ at[i] \in Nat /\ len \in Nat /\ FilesOf(i) \in Seq(Files) /\ i \in 1 .. Len(readers)
      /\ Delivered \in Nat /\ Len(readers) \in Nat \ {0}
  BY <1>1, DeliveredFacts DEF TurnsInv, PlaceInv
<1>3. at = [k \in DOMAIN opt.parts |-> at[k]] /\ ch = [k \in DOMAIN opt.parts |-> ch[k]]
  BY DEF TurnsInv, UploadsInv, WalksInv
<1>4. at'[i] = at[i] + 1 /\ ch'[i] = <<p>> /\ ch[i] = <<>> /\ at[i] < len
  BY <1>1, <1>3 DEF WalkSend, FilesOf
<1>5. Had(i) \in Nat /\ Had(i)' = Had(i)
  <2>1. Had(i) \in Nat
    BY <1>2, TurnsNext DEF Had
  <2> QED
    BY <1>1, <2>1 DEF Had, Turns, Delivered
<1>6. len \in Nat \ {0} /\ FilesOf(i) # <<>>
  <2>1. len > 0
    BY <1>2, <1>4
  <2>2. FilesOf(i) = <<>> => len = 0
    OBVIOUS
  <2> QED
    BY <1>2, <2>1, <2>2
<1>7. at[i] % len = Had(i) % len
  BY <1>1, <1>2, <1>4, <1>5, <1>6 DEF PlaceIn, Made, Ahead
<1>8. at[i] % len = at[i]
  BY <1>2, <1>4, <1>6, SMTT(40)
<1>9. (at[i] + 1) % len = (Had(i) + 1) % len
  BY <1>2, <1>5, <1>6, <1>7, SameRemainder
<1>10. p = Due(i, Had(i))'
  BY <1>1, <1>5, <1>7, <1>8 DEF Due
<1>11. FilesOf(i)' # <<>>
  <2>1. FilesOf(i)' = <<>> => Len(FilesOf(i)') = 0
    OBVIOUS
  <2> QED
    BY <1>1, <1>6, <2>1
<1> HIDE DEF p, len
<1>12. <<p>>[1] = p /\ <<p>> # <<>>
  OBVIOUS
<1>13. Made(i) = Had(i) /\ Made(i)' = Had(i) + 1
  BY <1>4, <1>5, <1>12 DEF Made, Ahead
<1>14. at[i] = Had(i) % len
  BY <1>7, <1>8
<1> QED
  BY <1>1, <1>4, <1>5, <1>6, <1>9, <1>10, <1>11, <1>12, <1>13, <1>14 DEF len

LEMMA WalkTurns ==
    ASSUME TurnsInv, UploadsInv', NEW i \in 1 .. MaxParts, Walking(i)
    PROVE  PathsInv' /\ TurnInv' /\ LapsInv' /\ PlaceInv'
<1>1. /\ UNCHANGED <<opt, current, uvs, deal, value, sent>> /\ i \in DOMAIN opt.parts /\ Walker(i)
      /\ Len(readers') = Len(readers)
      /\ \A r \in DOMAIN opt.parts :
            /\ readers'[r].kind = readers[r].kind /\ Len(FilesOf(r)') = Len(FilesOf(r))
            /\ ~(r = i /\ WalkSend(i) /\ at[i] = 0 /\ readers[i].kind = "dir") => readers'[r] = readers[r]
  BY WalkReaders DEF Walking, TurnsInv, FilesOf
<1>2. readers[i].kind \in {"dir", "ant"}
  BY <1>1 DEF Walker, WalkSend, WalkEnd, WalkFails, Walks
<1>3. /\ Delivered \in Nat /\ Delivered' = Delivered /\ Len(readers) \in Nat \ {0}
      /\ DOMAIN opt.parts = 1 .. Len(readers) /\ Len(sent) \in Nat
  BY <1>1, DeliveredFacts DEF TurnsInv, Delivered
<1>4. /\ \A m : TurnAt(m)' = TurnAt(m) /\ RoundAt(m)' = RoundAt(m) /\ PathAt(m)' = PathAt(m)
      /\ \A r : Had(r)' = Had(r)
  BY <1>1, <1>3 DEF TurnAt, RoundAt, PathAt, Had, Turns
<1>5. \A m \in 0 .. Delivered - 1 : /\ TurnAt(m) \in DOMAIN opt.parts /\ RoundAt(m) \in Nat
                                    /\ RoundAt(m) < Had(TurnAt(m))
                                    /\ KindAt(m)' = KindAt(m) /\ LapOf(m)' = LapOf(m)
  <2>1. ASSUME NEW m \in 0 .. Delivered - 1
        PROVE  TurnAt(m) \in DOMAIN opt.parts /\ RoundAt(m) \in Nat /\ RoundAt(m) < Had(TurnAt(m))
    BY <1>3, TurnsBefore DEF Had
  <2> QED
    BY <1>1, <1>4, <2>1 DEF KindAt, LapOf
<1>6. ASSUME NEW r \in DOMAIN opt.parts, r # i \/ ~WalkSend(i)
      PROVE  /\ FilesOf(r)' = FilesOf(r) /\ Made(r)' = Made(r) /\ ch'[r] = ch[r] /\ \A k : Due(r, k)' = Due(r, k)
             /\ r # i => at'[r] = at[r]
  <2>1. at = [k \in DOMAIN opt.parts |-> at[k]] /\ ch = [k \in DOMAIN opt.parts |-> ch[k]]
    BY DEF TurnsInv, UploadsInv, WalksInv
  <2>2. ch'[r] = ch[r] /\ (r # i => at'[r] = at[r])
    BY <1>1, <1>6, <2>1 DEF Walker, WalkSend, WalkEnd, WalkFails
  <2>3. readers'[r] = readers[r]
    BY <1>1, <1>6
  <2> QED
    BY <1>4, <2>2, <2>3 DEF FilesOf, Made, Ahead, Due
<1>7. PathsInv'
  BY <1>1 DEF TurnsInv, PathsInv
<1>8. TurnInv'
  <2>1. ASSUME NEW m \in 0 .. Delivered - 1, KindAt(m) # "dir" PROVE PathAt(m)' = DueAt(m)'
    <3>1. readers'[TurnAt(m)] = readers[TurnAt(m)]
      BY <1>1, <1>5, <2>1 DEF KindAt
    <3>2. DueAt(m)' = DueAt(m)
      BY <1>4, <3>1 DEF DueAt, Due, FilesOf
    <3> QED
      BY <1>4, <2>1, <3>2 DEF TurnsInv, TurnInv
  <2> QED
    BY <1>1, <1>3, <1>4, <1>5, <2>1 DEF TurnsInv, TurnInv
<1>9. LapsInv'
  <2>1. ASSUME NEW m \in 0 .. Delivered - 1, KindAt(m) = "dir", Recent(TurnAt(m), RoundAt(m))'
        PROVE  PathAt(m) = DueAt(m)'
    <3> DEFINE r == TurnAt(m)
               k == RoundAt(m)
               len == Len(FilesOf(r))
    <3>1. DirAt(m) /\ r \in DOMAIN opt.parts /\ k \in Nat /\ k < Had(r)
      BY <1>5, <2>1 DEF TurnsInv, LapsInv
    <3>2. Recent(r, k)' <=> k \div len = (Made(r)' - 1) \div len
      BY <1>1, <1>4, <3>1 DEF Recent
    <3>3. CASE r # i \/ ~WalkSend(i)
      <4>1. Made(r)' = Made(r) /\ DueAt(m)' = DueAt(m)
        BY <1>4, <1>6, <3>1, <3>3 DEF DueAt
      <4>2. Recent(r, k)
        BY <2>1, <3>2, <4>1, <1>4 DEF Recent
      <4> QED
        BY <3>1, <4>1, <4>2 DEF DirAt
    <3>4. CASE r = i /\ WalkSend(i)
      <4>1. /\ len \in Nat \ {0} /\ Had(r) \in Nat /\ Made(r) = Had(r) /\ Made(r)' = Had(r) + 1
            /\ at[r] = Had(r) % len
        <5>1. LET n == Len(FilesOf(i)) IN
              /\ n \in Nat \ {0} /\ Had(i) \in Nat /\ Made(i) = Had(i) /\ Made(i)' = Had(i) + 1
              /\ at[i] = Had(i) % n
          BY <3>4, SentIsDue
        <5>2. r' = r
          BY <1>4
        <5> HIDE DEF r
        <5> QED
          BY <3>4, <5>1, <5>2 DEF len
      <4>2. Made(r)' - 1 = Had(r)
        BY <4>1
      <4>3. k \div len = Had(r) \div len
        BY <1>4, <2>1, <3>2, <4>2
      <4>4. at[r] # 0
        BY <3>1, <4>1, <4>3, QuotientBefore
      <4>5. readers'[r] = readers[r]
        BY <1>1, <3>1, <3>4, <4>4
      <4>6. DueAt(m)' = DueAt(m)
        BY <1>4, <4>5 DEF DueAt, Due, FilesOf
      <4>7. (Had(r) - 1) \div len = Had(r) \div len
        <5> DEFINE h == Had(r) - 1
        <5>1. h \in Nat /\ h + 1 = Had(r)
          BY <3>1, <4>1
        <5> HIDE DEF h
        <5>2. (h + 1) % len # 0
          BY <4>1, <4>4, <5>1
        <5>3. (h + 1) \div len = h \div len
          BY <4>1, <5>1, <5>2, NextTurn
        <5> QED
          BY <5>1, <5>3 DEF h
      <4>8. Recent(r, k)
        BY <4>1, <4>3, <4>7 DEF Recent
      <4> QED
        BY <3>1, <4>6, <4>8 DEF DirAt
    <3> QED
      BY <3>3, <3>4
  <2>2. ASSUME NEW m \in 0 .. Delivered - 1, KindAt(m) = "dir" PROVE DirAt(m)'
    <3>1. DirAt(m) /\ TurnAt(m) \in DOMAIN opt.parts
      BY <1>5, <2>2 DEF TurnsInv, LapsInv
    <3>2. FilesOf(TurnAt(m))' # <<>>
      <4>1. Len(FilesOf(TurnAt(m))) \in Nat \ {0}
        BY <3>1, DeliveredFacts DEF DirAt, TurnsInv
      <4>2. Len(readers'[TurnAt(m)].files) # 0
        BY <1>1, <3>1, <4>1 DEF FilesOf
      <4>3. readers'[TurnAt(m)].files # <<>>
        BY <4>2
      <4> QED
        BY <1>4, <4>3 DEF FilesOf
    <3>3. TurnAt(m)' = TurnAt(m) /\ PathAt(m)' = PathAt(m) /\ RoundAt(m)' = RoundAt(m) /\ LapOf(m)' = LapOf(m)
      BY <1>4, <1>5
    <3>4. \A l \in 0 .. Delivered - 1 :
             l # m /\ TurnAt(l)' = TurnAt(m)' /\ LapOf(l)' = LapOf(m)' => PathAt(l)' # PathAt(m)'
      BY <1>4, <1>5, <3>1, <3>3 DEF DirAt
    <3>5. FilesOf(TurnAt(m))' # <<>> /\ PathAt(m)' \in Visible(opt.parts[TurnAt(m)])'
      BY <1>1, <3>1, <3>2, <3>3 DEF DirAt
    <3> QED
      BY <1>3, <2>1, <2>2, <3>3, <3>4, <3>5 DEF DirAt
  <2> QED
    BY <1>3, <1>5, <2>2 DEF LapsInv
<1>10. ASSUME NEW r \in DOMAIN opt.parts PROVE PlaceIn(r)'
  <2>1. PlaceIn(r) /\ at[r] \in Nat /\ Len(FilesOf(r)) \in Nat /\ readers'[r].kind = readers[r].kind
    BY <1>1, <1>10, DeliveredFacts DEF TurnsInv, PlaceInv
  <2>2. CASE r # i
    BY <1>4, <1>6, <1>10, <2>1, <2>2 DEF PlaceIn
  <2>3. CASE r = i /\ WalkSend(i)
    <3>1. /\ Len(FilesOf(r)') = Len(FilesOf(r)) /\ at[r] < Len(FilesOf(r)) /\ at'[r] = at[r] + 1
          /\ Made(r)' = Had(r) + 1 /\ FilesOf(r)' # <<>>
          /\ ch'[r] # <<>> /\ ch'[r][1] = Due(r, Had(r))'
          /\ (at[r] + 1) % Len(FilesOf(r)) = (Had(r) + 1) % Len(FilesOf(r))
      BY <2>3, SentIsDue
    <3> QED
      BY <1>2, <1>4, <2>1, <2>3, <3>1 DEF PlaceIn
  <2>4. CASE r = i /\ ~WalkSend(i)
    <3> DEFINE len == Len(FilesOf(r))
    <3>1. FilesOf(r)' = FilesOf(r) /\ Made(r)' = Made(r) /\ ch'[r] = ch[r] /\ \A k : Due(r, k)' = Due(r, k)
      BY <1>6, <1>10, <2>4
    <3>2. at'[r] <= len /\ (FilesOf(r) # <<>> => at'[r] % len = at[r] % len)
      <4>1. at = [k \in DOMAIN opt.parts |-> at[k]] /\ at[r] <= len
        BY <1>2, <2>1, <2>4 DEF TurnsInv, UploadsInv, WalksInv, PlaceIn
      <4>2. at'[r] = at[r] \/ (at[r] = len /\ at'[r] = 0)
        BY <1>1, <1>10, <2>4, <4>1 DEF Walker, WalkEnd, WalkFails, FilesOf
      <4>3. FilesOf(r) # <<>> => len \in Nat \ {0}
        BY <1>10, DeliveredFacts DEF TurnsInv
      <4>4. len \in Nat \ {0} => 0 % len = len % len
        BY <2>1
      <4> QED
        BY <2>1, <4>1, <4>2, <4>3, <4>4
    <3> QED
      BY <1>2, <1>4, <2>1, <2>4, <3>1, <3>2 DEF PlaceIn
  <2> QED
    BY <2>2, <2>3, <2>4
<1> QED
  BY <1>1, <1>7, <1>8, <1>9, <1>10 DEF PlaceInv

LEMMA HandOverTurns ==
    ASSUME TurnsInv, HandOver, UNCHANGED opt
    PROVE  PathsInv' /\ TurnInv' /\ LapsInv' /\ PlaceInv'
<1>1. /\ deal = "send" /\ deal' = "sent" /\ sent' = Append(sent, value)
      /\ UNCHANGED <<readers, current, at, ch, uvs, value>>
  BY DEF HandOver, readVars, walkVars
<1>2. sent \in Seq(Nat)
  BY DEF TurnsInv, UploadsInv, CacheInv
<1>3. /\ Len(sent') = Len(sent) + 1 /\ sent'[Len(sent) + 1] = value
      /\ Len(sent) \in Nat /\ \A i \in 1 .. Len(sent) : sent'[i] = sent[i]
  BY <1>1, <1>2, AppendMore
<1>4. Delivered' = Delivered /\ Delivered = Len(sent) + 1
  BY <1>1, <1>3 DEF Delivered
<1>5. ASSUME NEW m \in 0 .. Delivered - 1 PROVE PathAt(m)' = PathAt(m)
  <2>1. CASE m < Len(sent)
    BY <1>1, <1>3, <1>4, <2>1 DEF PathAt
  <2>2. CASE m = Len(sent)
    BY <1>1, <1>3, <2>2 DEF PathAt
  <2> QED
    BY <1>3, <1>4, <2>1, <2>2
<1> QED
  BY <1>1, <1>4, <1>5, SameTurns

LEMMA TurnsStep == TurnsInv /\ [Next]_vars => TurnsInv'
<1> SUFFICES ASSUME TurnsInv, [Next]_vars PROVE PathsInv' /\ TurnInv' /\ LapsInv' /\ PlaceInv'
  BY UploadsStep DEF TurnsInv
<1>1. UploadsInv'
  BY UploadsStep DEF TurnsInv
<1>2. CASE UNCHANGED <<opt, readVars, deal, value, sent>> \/ (DealNext /\ UNCHANGED opt)
  <2>1. /\ UNCHANGED <<opt, readers, at, ch, uvs, current, value, sent>>
        /\ deal' = deal \/ (deal = "sent" /\ deal' \in {"closed", "read"})
    BY <1>2 DEF DealNext, readVars, walkVars
  <2>2. Delivered' = Delivered /\ \A m : PathAt(m)' = PathAt(m)
    BY <2>1 DEF Delivered, PathAt
  <2> QED
    BY <2>1, <2>2, SameTurns
<1> QED
  BY <1>1, <1>2, UploadSteps, ReadTurns, HandOverTurns, WalkTurns

LEMMA TurnsInit == Init => TurnsInv
<1> SUFFICES ASSUME Init PROVE PathsInv /\ TurnInv /\ LapsInv /\ PlaceInv
  BY UploadsInit DEF TurnsInv
<1>1. UploadsInv
  BY UploadsInit
<1>2. /\ current = 1 /\ uvs = <<>> /\ sent = <<>> /\ deal = (IF Uploads THEN "read" ELSE "off")
      /\ at = [r \in DOMAIN opt.parts |-> 0] /\ ch = [r \in DOMAIN opt.parts |-> <<>>]
  BY DEF Init, UploadInit
<1>3. Len(uvs) = 0 /\ Len(sent) = 0 /\ Delivered = 0
  BY <1>2 DEF Delivered
<1>4. PathsInv
  BY <1>3 DEF PathsInv
<1>5. TurnInv /\ LapsInv
  <2>1. Len(readers) \in Nat \ {0} => 0 % Len(readers) = 0
    OBVIOUS
  <2>2. deal = "off" => opt.parts = <<>>
    BY <1>2 DEF Uploads
  <2>3. 0 .. Delivered - 1 = {}
    BY <1>3
  <2> QED
    BY <1>1, <1>2, <1>3, <2>1, <2>2, <2>3, DeliveredFacts DEF TurnInv, TurnAt, LapsInv
<1>6. PlaceInv
  <2>1. ASSUME NEW r \in DOMAIN opt.parts PROVE PlaceIn(r)
    <3>1. r \in 1 .. Len(readers) /\ Len(readers) \in Nat \ {0}
      BY <1>1, <2>1, DeliveredFacts
    <3>2. 0 % Len(readers) = 0 /\ 0 \div Len(readers) = 0
      BY <3>1
    <3>3. Had(r) = 0
      BY <1>3, <3>1, <3>2 DEF Had, Turns
    <3>4. Len(FilesOf(r)) \in Nat
      BY <1>1, <2>1, DeliveredFacts
    <3> QED
      BY <1>2, <2>1, <3>3, <3>4 DEF PlaceIn, Made, Ahead
  <2> QED
    BY <2>1 DEF PlaceInv
<1> QED
  BY <1>4, <1>5, <1>6

\* What was handed over, by the terms of the property.
LEMMA SentFacts ==
    ASSUME TurnsInv, NEW i \in DOMAIN sent
    PROVE  /\ i - 1 \in 0 .. Delivered - 1 /\ i - 1 < Len(sent) /\ i \in Nat
           /\ Turn(i) = TurnAt(i - 1) /\ Round(i) = RoundAt(i - 1) /\ SentPath(i) = PathAt(i - 1)
<1>0. UploadsInv /\ sent \in Seq(Nat)
  BY DEF TurnsInv, UploadsInv, CacheInv
<1>1. i \in 1 .. Len(sent) /\ Len(sent) \in Nat /\ Delivered \in Nat /\ Len(sent) <= Delivered
  BY <1>0, DeliveredFacts
<1>2. i - 1 \in 0 .. Delivered - 1 /\ i - 1 < Len(sent) /\ (i - 1) + 1 = i
  BY <1>1
<1> QED
  BY <1>1, <1>2 DEF Turn, Round, SentPath, TurnAt, RoundAt, PathAt

\* Whichever workers take the values and in whatever order the walks go on, the i-th value
\* that is handed over is the one that was due: the readers have their turns one after the
\* other, and each gives its files in order, over and over; a directory gives all of them
\* before it gives one again.
THEOREM UploadsTakenInTurn == Spec => []UploadsInTurn
<1>1. TurnsInv => UploadsInTurn
  <2> SUFFICES ASSUME TurnsInv, NEW i \in DOMAIN sent
               PROVE  IF KindAt(i - 1) = "dir"
                      THEN /\ SentPath(i) \in Visible(opt.parts[Turn(i)])
                           /\ \A j \in DOMAIN sent :
                                 /\ i # j /\ Turn(i) = Turn(j)
                                 /\ Round(i) \div Len(FilesOf(Turn(i))) = Round(j) \div Len(FilesOf(Turn(i)))
                                 => SentPath(i) # SentPath(j)
                      ELSE SentPath(i) = DueAt(i - 1)
    BY SentFacts DEF UploadsInTurn, DueAt, Due, FilesOf, KindAt
  <2>1. CASE KindAt(i - 1) = "dir"
    <3>1. DirAt(i - 1) /\ SentPath(i) = PathAt(i - 1) /\ Turn(i) = TurnAt(i - 1) /\ Round(i) = RoundAt(i - 1)
          /\ i \in Nat
      BY <2>1, SentFacts DEF TurnsInv, LapsInv
    <3>2. ASSUME NEW j \in DOMAIN sent, i # j, Turn(i) = Turn(j),
                 Round(i) \div Len(FilesOf(Turn(i))) = Round(j) \div Len(FilesOf(Turn(i)))
          PROVE  SentPath(i) # SentPath(j)
      <4>1. /\ j - 1 \in 0 .. Delivered - 1 /\ j \in Nat /\ SentPath(j) = PathAt(j - 1)
            /\ Turn(j) = TurnAt(j - 1) /\ Round(j) = RoundAt(j - 1)
        BY <3>2, SentFacts
      <4>2. i - 1 # j - 1
        BY <3>1, <3>2, <4>1
      <4>3. LapOf(j - 1) = LapOf(i - 1)
        BY <3>1, <3>2, <4>1 DEF LapOf
      <4> QED
        BY <3>1, <3>2, <4>1, <4>2, <4>3 DEF DirAt
    <3> QED
      BY <2>1, <3>1, <3>2 DEF DirAt
  <2>2. CASE KindAt(i - 1) # "dir"
    BY <2>2, SentFacts DEF TurnsInv, TurnInv
  <2> QED
    BY <2>1, <2>2
<1> QED
  BY <1>1, TurnsInit, TurnsStep, PTL DEF Spec

(***************************************************************************)
(* SolePatternWhole                                                        *)
(***************************************************************************)
Globs == {r \in DOMAIN opt.parts : readers[r].kind = "glob"}

\* The files of a pattern are through.
GlobDone == \E r \in Globs : FilesOf(r) # <<>> /\ at[r] = Len(FilesOf(r))

\* The mark of UPLOAD_EXIT is on the value that is read when the files of a pattern are
\* through, on no other, and nothing is read after it.
ExitInv ==
    opt.exit =>
       /\ \A r \in Globs : at[r] <= Len(FilesOf(r))
       /\ \A v \in 1 .. Len(uvs) : uvs[v].exit => GlobDone
       /\ deal = "read" => ~GlobDone
       /\ deal \in {"send", "sent"} /\ GlobDone => uvs[value].exit
       /\ deal = "closed" => GlobDone

ExitsInv == TurnsInv /\ ExitInv

LEMMA ExitRead ==
    ASSUME ExitsInv, opt.exit, UNCHANGED opt, deal = "read", NEW path, NEW last, Deliver(path, last), Gives(path, last),
           Reader.kind # "rand" => path \in Files
    PROVE  ExitInv'
<1>1. /\ UNCHANGED <<readers, sent>> /\ deal' = "send" /\ Globs' = Globs /\ current \in DOMAIN opt.parts
      /\ \A r : FilesOf(r)' = FilesOf(r)
  BY DeliveredFacts DEF Deliver, Globs, FilesOf, ExitsInv, TurnsInv
<1>2. Key(path) \in Keys /\ last \in BOOLEAN
  BY KeyIsKey DEF ExitsInv, TurnsInv, UploadsInv, Gives
<1>3. IF Reader.kind = "rand" THEN Reader.type \in Rands /\ path = NoFile ELSE path \in Files
  BY <1>1 DEF Gives, ExitsInv, TurnsInv, UploadsInv, ReadersInv, Reader
<1>4. /\ value' \in 1 .. Len(uvs')
      /\ \A v \in 1 .. Len(uvs') : v # value' => v \in 1 .. Len(uvs) /\ uvs'[v].exit = uvs[v].exit
      /\ uvs'[value'].exit <=> last \/ (value' \in 1 .. Len(uvs) /\ uvs[value'].exit)
  BY <1>2, <1>3, DeliverValue DEF ExitsInv, TurnsInv
<1>5. ~GlobDone /\ \A v \in 1 .. Len(uvs) : ~uvs[v].exit
  BY DEF ExitsInv, ExitInv
<1>6. (uvs'[value'].exit <=> last) /\ \A v \in 1 .. Len(uvs') : uvs'[v].exit => last
  BY <1>4, <1>5
<1>7. \A r \in Globs : at[r] <= Len(FilesOf(r)) /\ at[r] \in Nat /\ Len(FilesOf(r)) \in Nat
  BY DeliveredFacts DEF ExitsInv, ExitInv, TurnsInv, Globs
<1>8. (\A r \in Globs : at'[r] <= Len(FilesOf(r))) /\ (last <=> GlobDone')
  <2>1. CASE Reader.kind = "glob"
    <3>1. /\ FilesOf(current) # <<>> /\ (last <=> at[current] = Len(FilesOf(current)) - 1)
          /\ at' = [at EXCEPT ![current] = @ + 1]
      BY <2>1 DEF Gives, Reader, FilesOf
    <3>2. current \in Globs
      BY <1>1, <2>1 DEF Globs, Reader
    <3>3. at'[current] = at[current] + 1 /\ \A r \in Globs : r # current => at'[r] = at[r]
      BY <1>1, <3>1, <3>2 DEF ExitsInv, TurnsInv, UploadsInv, WalksInv, Globs
    <3>4. at[current] # Len(FilesOf(current))
      BY <1>5, <3>1, <3>2 DEF GlobDone
    <3>5. \A r \in Globs : at'[r] <= Len(FilesOf(r))
      BY <1>7, <3>2, <3>3, <3>4
    <3>6. last => GlobDone'
      BY <1>1, <1>7, <3>1, <3>2, <3>3 DEF GlobDone
    <3>7. ASSUME GlobDone' PROVE last
      <4>1. PICK r \in Globs : FilesOf(r) # <<>> /\ at'[r] = Len(FilesOf(r))
        BY <1>1, <3>7 DEF GlobDone
      <4>2. r = current
        BY <1>5, <3>3, <4>1 DEF GlobDone
      <4> QED
        BY <1>7, <3>1, <3>2, <3>3, <4>1, <4>2
    <3> QED
      BY <3>5, <3>6, <3>7
  <2>2. CASE Reader.kind # "glob"
    <3>1. at' = at /\ last = FALSE
      BY <2>2 DEF Gives, walkVars
    <3> QED
      BY <1>1, <1>5, <1>7, <3>1 DEF GlobDone
  <2> QED
    BY <2>1, <2>2
<1> QED
  BY <1>1, <1>6, <1>8 DEF ExitInv

LEMMA ExitStep == ExitsInv /\ [Next]_vars => ExitInv'
<1> SUFFICES ASSUME ExitsInv, [Next]_vars, opt'.exit PROVE ExitInv'
  BY DEF ExitInv
<1>1. UploadsInv
  BY DEF ExitsInv, TurnsInv
<1>2. CASE UNCHANGED <<opt, readVars, deal, value, sent>>
  BY <1>2 DEF ExitsInv, ExitInv, Globs, GlobDone, FilesOf, readVars, walkVars
<1>3. CASE DealNext /\ UNCHANGED opt
  <2>1. /\ deal = "sent" /\ deal' = (IF uvs[value].exit THEN "closed" ELSE "read")
        /\ UNCHANGED <<readers, at, uvs, value, sent>>
    BY <1>3 DEF DealNext, readVars, walkVars
  <2>2. (GlobDone' <=> GlobDone) /\ Globs' = Globs /\ \A r : FilesOf(r)' = FilesOf(r)
    BY <1>3, <2>1 DEF GlobDone, Globs, FilesOf
  <2>3. value \in 1 .. Len(uvs)
    BY <1>1, <2>1 DEF UploadsInv, CacheInv
  <2> QED
    BY <1>3, <2>1, <2>2, <2>3 DEF ExitsInv, ExitInv
<1>4. CASE HandOver /\ UNCHANGED opt
  <2>1. deal = "send" /\ deal' = "sent" /\ UNCHANGED <<readers, at, uvs, value>>
    BY <1>4 DEF HandOver, readVars, walkVars
  <2> QED
    BY <1>4, <2>1 DEF ExitsInv, ExitInv, Globs, GlobDone, FilesOf
<1>5. CASE Read /\ UNCHANGED opt
  <2>1. CASE UNCHANGED uploadVars
    BY <1>5, <2>1 DEF ExitsInv, ExitInv, Globs, GlobDone, FilesOf, uploadVars, readVars, walkVars
  <2> QED
    BY <1>1, <1>5, <2>1, ReadKinds, ExitRead
<1>6. ASSUME NEW i \in 1 .. MaxParts, Walking(i) PROVE ExitInv'
  <2>1. /\ UNCHANGED <<opt, current, uvs, deal, value, sent>> /\ i \in DOMAIN opt.parts /\ Walker(i)
        /\ \A r \in DOMAIN opt.parts :
              /\ readers'[r].kind = readers[r].kind
              /\ readers[r].kind = "glob" => readers'[r] = readers[r]
    BY <1>1, <1>6, WalkReaders DEF Walking
  <2>2. i \notin Globs
    BY <2>1 DEF Walker, WalkSend, WalkEnd, WalkFails, Walks, Globs
  <2>3. at = [k \in DOMAIN opt.parts |-> at[k]]
    BY <1>1 DEF UploadsInv, WalksInv
  <2>4. \A r \in Globs : at'[r] = at[r]
    BY <2>1, <2>2, <2>3 DEF Walker, WalkSend, WalkEnd, WalkFails, Globs
  <2>5. Globs' = Globs /\ \A r \in Globs : FilesOf(r)' = FilesOf(r)
    BY <2>1 DEF Globs, FilesOf
  <2>6. GlobDone' <=> GlobDone
    BY <2>4, <2>5 DEF GlobDone
  <2> QED
    BY <2>1, <2>4, <2>5, <2>6 DEF ExitsInv, ExitInv
<1> QED
  BY <1>2, <1>3, <1>4, <1>5, <1>6, UploadSteps

\* With UPLOAD_EXIT nobody is given a file of a pattern a second time, whatever the workers
\* and the other readers do, and if the pattern is the only one, all of its files were given
\* when the channel is closed: through the cache, and for any number of files and parts.
THEOREM SolePatternUploaded == Spec => []SolePatternWhole
<1>1. Init => ExitsInv
  <2> SUFFICES ASSUME Init PROVE ExitInv
    BY TurnsInit DEF ExitsInv
  <2>1. UploadsInv
    BY UploadsInit
  <2>2. /\ uvs = <<>> /\ deal \in {"read", "off"} /\ at = [r \in DOMAIN opt.parts |-> 0]
    BY DEF Init, UploadInit
  <2>3. Len(uvs) = 0
    BY <2>2
  <2>4. \A r \in Globs : at[r] = 0 /\ Len(FilesOf(r)) \in Nat /\ (FilesOf(r) # <<>> => Len(FilesOf(r)) > 0)
    BY <2>1, <2>2, DeliveredFacts DEF Globs
  <2> QED
    BY <2>2, <2>3, <2>4 DEF ExitInv, GlobDone
<1>2. ExitsInv /\ [Next]_vars => ExitsInv'
  BY TurnsStep, ExitStep DEF ExitsInv
<1>3. ExitsInv => SolePatternWhole
  <2>0. ExitsInv => Patterns = Globs
    BY DEF Patterns, Globs, ExitsInv, TurnsInv, UploadsInv, ReadersInv
  <2> SUFFICES ASSUME ExitsInv, opt.exit, NEW r \in Globs
               PROVE  /\ \A i, j \in DOMAIN sent : Turn(i) = r /\ Turn(j) = r /\ i # j => SentPath(i) # SentPath(j)
                      /\ deal = "closed" /\ Globs = {r} =>
                            \A f \in Visible(opt.parts[r]) : \E i \in DOMAIN sent : Turn(i) = r /\ SentPath(i) = f
    BY <2>0 DEF SolePatternWhole
  <2> DEFINE len == Len(FilesOf(r))
  <2>1. TurnsInv /\ UploadsInv
    BY DEF ExitsInv, TurnsInv
  <2>2. /\ r \in DOMAIN opt.parts /\ r \in 1 .. Len(readers) /\ Len(readers) \in Nat \ {0} /\ readers[r].kind = "glob"
        /\ Delivered \in Nat /\ Len(sent) \in Nat /\ len \in Nat /\ DOMAIN sent = 1 .. Len(sent)
    <3>1. r \in DOMAIN opt.parts /\ readers[r].kind = "glob" /\ sent \in Seq(Nat)
      BY <2>1 DEF Globs, UploadsInv, CacheInv
    <3>2. /\ Delivered \in Nat /\ len \in Nat /\ r \in 1 .. Len(readers) /\ Len(readers) \in Nat
      BY <2>1, <3>1, DeliveredFacts
    <3> HIDE DEF len
    <3>3. Len(readers) # 0
      BY <3>2
    <3> QED
      BY <3>1, <3>2, <3>3
  <2>3. at[r] = Turns(Delivered, r) /\ at[r] <= len /\ Turns(Delivered, r) \in Nat
    BY <2>2, TurnsNext DEF ExitsInv, ExitInv, TurnsInv, PlaceInv, PlaceIn, Had
  <2>4. ASSUME NEW i \in DOMAIN sent, Turn(i) = r
        PROVE  i \in Nat /\ Round(i) \in 0 .. len - 1 /\ SentPath(i) = FilesOf(r)[Round(i) + 1]
    <3>1. /\ i - 1 \in 0 .. Delivered - 1 /\ i \in Nat
          /\ Turn(i) = TurnAt(i - 1) /\ Round(i) = RoundAt(i - 1) /\ SentPath(i) = PathAt(i - 1)
      BY <2>1, <2>4, SentFacts
    <3>2. RoundAt(i - 1) \in Nat /\ RoundAt(i - 1) < Turns(Delivered, r)
      BY <2>2, <2>4, <3>1, TurnsBefore
    <3>3. PathAt(i - 1) = DueAt(i - 1)
      BY <2>1, <2>2, <2>4, <3>1 DEF TurnsInv, TurnInv, KindAt
    <3>4. Round(i) \in 0 .. len - 1
      BY <2>2, <2>3, <3>1, <3>2
    <3>5. Round(i) % len = Round(i)
      <4>1. PICK k \in 0 .. len - 1 : k = Round(i)
        BY <3>4
      <4> HIDE DEF len
      <4>2. len \in Nat \ {0} /\ k = len * 0 + k
        BY <2>2
      <4>3. k % len = k
        BY <4>2, DivisionUnique
      <4> QED
        BY <4>1, <4>3
    <3> QED
      BY <2>2, <2>4, <3>1, <3>3, <3>4, <3>5 DEF DueAt, Due
  <2>5. ASSUME NEW i \in DOMAIN sent, NEW j \in DOMAIN sent, Turn(i) = r, Turn(j) = r, i # j
        PROVE  SentPath(i) # SentPath(j)
    <3>1. /\ i \in Nat /\ Round(i) \in 0 .. len - 1 /\ SentPath(i) = FilesOf(r)[Round(i) + 1]
          /\ j \in Nat /\ Round(j) \in 0 .. len - 1 /\ SentPath(j) = FilesOf(r)[Round(j) + 1]
      BY <2>4, <2>5
    <3>2. Round(i) # Round(j)
      <4>1. i - 1 \in Nat /\ j - 1 \in Nat /\ i - 1 # j - 1
        BY <2>2, <2>5
      <4>2. (i - 1) % Len(readers) = (j - 1) % Len(readers)
        <5>1. (i - 1) % Len(readers) \in Nat /\ (j - 1) % Len(readers) \in Nat
          BY <2>2, <4>1
        <5> QED
          BY <2>5, <5>1 DEF Turn
      <4> QED
        BY <2>2, <4>1, <4>2, SameNumber DEF Round
    <3>3. \A x, y \in 1 .. len : FilesOf(r)[x] = FilesOf(r)[y] => x = y
      BY <2>1, <2>2, OnceListed
    <3> HIDE DEF len
    <3>4. Round(i) + 1 \in 1 .. len /\ Round(j) + 1 \in 1 .. len /\ Round(i) + 1 # Round(j) + 1
      BY <2>2, <3>1, <3>2
    <3> QED
      BY <3>1, <3>3, <3>4
  <2>6. ASSUME deal = "closed", Globs = {r}, NEW f \in Visible(opt.parts[r])
        PROVE  \E i \in DOMAIN sent : Turn(i) = r /\ SentPath(i) = f
    <3>1. at[r] = len /\ Delivered = Len(sent)
      BY <2>6 DEF ExitsInv, ExitInv, GlobDone, Delivered
    <3>2. PICK x \in 1 .. len : FilesOf(r)[x] = f
      BY <2>1, <2>2, <2>6, OnceListed
    <3>3. PICK m \in 0 .. Len(sent) - 1 : TurnAt(m) = r /\ RoundAt(m) = x - 1
      <4>1. Turns(Len(sent), r) = len
        BY <2>3, <3>1, Zenon
      <4>2. len \in Nat
        BY <2>2
      <4> HIDE DEF len
      <4>3. x - 1 \in Nat /\ x - 1 < len
        BY <4>2
      <4> QED
        BY <2>2, <4>1, <4>3, TurnTaken, ZenonT(40)
    <3>4. m + 1 \in DOMAIN sent /\ (m + 1) - 1 = m
      BY <2>2
    <3>5. Turn(m + 1) = r /\ Round(m + 1) = x - 1
      BY <3>3, <3>4 DEF Turn, Round, TurnAt, RoundAt
    <3>6. SentPath(m + 1) = FilesOf(r)[(x - 1) + 1] /\ (x - 1) + 1 = x
      BY <2>2, <2>4, <3>4, <3>5
    <3> QED
      BY <3>2, <3>4, <3>5, <3>6
  <2> QED
    BY <2>5, <2>6
<1> QED
  BY <1>1, <1>2, <1>3, PTL DEF Spec

(***************************************************************************)
(* TypeOK                                                                  *)
(***************************************************************************)
Labels == {"idle", "profile", "setReq", "setBody", "field", "ask", "dial", "answer", "process",
           "printResp", "log", "swapRead", "swapWrite", "return", "ended"}

Bodies == {"none", "stream", "upload", "bytes", "string", "line", "pipe", "part", "file"}

CallType == [pc : Labels, todo : Seq(ProfileRecords), plain : BOOLEAN, body : Bodies, item : Nat, ask : Nat,
             code : Nat, outcome : {"ok", "error", "EOF"}, sampled : BOOLEAN, detail : BOOLEAN,
             bytes : [Ways -> SUBSET Nat]]

Calls == job \in [Callers -> CallType]

LEMMA CallGoto ==
    ASSUME Calls, NEW w \in Callers, NEW l \in Labels, Goto(w, l)
    PROVE  Calls'
BY DEF Calls, CallType, Goto

LEMMA CallLeave ==
    ASSUME Calls, NEW w \in Callers, NEW why \in {"ok", "error", "EOF"}, Leave(w, why)
    PROVE  Calls'
<1> DEFINE r == [job[w] EXCEPT !.outcome = why, !.pc = "return"]
<1>1. r \in CallType
  BY ZenonT(40) DEF Calls, CallType, Labels, Bodies
<1>2. job' = [job EXCEPT ![w] = r]
  BY DEF Calls, Leave
<1> QED
  BY <1>1, <1>2 DEF Calls

LEMMA CallError ==
    ASSUME Calls, NEW w \in Callers, NEW l \in Labels, job' = [job EXCEPT ![w].outcome = "error", ![w].pc = l]
    PROVE  Calls'
<1> DEFINE r == [job[w] EXCEPT !.outcome = "error", !.pc = l]
<1>1. r \in CallType
  BY ZenonT(40) DEF Calls, CallType, Labels, Bodies
<1>2. job' = [job EXCEPT ![w] = r]
  BY DEF Calls
<1> QED
  BY <1>1, <1>2 DEF Calls

LEMMA CallBody ==
    ASSUME Calls, NEW w \in Callers, NEW kind \in Bodies, NEW l \in Labels, job' = [job EXCEPT ![w].body = kind, ![w].pc = l]
    PROVE  Calls'
<1> DEFINE r == [job[w] EXCEPT !.body = kind, !.pc = l]
<1>1. r \in CallType
  BY ZenonT(40) DEF Calls, CallType, Labels, Bodies
<1>2. job' = [job EXCEPT ![w] = r]
  BY DEF Calls
<1> QED
  BY <1>1, <1>2 DEF Calls

LEMMA CallItem ==
    ASSUME Calls, NEW w \in Callers, NEW x \in Nat, job' = [job EXCEPT ![w].body = "upload", ![w].item = x, ![w].pc = "field"]
    PROVE  Calls'
<1> DEFINE r == [job[w] EXCEPT !.body = "upload", !.item = x, !.pc = "field"]
<1>1. r \in CallType
  BY ZenonT(40) DEF Calls, CallType, Labels, Bodies
<1>2. job' = [job EXCEPT ![w] = r]
  BY DEF Calls
<1> QED
  BY <1>1, <1>2 DEF Calls

LEMMA CallTodo ==
    ASSUME Calls, NEW w \in Callers, NEW x \in Seq(ProfileRecords), job' = [job EXCEPT ![w].todo = x, ![w].pc = "profile"]
    PROVE  Calls'
<1> DEFINE r == [job[w] EXCEPT !.todo = x, !.pc = "profile"]
<1>1. r \in CallType
  BY ZenonT(40) DEF Calls, CallType, Labels, Bodies
<1>2. job' = [job EXCEPT ![w] = r]
  BY DEF Calls
<1> QED
  BY <1>1, <1>2 DEF Calls

LEMMA CallAsk ==
    ASSUME Calls, NEW w \in Callers, NEW x \in Nat, job' = [job EXCEPT ![w].ask = x, ![w].pc = "dial"]
    PROVE  Calls'
<1> DEFINE r == [job[w] EXCEPT !.ask = x, !.pc = "dial"]
<1>1. r \in CallType
  BY ZenonT(40) DEF Calls, CallType, Labels, Bodies
<1>2. job' = [job EXCEPT ![w] = r]
  BY DEF Calls
<1> QED
  BY <1>1, <1>2 DEF Calls

LEMMA CallCode ==
    ASSUME Calls, NEW w \in Callers, NEW x \in Nat, job' = [job EXCEPT ![w].code = x, ![w].pc = "process"]
    PROVE  Calls'
<1> DEFINE r == [job[w] EXCEPT !.code = x, !.pc = "process"]
<1>1. r \in CallType
  BY ZenonT(40) DEF Calls, CallType, Labels, Bodies
<1>2. job' = [job EXCEPT ![w] = r]
  BY DEF Calls
<1> QED
  BY <1>1, <1>2 DEF Calls

LEMMA CallSampled ==
    ASSUME Calls, NEW w \in Callers, NEW x \in BOOLEAN, NEW y \in BOOLEAN, 
           job' = [job EXCEPT ![w].sampled = x, ![w].pc = "printResp", ![w].detail = y]
    PROVE  Calls'
<1> DEFINE r == [job[w] EXCEPT !.sampled = x, !.pc = "printResp", !.detail = y]
<1>1. r \in CallType
  BY ZenonT(40) DEF Calls, CallType, Labels, Bodies
<1>2. job' = [job EXCEPT ![w] = r]
  BY DEF Calls
<1> QED
  BY <1>1, <1>2 DEF Calls

LEMMA CallBytes ==
    ASSUME Calls, NEW w \in Callers, NEW b \in [Ways -> SUBSET Nat], NEW l \in Labels, 
           job' = [job EXCEPT ![w].bytes = b, ![w].pc = l]
    PROVE  Calls'
<1> DEFINE r == [job[w] EXCEPT !.bytes = b, !.pc = l]
<1>1. r \in CallType
  BY ZenonT(40) DEF Calls, CallType, Labels, Bodies
<1>2. job' = [job EXCEPT ![w] = r]
  BY DEF Calls
<1> QED
  BY <1>1, <1>2 DEF Calls

LEMMA CallOnward ==
    ASSUME Calls, NEW w \in Callers, job[w].plain \/ job[w].todo # <<>>, job' = [job EXCEPT ![w] = Onward(w)]
    PROVE  Calls'
<1>1. job[w] \in CallType
  BY DEF Calls
<1>2. ~job[w].plain => Tail(job[w].todo) \in Seq(ProfileRecords)
  BY <1>1 DEF CallType
<1>3. Onward(w) \in CallType
  BY <1>1, <1>2, ZenonT(40) DEF CallType, Onward, Labels
<1> QED
  BY <1>3 DEF Calls

LEMMA CallEnd ==
    ASSUME Calls, NEW w \in Callers, NEW l \in Labels, job' = [job EXCEPT ![w] = [NoJob EXCEPT !.pc = l]]
    PROVE  Calls'
<1>1. NoJob \in CallType
  <2>1. <<>> \in Seq(ProfileRecords) /\ NoBytes \in [Ways -> SUBSET Nat]
    BY DEF NoBytes
  <2> QED
    BY <2>1 DEF CallType, NoJob, Labels, Bodies, NoBytes
<1>2. [NoJob EXCEPT !.pc = l] \in CallType
  BY <1>1 DEF CallType
<1> QED
  BY <1>2 DEF Calls

\* What the proof of TypeOK takes from the other invariants.
CallsInv == Shape /\ AsksInv /\ BytesInv /\ PlainInv /\ InitInv /\ TurnsInv

LEMMA BodyKinds ==
    ASSUME Calls, PlainInv, InitInv, CacheInv, NEW w \in Callers, SetBody(w)
    PROVE  Calls'
<1>1. CASE SetBodyStream(w)
  BY <1>1, CallBody, CallLeave DEF SetBodyStream, HasBody, Bodies, Labels
<1>2. CASE SetBodyUpload(w)
  <2>1. CASE HandOver
    <3>1. value \in Nat /\ job' = [job EXCEPT ![w].body = "upload", ![w].item = value, ![w].pc = "field"]
      BY <1>2, <2>1, SMTT(40) DEF SetBodyUpload, HandOver, CacheInv
    <3> QED
      BY <3>1, CallItem
  <2>2. CASE Leave(w, "EOF")
    BY <2>2, CallLeave
  <2> QED
    BY <1>2, <2>1, <2>2 DEF SetBodyUpload
<1>3. CASE SetBodyBytes(w)
  BY <1>3, CallBody DEF SetBodyBytes, HasBody, Bodies, Labels
<1>4. CASE SetBodyLine(w)
  BY <1>4, CallBody, CallLeave DEF SetBodyLine, HasBody, Bodies, Labels
<1>5. CASE SetBodyRest(w)
  <2>1. PICK f \in Setups : opt = NewInvoker(f)
    BY DEF PlainInv
  <2>2. opt.pieBody \in Bodies
    BY <2>1, OptFacts DEF Build, Bodies
  <2> QED
    BY <1>5, <2>2, CallBody DEF SetBodyRest, HasBody, Labels
<1> QED
  BY <1>1, <1>2, <1>3, <1>4, <1>5 DEF SetBody

LEMMA CallsRequest ==
    ASSUME Calls, CallsInv, NEW w \in Callers, Request(w)
    PROVE  Calls'
<1>1. CASE RunBegin(w)
  <2> DEFINE r == [NoJob EXCEPT !.todo = profiles, !.plain = (profiles = <<>>),
                                !.pc = IF profiles = <<>> THEN "setReq" ELSE "profile"]
  <2>1. profiles \in Seq(ProfileRecords) /\ NoBytes \in [Ways -> SUBSET Nat]
    BY DEF CallsInv, InitInv, NoBytes
  <2>2. r \in CallType
    BY <2>1 DEF CallType, NoJob, Labels, Bodies, NoBytes
  <2>3. job' = [job EXCEPT ![w] = r]
    BY <1>1 DEF RunBegin
  <2> QED
    BY <2>2, <2>3 DEF Calls
<1>2. CASE SetReq(w)
  <2>1. UNCHANGED job \/ Goto(w, "setBody")
    BY <1>2 DEF SetReq
  <2> QED
    BY <2>1, CallGoto DEF Calls, Labels
<1>3. CASE SetBody(w)
  BY <1>3, BodyKinds DEF CallsInv, TurnsInv, UploadsInv
<1>4. CASE SetField(w)
  BY <1>4, CallGoto DEF SetField, NewReaderFails, Calls, Labels
<1>5. CASE NextProfile(w)
  <2>1. Goto(w, "swapRead") \/ \E kind \in {"file", "none"} : HasBody(w, kind)
    BY <1>5 DEF NextProfile, HasBody
  <2> QED
    BY <2>1, CallGoto, CallBody DEF HasBody, Labels, Bodies
<1>6. CASE NextProfileFails(w)
  BY <1>6 DEF NextProfileFails, Calls
<1>7. CASE Ask(w)
  <2>1. asks + 1 \in Nat /\ job' = [job EXCEPT ![w].ask = asks + 1, ![w].pc = "dial"]
    BY <1>7 DEF Ask, CallsInv, AsksInv
  <2> QED
    BY <2>1, CallAsk
<1>8. CASE Connect(w) \/ Write(w) \/ Answer(w)
  <2>1. \/ UNCHANGED job \/ Goto(w, "answer") \/ Fail(w)
        \/ \E code \in Codes : job' = [job EXCEPT ![w].code = code, ![w].pc = "process"]
    BY <1>8 DEF Connect, Write, Answer
  <2>2. UNCHANGED job => Calls'
    BY DEF Calls
  <2>3. Goto(w, "answer") \/ Fail(w) => Calls'
    BY CallGoto, CallError DEF Fail, Labels
  <2>4. Codes \subseteq Nat
    BY DEF Codes
  <2> QED
    BY <2>1, <2>2, <2>3, <2>4, CallCode
<1>9. CASE WriteChunk(w)
  BY <1>9, ZenonT(40) DEF WriteChunk, Calls, CallType, Bodies
<1>10. CASE Discard(w) \/ Log(w)
  <2>1. job[w].plain \/ job[w].todo # <<>>
    <3>1. job[w].pc \in {"process", "log"}
      BY <1>10 DEF Discard, Log, At
    <3> QED
      BY <3>1 DEF CallsInv, InitInv, ListInv, Asking
  <2>2. Goto(w, "swapRead") \/ job' = [job EXCEPT ![w] = Onward(w)]
    BY <1>10 DEF Discard, Log
  <2> QED
    BY <2>1, <2>2, CallGoto, CallOnward DEF Labels
<1>11. CASE PrintReq(w)
  <2>1. PICK s \in BOOLEAN :
           job' = [job EXCEPT ![w].sampled = s, ![w].pc = "printResp",
                              ![w].detail = s /\ opt.logf /\ LogStatus(job[w].code)]
    BY <1>11 DEF PrintReq, Sampling
  <2>2. (s /\ opt.logf /\ LogStatus(job[w].code)) \in BOOLEAN
    OBVIOUS
  <2> QED
    BY <2>1, <2>2, CallSampled
<1>12. CASE PrintResp(w)
  BY <1>12, CallGoto, CallError DEF PrintResp, PrintRespFails, Labels
<1>13. CASE UpdateThroughput(w)
  <2>1. PICK d \in Ways : Swap(w, d)
    BY <1>13 DEF UpdateThroughput, Ways
  <2>2. [job[w].bytes EXCEPT ![d] = counter[d]] \in [Ways -> SUBSET Nat]
    BY DEF CallsInv, BytesInv, BytesType
  <2>3. job' = [job EXCEPT ![w].bytes = [job[w].bytes EXCEPT ![d] = counter[d]],
                           ![w].pc = IF d = "read" THEN "swapWrite" ELSE "return"]
    BY <2>1 DEF Swap
  <2> QED
    BY <2>2, <2>3, CallBytes DEF Labels
<1>14. CASE Return(w)
  <2>1. \E l \in {"idle", "ended"} : job' = [job EXCEPT ![w] = [NoJob EXCEPT !.pc = l]]
    BY <1>14 DEF Return
  <2> QED
    BY <2>1, CallEnd DEF Labels
<1>15. CASE StopWorker(w)
  BY <1>15, CallGoto DEF StopWorker, Labels
<1> QED
  BY <1>1, <1>2, <1>3, <1>4, <1>5, <1>6, <1>7, <1>8, <1>9, <1>10, <1>11, <1>12, <1>13, <1>14,
     <1>15 DEF Request

LEMMA CallsStep == Calls /\ CallsInv /\ [Next]_vars => Calls'
<1> SUFFICES ASSUME Calls, CallsInv, [Next]_vars PROVE Calls'
  OBVIOUS
<1>1. CASE UNCHANGED job
  BY <1>1 DEF Calls
<1>2. CASE RunInitial
  <2>1. Starter \in Callers /\ opt.profiles \in Seq(ProfileRecords)
    BY DEF Callers, CallsInv, InitInv
  <2>2. Selection(opt.profiles, InitProfiles) \in Seq(ProfileRecords)
    BY <2>1, SelectionRange
  <2> QED
    BY <1>2, <2>1, <2>2, CallLeave, CallTodo DEF RunInitial
<1>3. CASE ReturnInitial
  BY <1>3, CallEnd DEF ReturnInitial, Callers, Labels
<1>4. CASE \E w \in Callers : Request(w)
  BY <1>4, CallsRequest
<1> QED
  BY <1>1, <1>2, <1>3, <1>4, StepKinds DEF Boot, Elsewhere, Finishes, CallsInv

DialStates == {"none", "dial", "connect", "connected", "handshake", "ready", "refused"}

\* The places where the parts of a run can be.
PlacesType ==
    /\ dialing \in [Callers -> DialStates]
    /\ deal \in {"off", "read", "send", "sent", "closed"}
    /\ phase \in {"init", "bench", "final"} /\ proc \in {"up", "panic", "fatal"}
    /\ printLock \in Callers \cup {Nobody}

LEMMA DialPlaces ==
    ASSUME dialing \in [Callers -> DialStates], NEW w \in Callers, Request(w)
    PROVE  dialing' \in [Callers -> DialStates]
<1>1. UNCHANGED dialing \/ \E s \in DialStates : dialing' = [dialing EXCEPT ![w] = s]
  <2>1. CASE Ask(w)
    BY <2>1 DEF Ask, Acquire, DialStates
  <2>2. CASE Connect(w)
    BY <2>2 DEF Connect, Dialing, Dial, ConnectWrite, ConnectRead, Handshake, Refuse, Forget, Through,
       Last, DialStates
  <2>3. CASE Write(w) \/ Answer(w)
    BY <2>3 DEF Write, Answer, Release, DialStates, dialVars
  <2>4. CASE \/ RunBegin(w) \/ SetReq(w) \/ SetBody(w) \/ SetField(w) \/ NextProfile(w)
             \/ NextProfileFails(w) \/ WriteChunk(w)
    BY <2>4 DEF RunBegin, SetReq, SetBody, SetField, NextProfile, NextProfileFails, WriteChunk, dialVars
  <2>5. CASE \/ Discard(w) \/ PrintReq(w) \/ PrintResp(w) \/ Log(w) \/ UpdateThroughput(w)
             \/ Return(w) \/ StopWorker(w)
    BY <2>5 DEF Discard, PrintReq, PrintResp, Log, UpdateThroughput, Return, StopWorker, dialVars
  <2> QED
    BY <2>1, <2>2, <2>3, <2>4, <2>5 DEF Request
<1> QED
  BY <1>1

\* What a request does to the lock and to the process.
LEMMA LockPlaces ==
    ASSUME NEW w \in Callers, Request(w)
    PROVE  printLock' \in {printLock, w, Nobody} /\ proc' \in {proc, "panic", "fatal"}
<1>1. CASE RunBegin(w) \/ SetReq(w) \/ SetBody(w) \/ NextProfile(w) \/ Ask(w) \/ WriteChunk(w)
  BY <1>1 DEF RunBegin, SetReq, SetBody, NextProfile, Ask, WriteChunk, printVars
<1>2. CASE SetField(w) \/ NextProfileFails(w) \/ Connect(w) \/ StopWorker(w)
  BY <1>2 DEF SetField, NewReaderFails, NextProfileFails, Die, Connect, StopWorker, invokeVars, printVars
<1>3. CASE Write(w) \/ Answer(w) \/ Discard(w) \/ UpdateThroughput(w) \/ Return(w)
  BY <1>3 DEF Write, Answer, Discard, UpdateThroughput, Return, printVars
<1>4. CASE PrintReq(w) \/ PrintResp(w) \/ Log(w)
  BY <1>4 DEF PrintReq, PrintResp, Log
<1> QED
  BY <1>1, <1>2, <1>3, <1>4 DEF Request

LEMMA DealPlaces ==
    ASSUME UploadsInv, deal \in {"off", "read", "send", "sent", "closed"}, [Next]_vars
    PROVE  deal' \in {"off", "read", "send", "sent", "closed"}
<1>1. CASE Read
  BY <1>1, ReadKinds DEF Deliver, uploadVars
<1>2. CASE DealNext \/ HandOver
  BY <1>2 DEF DealNext, HandOver
<1>3. CASE \E i \in 1 .. MaxParts : Walking(i)
  BY <1>3 DEF Walking
<1> QED
  BY <1>1, <1>2, <1>3, UploadSteps

LEMMA PlacesStep == Shape /\ UploadsInv /\ PlacesType /\ [Next]_vars => PlacesType'
<1> SUFFICES ASSUME Shape, UploadsInv, PlacesType, [Next]_vars PROVE PlacesType'
  OBVIOUS
<1>1. deal' \in {"off", "read", "send", "sent", "closed"}
  BY DealPlaces DEF PlacesType
<1>2. CASE \E w \in Callers : Request(w)
  <2>1. PICK w \in Callers : Request(w)
    BY <1>2
  <2> QED
    BY <1>1, <2>1, RequestKeeps, DialPlaces, LockPlaces DEF PlacesType
<1>3. CASE Boot
  BY <1>1, <1>3 DEF Boot, RunInitial, ReturnInitial, PlacesType, dialVars, processVars, printVars
<1>4. CASE Final
  BY <1>1, <1>4 DEF Final, PlacesType, dialVars
<1>5. CASE Dealing
  <2>1. UNCHANGED <<dialing, phase, printLock>>
    BY <1>5 DEF Dealing, dialVars, invokeVars, processVars, printVars
  <2>2. proc' \in {proc, "panic", "fatal"}
    BY <1>5 DEF Dealing, Deal, DealNext, Read, ReadRand, ReadFile, ReadGlob, ReadGlobEmpty, ReadWalked,
       ReadClosed, ReadFails, Deliver, Die
  <2> QED
    BY <1>1, <2>1, <2>2 DEF PlacesType
<1>6. CASE \E i \in 1 .. MaxParts : Walking(i)
  <2>1. UNCHANGED <<dialing, phase, printLock, proc>>
    BY <1>6 DEF Walking, Walker, WalkSend, WalkEnd, WalkFails, dialVars, invokeVars, processVars, printVars
  <2> QED
    BY <1>1, <2>1 DEF PlacesType
<1>7. CASE UNCHANGED vars
  BY <1>1, <1>7 DEF vars, PlacesType, dialVars, invokeVars, processVars, printVars
<1> QED
  BY <1>2, <1>3, <1>4, <1>5, <1>6, <1>7 DEF Next, Ended

\* No call has a value or a request that there is not, and no bytes are counted of one.
NumbersType ==
    /\ value \in 0 .. Len(uvs)
    /\ \A w \in Callers : job[w].item \in 0 .. Len(uvs) /\ job[w].ask \in 0 .. asks
    /\ \A d \in Ways : moved[d] \subseteq 1 .. asks
    /\ \E S : log \in Seq(S)
    /\ pos \in 0 .. Len(log)

LEMMA ValueNumber ==
    ASSUME CallsInv, NumbersType, [Next]_vars
    PROVE  /\ Len(uvs) \in Nat /\ Len(uvs') \in Nat /\ Len(uvs) <= Len(uvs')
           /\ value' \in 0 .. Len(uvs')
<1>1. Len(uvs) \in Nat /\ value \in 0 .. Len(uvs)
  BY DEF CallsInv, TurnsInv, UploadsInv, CacheInv, NumbersType
<1>2. CASE Read
  <2>1. CASE UNCHANGED uploadVars
    BY <1>1, <2>1 DEF uploadVars, readVars
  <2>2. ASSUME deal = "read", NEW path, NEW last, Deliver(path, last), Gives(path, last),
               Reader.kind # "rand" => path \in Files
        PROVE  /\ Len(uvs) \in Nat /\ Len(uvs') \in Nat /\ Len(uvs) <= Len(uvs')
               /\ value' \in 0 .. Len(uvs')
    <3>1. last \in BOOLEAN
      BY <2>2 DEF Gives
    <3>2. Key(path) \in Keys
      BY <2>2, KeyIsKey DEF CallsInv, TurnsInv, UploadsInv
    <3>3. IF Reader.kind = "rand" THEN Reader.type \in Rands /\ path = NoFile ELSE path \in Files
      <4>1. Reader.kind = "rand" => path = NoFile
        BY <2>2 DEF Gives
      <4>2. Reader.kind = "rand" => Reader.type \in Rands
        BY <2>2 DEF CallsInv, TurnsInv, UploadsInv, ReadersInv, Reader
      <4> QED
        BY <2>2, <4>1, <4>2
    <3>4. /\ Len(uvs) \in Nat /\ Len(uvs') \in Nat /\ Len(uvs) <= Len(uvs') /\ value' \in 1 .. Len(uvs')
      BY <2>2, <3>1, <3>2, <3>3, DeliverValue DEF CallsInv, TurnsInv
    <3> QED
      BY <3>4
  <2> QED
    BY <1>2, <2>1, <2>2, ReadKinds DEF CallsInv, TurnsInv
<1>3. CASE UNCHANGED <<uvs, value>>
  BY <1>1, <1>3
<1> QED
  BY <1>2, <1>3, UploadSteps DEF DealNext, HandOver, Walking, readVars

\* The value that a call takes is the one that is offered, its request the next one.
LEMMA CallNumbers ==
    ASSUME Calls, Shape, NEW w \in Callers, Request(w)
    PROVE  /\ job'[w].item \in {job[w].item, 0, value}
           /\ job'[w].ask \in {job[w].ask, 0} \/ (job'[w].ask = asks + 1 /\ asks' = asks + 1)
           /\ asks' \in {asks, asks + 1}
<1> DEFINE Same == job'[w].item = job[w].item /\ job'[w].ask = job[w].ask /\ asks' = asks
<1>1. CASE RunBegin(w)
  <2> DEFINE r == [NoJob EXCEPT !.todo = profiles, !.plain = (profiles = <<>>),
                                !.pc = IF profiles = <<>> THEN "setReq" ELSE "profile"]
  <2>1. r.item = 0 /\ r.ask = 0
    BY DEF NoJob
  <2>2. job' = [job EXCEPT ![w] = r] /\ asks' = asks
    BY <1>1 DEF RunBegin
  <2> HIDE DEF r
  <2> QED
    BY <2>1, <2>2 DEF Shape
<1>2. CASE Ask(w)
  <2>1. job'[w].ask = asks + 1 /\ job'[w].item = job[w].item /\ asks' = asks + 1
    BY <1>2, AskEffect DEF Ask, Keeps, Rest, Fields
  <2> QED
    BY <2>1
<1>3. CASE SetBody(w)
  <2>1. asks' = asks /\ job'[w].ask = job[w].ask
    BY <1>3, SetBodyEffect DEF SetBody, Keeps, Rest, Fields, processVars
  <2>2. \/ \E kind : HasBody(w, kind)
        \/ \E why : Leave(w, why)
        \/ job' = [job EXCEPT ![w].body = "upload", ![w].item = value, ![w].pc = "field"]
    BY <1>3 DEF SetBody, SetBodyStream, SetBodyUpload, SetBodyBytes, SetBodyLine, SetBodyRest
  <2>3. ASSUME NEW kind, HasBody(w, kind) PROVE job'[w].item = job[w].item
    BY <2>3, BodyEffect DEF Keeps, Rest, Fields
  <2>4. ASSUME NEW why, Leave(w, why) PROVE job'[w].item = job[w].item
    BY <2>4, LeaveEffect DEF Keeps, Rest, Fields
  <2>5. ASSUME job' = [job EXCEPT ![w].body = "upload", ![w].item = value, ![w].pc = "field"]
        PROVE  job'[w].item = value
    BY <2>5 DEF Calls, CallType
  <2> QED
    BY <2>1, <2>2, <2>3, <2>4, <2>5
<1>4. CASE SetReq(w) \/ NextProfile(w) \/ WriteChunk(w) \/ Write(w) \/ Answer(w) \/ Discard(w)
  <2>1. Keeps(w, {"item", "ask"})
    BY <1>4, SetReqEffect, NextProfileEffect, WriteChunkEffect, WriteEffect, AnswerEffect, DiscardEffect
       DEF Keeps, Rest, Fields
  <2>2. asks' = asks
    BY <1>4 DEF SetReq, NextProfile, WriteChunk, Write, Answer, Discard, processVars
  <2> QED
    BY <2>1, <2>2 DEF Keeps
<1>5. CASE SetField(w) \/ NextProfileFails(w) \/ Connect(w) \/ StopWorker(w)
  <2>1. Same
    BY <1>5, SetFieldEffect, ConnectEffect, StopWorkerEffect
       DEF SetField, NextProfileFails, Connect, StopWorker, Keeps, Rest, Fields, invokeVars, processVars
  <2> QED
    BY <2>1
<1>6. CASE PrintReq(w) \/ PrintResp(w) \/ Log(w) \/ UpdateThroughput(w)
  <2>1. Keeps(w, {"item", "ask"})
    <3>1. PrintReq(w) \/ PrintResp(w) => Keeps(w, {"item", "ask"})
      BY PrintReqEffect, PrintRespEffect DEF Keeps, Rest, Fields
    <3>2. Log(w) => Keeps(w, {"item", "ask"})
      BY LogEffect DEF Keeps, Rest, Fields
    <3>3. UpdateThroughput(w) => Keeps(w, {"item", "ask"})
      BY SwapEffect DEF Keeps, Rest, Fields
    <3> QED
      BY <1>6, <3>1, <3>2, <3>3
  <2>2. asks' = asks
    BY <1>6 DEF PrintReq, PrintResp, Log, UpdateThroughput, processVars
  <2> QED
    BY <2>1, <2>2 DEF Keeps
<1>7. CASE Return(w)
  <2>1. PICK l : job' = [job EXCEPT ![w] = [NoJob EXCEPT !.pc = l]]
    BY <1>7 DEF Return
  <2>2. [NoJob EXCEPT !.pc = l].item = 0 /\ [NoJob EXCEPT !.pc = l].ask = 0
    BY DEF NoJob
  <2>3. job'[w].item = 0 /\ job'[w].ask = 0 /\ asks' = asks
    BY <1>7, <2>1, <2>2 DEF Shape, Return, processVars
  <2> QED
    BY <2>3
<1> QED
  BY <1>1, <1>2, <1>3, <1>4, <1>5, <1>6, <1>7 DEF Request

LEMMA MovedNumbers ==
    ASSUME CallsInv, NumbersType, NEW w \in Callers, Request(w), NEW d \in Ways
    PROVE  moved'[d] \subseteq 1 .. asks
<1>1. moved[d] \subseteq 1 .. asks /\ (job[w].pc \in {"dial", "answer"} => job[w].ask \in 1 .. asks)
  BY DEF NumbersType, CallsInv, AsksInv, Asking
<1>2. CASE Write(w) \/ Answer(w)
  <2>1. job[w].pc \in {"dial", "answer"} /\ (UNCHANGED moved \/ \E e \in Ways : Count(w, e))
    BY <1>2 DEF Write, Answer, At, Ways, bytesVars
  <2>2. \A e \in Ways : Count(w, e) => moved'[d] \subseteq moved[d] \cup {job[w].ask}
    BY DEF Count, CallsInv, BytesInv, BytesType
  <2> QED
    BY <1>1, <2>1, <2>2
<1>3. CASE \/ RunBegin(w) \/ SetReq(w) \/ SetBody(w) \/ SetField(w) \/ NextProfile(w)
           \/ NextProfileFails(w) \/ Ask(w) \/ Connect(w) \/ WriteChunk(w)
  BY <1>1, <1>3 DEF RunBegin, SetReq, SetBody, SetField, NextProfile, NextProfileFails, Ask, Connect,
     WriteChunk, bytesVars, invokeVars
<1>4. CASE \/ Discard(w) \/ PrintReq(w) \/ PrintResp(w) \/ Log(w) \/ UpdateThroughput(w)
           \/ Return(w) \/ StopWorker(w)
  BY <1>1, <1>4, SwapEffect DEF CallsInv, Discard, PrintReq, PrintResp, Log, Return, StopWorker, bytesVars, invokeVars
<1> QED
  BY <1>2, <1>3, <1>4 DEF Request

\* What is logged, and where the last call began.
LEMMA LogNumbers ==
    ASSUME CallsInv, NumbersType, [Next]_vars
    PROVE  (\E S : log' \in Seq(S)) /\ pos' \in 0 .. Len(log')
<1>1. PICK S : log \in Seq(S)
  BY DEF NumbersType
<1>2. Len(log) \in Nat /\ pos \in 0 .. Len(log)
  BY <1>1 DEF NumbersType
<1>3. ASSUME log' = log, pos' \in {pos, Len(log)} PROVE (\E T : log' \in Seq(T)) /\ pos' \in 0 .. Len(log')
  BY <1>1, <1>2, <1>3
<1>4. ASSUME NEW x, log' = Append(log, x), pos' = pos PROVE (\E T : log' \in Seq(T)) /\ pos' \in 0 .. Len(log')
  <2>1. log' \in Seq(S \cup {x}) /\ Len(log') = Len(log) + 1
    BY <1>1, <1>4, AppendMore
  <2> QED
    BY <1>2, <1>4, <2>1
<1>5. ASSUME NEW w \in Callers, Request(w)
      PROVE  \/ log' = log /\ pos' \in {pos, Len(log)}
             \/ (\E x : log' = Append(log, x)) /\ pos' = pos
  <2>1. CASE RunBegin(w)
    BY <2>1 DEF RunBegin, MarkPos
  <2>2. CASE Log(w)
    BY <2>2 DEF Log
  <2>3. CASE \/ SetReq(w) \/ SetBody(w) \/ SetField(w) \/ NextProfile(w) \/ NextProfileFails(w)
             \/ Ask(w) \/ Connect(w) \/ WriteChunk(w)
    BY <2>3 DEF SetReq, SetBody, SetField, NextProfile, NextProfileFails, Ask, Connect, WriteChunk,
       printVars, invokeVars
  <2>4. CASE \/ Write(w) \/ Answer(w) \/ Discard(w) \/ PrintReq(w) \/ PrintResp(w)
             \/ UpdateThroughput(w) \/ Return(w) \/ StopWorker(w)
    BY <2>4 DEF Write, Answer, Discard, PrintReq, PrintResp, UpdateThroughput, Return, StopWorker,
       printVars, invokeVars
  <2> QED
    BY <1>5, <2>1, <2>2, <2>3, <2>4 DEF Request
<1>6. CASE Boot
  <2>1. log' = log /\ pos' \in {pos, Len(log)}
    BY <1>6 DEF Boot, RunInitial, ReturnInitial, MarkPos, printVars
  <2> QED
    BY <1>3, <2>1
<1>7. CASE Elsewhere \/ Finishes
  <2>1. log' = log /\ pos' = pos
    BY <1>7 DEF Elsewhere, Finishes, invokeVars, printVars
  <2> QED
    BY <1>3, <2>1
<1> QED
  BY <1>3, <1>4, <1>5, <1>6, <1>7, StepKinds DEF CallsInv

LEMMA NumbersStep == Calls /\ CallsInv /\ NumbersType /\ [Next]_vars => NumbersType'
<1> SUFFICES ASSUME Calls, CallsInv, NumbersType, [Next]_vars PROVE NumbersType'
  OBVIOUS
<1>1. /\ Len(uvs) \in Nat /\ Len(uvs') \in Nat /\ Len(uvs) <= Len(uvs') /\ value' \in 0 .. Len(uvs')
      /\ asks \in Nat /\ value \in 0 .. Len(uvs)
  BY ValueNumber DEF CallsInv, AsksInv, NumbersType
<1>2. (\E S : log' \in Seq(S)) /\ pos' \in 0 .. Len(log')
  BY LogNumbers
<1>3. \A w \in Callers : job[w].item \in 0 .. Len(uvs') /\ job[w].ask \in 0 .. asks
  BY <1>1 DEF NumbersType
<1>4. ASSUME UNCHANGED <<job, asks, moved>> PROVE NumbersType'
  BY <1>1, <1>2, <1>3, <1>4 DEF NumbersType
<1>5. ASSUME NEW w \in Callers, Moves(w), job'[w].item \in {job[w].item, 0, value},
             job'[w].ask \in {job[w].ask, 0} \/ (job'[w].ask = asks + 1 /\ asks' = asks + 1),
             asks' \in {asks, asks + 1}, \A d \in Ways : moved'[d] \subseteq 1 .. asks
      PROVE  NumbersType'
  <2>1. asks' \in Nat /\ asks <= asks' /\ 1 .. asks \subseteq 1 .. asks'
    BY <1>1, <1>5
  <2>2. ASSUME NEW v \in Callers PROVE job'[v].item \in 0 .. Len(uvs') /\ job'[v].ask \in 0 .. asks'
    <3>1. CASE v = w
      BY <1>1, <1>3, <1>5, <2>1, <3>1, SMTT(40)
    <3>2. CASE v # w
      BY <1>1, <1>3, <1>5, <2>1, <3>2 DEF Moves
    <3> QED
      BY <3>1, <3>2
  <2>3. \A d \in Ways : moved'[d] \subseteq 1 .. asks'
    BY <1>5, <2>1
  <2> QED
    BY <1>1, <1>2, <2>2, <2>3 DEF NumbersType
<1>6. ASSUME NEW w \in Callers, Request(w) PROVE NumbersType'
  <2>1. \A d \in Ways : moved'[d] \subseteq 1 .. asks
    BY <1>6, MovedNumbers
  <2> QED
    BY <1>5, <1>6, <2>1, CallNumbers, RequestShape DEF CallsInv
<1>7. CASE RunInitial
  <2>1. Keeps(Starter, {"item", "ask"}) /\ UNCHANGED <<asks, moved>> /\ Starter \in Callers
    BY <1>7, RunInitialEffect DEF RunInitial, CallsInv, Keeps, Rest, Fields, processVars, bytesVars, Callers
  <2> QED
    BY <1>5, <2>1 DEF Keeps, NumbersType
<1>8. CASE ReturnInitial
  <2>1. UNCHANGED <<asks, moved>> /\ Starter \in Callers /\ Moves(Starter)
    BY <1>8, ReturnInitialEffect DEF ReturnInitial, CallsInv, Callers
  <2>2. job' = [job EXCEPT ![Starter] = [NoJob EXCEPT !.pc = "ended"]]
    BY <1>8 DEF ReturnInitial
  <2>3. [NoJob EXCEPT !.pc = "ended"].item = 0 /\ [NoJob EXCEPT !.pc = "ended"].ask = 0
    BY DEF NoJob
  <2>4. job'[Starter].item = 0 /\ job'[Starter].ask = 0
    BY <2>1, <2>2, <2>3 DEF CallsInv, Shape
  <2> QED
    BY <1>5, <2>1, <2>4 DEF NumbersType
<1> QED
  BY <1>4, <1>6, <1>7, <1>8, StepKinds DEF Boot, Elsewhere, Finishes, CallsInv, invokeVars, processVars, bytesVars

TypesInv == CallsInv /\ Calls /\ PlacesType /\ NumbersType

LEMMA TypesInit == Init => TypesInv
<1> SUFFICES ASSUME Init PROVE TypesInv
  OBVIOUS
<1>1. /\ job = [w \in Callers |-> NoJob] /\ asks = 0 /\ moved = NoBytes /\ phase = "init" /\ proc = "up"
      /\ printLock = Nobody /\ log = <<>> /\ pos = 0 /\ dialing = [w \in Callers |-> "none"]
      /\ uvs = <<>> /\ value = 0 /\ deal \in {"read", "off"}
  BY DEF Init, InvokeInit, UploadInit, DialInit, NoBytes
<1>2. NoJob \in CallType /\ NoJob.pc = "idle" /\ ~NoJob.plain /\ NoJob.item = 0 /\ NoJob.ask = 0
  <2>1. <<>> \in Seq(ProfileRecords) /\ NoBytes \in [Ways -> SUBSET Nat]
    BY DEF NoBytes
  <2> QED
    BY <2>1 DEF CallType, NoJob, Labels, Bodies, NoBytes
<1>3. CallsInv
  <2>1. AsksInv
    BY <1>1, <1>2 DEF AsksInv, Asking
  <2>2. PlainInv
    BY <1>1, <1>2 DEF Init, OptInit, PlainInv, Bodied
  <2> QED
    BY <2>1, <2>2, InitShape, InitBytes, InitFirstInit, TurnsInit DEF CallsInv
<1>4. Calls
  BY <1>1, <1>2 DEF Calls
<1>5. PlacesType
  BY <1>1 DEF PlacesType, DialStates
<1>6. NumbersType
  <2>1. <<>> \in Seq(Nat) /\ Len(uvs) = 0 /\ Len(log) = 0
    BY <1>1
  <2>2. \A w \in Callers : job[w].item = 0 /\ job[w].ask = 0
    BY <1>1, <1>2
  <2> QED
    BY <1>1, <2>1, <2>2 DEF NumbersType, NoBytes
<1> QED
  BY <1>3, <1>4, <1>5, <1>6 DEF TypesInv

LEMMA TypesStep == TypesInv /\ [Next]_vars => TypesInv'
<1> SUFFICES ASSUME TypesInv, [Next]_vars PROVE TypesInv'
  OBVIOUS
<1>1. CallsInv'
  BY NextShape, AsksStep, BytesStep, PlainStep, InitFirstStep, TurnsStep DEF TypesInv, CallsInv
<1>2. Calls' /\ NumbersType'
  BY CallsStep, NumbersStep DEF TypesInv
<1>3. PlacesType'
  BY PlacesStep DEF TypesInv, CallsInv, TurnsInv
<1> QED
  BY <1>1, <1>2, <1>3 DEF TypesInv

LEMMA TypesImply == TypesInv => TypeOK
<1> SUFFICES ASSUME TypesInv PROVE TypeOK
  OBVIOUS
<1>1. job = [w \in Callers |-> job[w]]
  BY DEF TypesInv, CallsInv, Shape
<1>2. ASSUME NEW w \in Callers
      PROVE  job[w] \in [pc : Labels, todo : Seq(ProfileRecords), plain : BOOLEAN, body : Bodies,
                          item : 0 .. Len(uvs), ask : 0 .. asks, code : Nat, outcome : {"ok", "error", "EOF"},
                          sampled : BOOLEAN, detail : BOOLEAN, bytes : [Ways -> SUBSET (1 .. asks)]]
  <2>1. job[w] \in CallType /\ job[w].item \in 0 .. Len(uvs) /\ job[w].ask \in 0 .. asks
    BY DEF TypesInv, Calls, NumbersType
  <2>2. ASSUME NEW d \in Ways PROVE job[w].bytes[d] \subseteq 1 .. asks
    <3>1. \A r \in job[w].bytes[d] : r \in moved[d]
      BY DEF TypesInv, CallsInv, BytesInv, OnePlace, PlaceOf
    <3> QED
      BY <3>1 DEF TypesInv, NumbersType
  <2>3. job[w].bytes \in [Ways -> SUBSET (1 .. asks)]
    BY <2>1, <2>2 DEF CallType
  <2> QED
    BY <2>1, <2>3 DEF CallType
<1>3. deal = "off" \/ current \in DOMAIN readers
  BY DEF TypesInv, CallsInv, TurnsInv, UploadsInv, ReadersInv
<1>4. pos <= Len(log)
  BY DEF TypesInv, NumbersType
<1> HIDE DEF TypesInv
<1>5. /\ dialing \in [Callers -> DialStates] /\ deal \in {"off", "read", "send", "sent", "closed"}
      /\ phase \in {"init", "bench", "final"} /\ proc \in {"up", "panic", "fatal"}
      /\ printLock \in Callers \cup {Nobody} /\ value \in 0 .. Len(uvs)
  BY DEF TypesInv, PlacesType, NumbersType
<1>6. job \in [Callers -> [pc : Labels, todo : Seq(ProfileRecords), plain : BOOLEAN, body : Bodies,
                           item : 0 .. Len(uvs), ask : 0 .. asks, code : Nat, outcome : {"ok", "error", "EOF"},
                           sampled : BOOLEAN, detail : BOOLEAN, bytes : [Ways -> SUBSET (1 .. asks)]]]
  BY <1>1, <1>2
<1> QED
  BY <1>3, <1>4, <1>5, <1>6 DEF TypeOK, DialStates, Labels, Bodies

\* Every variable has its type: no call has a value or the number of a request that there is
\* not, no bytes are counted of a request that was not begun, and the marked place in the log
\* of details is one that the log has.
THEOREM TypeCorrect == Spec => []TypeOK
<1> QED
  BY TypesInit, TypesStep, TypesImply, PTL DEF Spec
=============================================================================

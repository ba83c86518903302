-------------------------- MODULE Profiles_proofs --------------------------
(***************************************************************************)
(* Proofs about the profiles: what the parser made of the lines, and which *)
(* profiles were selected, for all files and all arguments.                *)
(***************************************************************************)
EXTENDS Profiles, Selections_proofs

(***************************************************************************)
(* Types                                                                   *)
(***************************************************************************)
Tags     == Nat \cup {NoTag}
Valued   == SUBSET (Names \X Nat)
Comments == [line : Nat, opts : {l.opts : l \in Lines}, tag : Tags]
Texts    == [line : Nat, json : {l.json : l \in Lines}, uses : SUBSET Names]
Items    == [field : {"Query", "RawJSON", "Header", "Form"}, key : {l.key : l \in Lines}, file : BOOLEAN,
             json : {l.json : l \in Lines}, value : Valued, line : Nat]
ProfileType ==
    [at : Nat, method : {l.method : l \in Lines}, addr : Valued, comments : Seq(Comments),
     items : SUBSET Items, body : Seq(Texts), opts : SUBSET UNION {l.opts : l \in Lines}, tag : Tags,
     jsonBody : BOOLEAN, contentType : {"json", "other", "plain"}, vars : [Names -> Nat]]
Values == [range : BOOLEAN, from : Nat \cup {-1}, to : Nat \cup {-1}]
Args   == [new : BOOLEAN, tagged : BOOLEAN, values : SUBSET Values]
Entries == [file : Nat, isEnv : BOOLEAN, line : Lines]

TypesInv ==
    /\ args \in ArgLists /\ args \in Seq(Args) /\ arg \in 0 .. Len(args) /\ hasNew \in BOOLEAN
    /\ state \in {"arg", "lines", "done", "panic", "fatal", "created"}
    /\ isEnv \in BOOLEAN /\ hasFollower \in BOOLEAN /\ (hasFollower => isEnv)
    /\ read \in Seq(Entries) /\ envVars \in [Names -> 0 .. Len(read)]
    /\ parsed \in Seq(ProfileType) /\ p = Len(parsed)
    /\ lastComments \in Seq(Comments)
    /\ found \in Seq([file : Nat, profile : ProfileType])
    /\ profiles \in Seq(ProfileType) /\ Len(profiles) <= Len(found)

(***************************************************************************)
(* The inductive invariant                                                 *)
(***************************************************************************)
\* The lines of a file come after those of the files before it, and variables after a section.
ReadInv ==
    /\ \A i \in DOMAIN read : read[i].file \in 1 .. arg
    /\ \A i, j \in DOMAIN read : i <= j => read[i].file <= read[j].file
    /\ \A i \in DOMAIN read : read[i].isEnv => SectionOf(i) # {}
    /\ state = "lines" => arg # 0

\* The parser knows the last section of the file, and the last exports that count.
Sections == {j \in DOMAIN read : Line(j).kind = "section" /\ read[j].file = arg}
EnvInv ==
    state = "lines" =>
       /\ isEnv => Sections # {}
       /\ hasFollower <=> isEnv /\ (EnvName = Unset \/ Line(Max(Sections)).env = EnvName)
       /\ \A n \in Names : envVars[n] = LastExport(n, arg, Now)

\* The profiles of the file are its request lines.
IsRequest(i, file) == i \in DOMAIN read /\ Own(i) /\ Line(i).kind = "request" /\ read[i].file = file
ParsedInv ==
    state = "lines" =>
       /\ \A k \in DOMAIN parsed : IsRequest(parsed[k].at, arg)
       /\ \A j, k \in DOMAIN parsed : j < k => parsed[j].at < parsed[k].at
       /\ \A i \in DOMAIN read : IsRequest(i, arg) => \E k \in DOMAIN parsed : parsed[k].at = i

\* A sequence has an element for each line of S, in their order.
Listed(s, S) ==
    /\ {s[k].line : k \in DOMAIN s} = S
    /\ \A j, k \in DOMAIN s : j < k => s[j].line < s[k].line

\* The comments of the profile of line a, those that no profile has yet, and its body.
BelongTo(a) ==
    {i \in DOMAIN read : /\ IsComment(i)
                         /\ \E j \in DOMAIN read : /\ i < j /\ Own(j) /\ Owner(j) = a
                                                  /\ \A k \in i + 1 .. j - 1 : ~Own(k)}
Pending == {i \in DOMAIN read : IsComment(i) /\ \A k \in i + 1 .. Len(read) : ~Own(k)}
Below(a) ==
    {i \in DOMAIN read : /\ Own(i) /\ Owner(i) = a
                         /\ \E j \in 1 .. i : Own(j) /\ Owner(j) = a /\ Line(j).kind \in {"text", "export"}}

PendingInv == state \in {"arg", "lines"} => Listed(lastComments, Pending)

Right(q) ==
    /\ q.at \in DOMAIN read
    /\ Listed(q.comments, BelongTo(q.at)) /\ Listed(q.body, Below(q.at))
    /\ \A v \in q.addr : v[2] = LastExport(v[1], read[q.at].file, q.at)
RightInv == \A q \in AllProfiles : Right(q)

\* The profiles of the files before, with the variables of their file.
FoundInv ==
    /\ \A i \in DOMAIN found :
          /\ IsRequest(found[i].profile.at, found[i].file)
          /\ state = "lines" => found[i].file < arg
          /\ \A n \in Names : found[i].profile.vars[n] = LastExport(n, found[i].file, Now)
    /\ \A i, j \in DOMAIN found : i < j => found[i].profile.at < found[j].profile.at

\* The tag is that of the last argument that has one, and selects the profiles of a file.
TagOf(n) == IF TaggedUpTo(n) = {} THEN <<>> ELSE <<ParseTag(args[Max(TaggedUpTo(n))].values)>>
Chosen(f) == TagOf(f.file) = <<>> \/ TagContains(TagOf(f.file)[1], f.profile.tag)
SelectedInv ==
    /\ tag = TagOf(arg)
    /\ \A i \in DOMAIN found : found[i].file \in 0 .. arg
    /\ \A k \in DOMAIN profiles : \E i \in DOMAIN found : Chosen(found[i]) /\ profiles[k] = found[i].profile
    /\ \A i \in DOMAIN found : Chosen(found[i]) => \E k \in DOMAIN profiles : profiles[k] = found[i].profile
    /\ \A j, k \in DOMAIN profiles : j < k => profiles[j].at < profiles[k].at

(***************************************************************************)
(* Lemmas on numbers and sequences                                         *)
(***************************************************************************)
LEMMA MaxIs ==
    ASSUME NEW S \in SUBSET Int, NEW m \in S, \A y \in S : y <= m
    PROVE  Max(S) = m
<1> DEFINE x == Max(S)
<1>1. x \in S /\ \A y \in S : x >= y
  BY DEF Max
<1> HIDE DEF x
<1>2. x = m
  <2>1. x \in Int /\ m \in Int /\ x >= m /\ x <= m
    BY <1>1
  <2> QED
    BY <2>1
<1> QED
  BY <1>2 DEF x

LEMMA MaxOf ==
    ASSUME NEW n \in Nat, NEW S \in SUBSET (0 .. n), S # {}
    PROVE  Max(S) \in S /\ \A y \in S : y <= Max(S)
<1> DEFINE T == {k \in 0 .. n : \A y \in S : y <= k}
<1>1. n \in T /\ T \in SUBSET Nat
  OBVIOUS
<1>2. PICK m \in T : \A k \in T : m <= k
  BY <1>1, Least
<1>3. m \in S
  <2> SUFFICES ASSUME m \notin S PROVE FALSE
    OBVIOUS
  <2>1. PICK y \in S : y <= m /\ y # m
    BY <1>2
  <2>2. m - 1 \in T
    BY <1>2, <2>1
  <2> QED
    BY <1>2, <2>2
<1> QED
  BY <1>2, <1>3, MaxIs

LEMMA Concat ==
    ASSUME NEW A, NEW s \in Seq(A), NEW t \in Seq(A)
    PROVE  /\ Len(s) \in Nat /\ Len(t) \in Nat /\ DOMAIN s = 1 .. Len(s) /\ DOMAIN t = 1 .. Len(t)
           /\ s \o t \in Seq(A) /\ Len(s \o t) = Len(s) + Len(t) /\ DOMAIN (s \o t) = 1 .. Len(s) + Len(t)
           /\ (\A k \in 1 .. Len(s) : (s \o t)[k] = s[k]) /\ (\A k \in 1 .. Len(t) : (s \o t)[Len(s) + k] = t[k])
           /\ \A k \in 1 .. Len(s) + Len(t) : k \in 1 .. Len(s) \/ \E i \in 1 .. Len(t) : k = Len(s) + i
<1> DEFINE m == Len(s)
           n == Len(t)
           u == s \o t
<1>1. m \in Nat /\ n \in Nat /\ DOMAIN s = 1 .. m /\ DOMAIN t = 1 .. n
  OBVIOUS
<1>2. u \in Seq(A) /\ Len(u) = m + n
  OBVIOUS
<1>3. DOMAIN u = 1 .. m + n
  <2> HIDE DEF u, m, n
  <2> QED
    BY <1>2
<1>4. (\A k \in 1 .. m : u[k] = s[k]) /\ \A k \in 1 .. n : u[m + k] = t[k]
  OBVIOUS
<1> HIDE DEF u, m, n
<1>5. \A k \in 1 .. m + n : k \in 1 .. m \/ \E i \in 1 .. n : k = m + i
  <2> SUFFICES ASSUME NEW k \in 1 .. m + n, k \notin 1 .. m PROVE \E i \in 1 .. n : k = m + i
    OBVIOUS
  <2>1. k - m \in 1 .. n /\ k = m + (k - m)
    BY <1>1
  <2> QED
    BY <2>1
<1> QED
  BY <1>1, <1>2, <1>3, <1>4, <1>5 DEF u, m, n

LEMMA ListedAppend ==
    ASSUME NEW A, NEW s \in Seq(A), NEW e \in A, \A a \in A : a.line \in Nat,
           NEW S, Listed(s, S), \A x \in S : x < e.line
    PROVE  Listed(Append(s, e), S \cup {e.line})
<1> DEFINE t == Append(s, e)
<1>1. /\ Len(s) \in Nat /\ DOMAIN s = 1 .. Len(s) /\ DOMAIN t = 1 .. Len(s) + 1
      /\ t[Len(s) + 1] = e /\ \A k \in 1 .. Len(s) : t[k] = s[k]
  OBVIOUS
<1>2. \A k \in 1 .. Len(s) + 1 : k \in 1 .. Len(s) \/ k = Len(s) + 1
  BY <1>1
<1> HIDE DEF t
<1>3. {t[k].line : k \in DOMAIN t} = S \cup {e.line}
  <2>1. \A x : (\E k \in DOMAIN t : x = t[k].line) <=> (\E k \in DOMAIN s : x = s[k].line) \/ x = e.line
    BY <1>1, <1>2
  <2> QED
    BY <2>1 DEF Listed
<1>4. ASSUME NEW j \in DOMAIN t, NEW k \in DOMAIN t, j < k PROVE t[j].line < t[k].line
  <2>1. j \in 1 .. Len(s) /\ t[j] = s[j] /\ s[j].line \in S
    BY <1>1, <1>2, <1>4 DEF Listed
  <2>2. CASE k = Len(s) + 1
    BY <1>1, <2>1, <2>2
  <2>3. CASE k # Len(s) + 1
    BY <1>1, <1>2, <1>4, <2>1, <2>3 DEF Listed
  <2> QED
    BY <2>2, <2>3
<1> QED
  BY <1>3, <1>4 DEF Listed, t

LEMMA ListedConcat ==
    ASSUME NEW A, NEW s \in Seq(A), NEW t \in Seq(A), NEW S, NEW T,
           Listed(s, S), Listed(t, T), \A x \in S, y \in T : x < y
    PROVE  Listed(s \o t, S \cup T)
<1> DEFINE u == s \o t
           m == Len(s)
           n == Len(t)
<1> HIDE DEF u, m, n
<1>1. /\ m \in Nat /\ n \in Nat /\ DOMAIN s = 1 .. m /\ DOMAIN t = 1 .. n /\ DOMAIN u = 1 .. m + n
      /\ (\A k \in 1 .. m : u[k] = s[k]) /\ \A k \in 1 .. n : u[m + k] = t[k]
  BY Concat DEF u, m, n
<1>2. \A k \in 1 .. m + n : k \in 1 .. m \/ \E i \in 1 .. n : k = m + i
  <2> SUFFICES ASSUME NEW k \in 1 .. m + n, k \notin 1 .. m PROVE \E i \in 1 .. n : k = m + i
    OBVIOUS
  <2>1. k - m \in 1 .. n /\ k = m + (k - m)
    BY <1>1
  <2> QED
    BY <2>1
<1>3. \A k \in 1 .. n : m + k \in 1 .. m + n
  BY <1>1
<1>4. {u[k].line : k \in DOMAIN u} = S \cup T
  <2>1. ASSUME NEW x PROVE (\E k \in DOMAIN u : x = u[k].line)
                              <=> (\E k \in DOMAIN s : x = s[k].line) \/ \E k \in DOMAIN t : x = t[k].line
    <3>1. ASSUME NEW k \in DOMAIN s PROVE k \in DOMAIN u /\ u[k] = s[k]
      BY <1>1
    <3>2. ASSUME NEW k \in DOMAIN t PROVE m + k \in DOMAIN u /\ u[m + k] = t[k]
      BY <1>1, <1>3
    <3>3. ASSUME NEW k \in DOMAIN u PROVE (k \in DOMAIN s /\ u[k] = s[k]) \/ \E i \in DOMAIN t : u[k] = t[i]
      <4>1. k \in 1 .. m + n /\ (k \in 1 .. m \/ \E i \in 1 .. n : k = m + i)
        BY <1>1, <1>2
      <4>2. CASE k \in 1 .. m
        BY <1>1, <4>2
      <4>3. ASSUME NEW i \in 1 .. n, k = m + i PROVE \E h \in DOMAIN t : u[k] = t[h]
        BY <1>1, <4>3
      <4> QED
        BY <4>1, <4>2, <4>3
    <3> QED
      BY <3>1, <3>2, <3>3
  <2> QED
    BY <2>1 DEF Listed
<1>5. ASSUME NEW j \in DOMAIN u, NEW k \in DOMAIN u, j < k PROVE u[j].line < u[k].line
  <2>1. CASE j \in 1 .. m /\ k \in 1 .. m
    BY <1>1, <1>5, <2>1 DEF Listed
  <2>2. ASSUME j \in 1 .. m, NEW i \in 1 .. n, k = m + i PROVE u[j].line < u[k].line
    <3>1. u[j].line \in S /\ u[k].line \in T
      BY <1>1, <2>2 DEF Listed
    <3> QED
      BY <3>1
  <2>3. ASSUME NEW h \in 1 .. n, j = m + h, NEW i \in 1 .. n, k = m + i PROVE u[j].line < u[k].line
    <3>1. h < i
      BY <1>1, <1>5, <2>3
    <3>2. h \in DOMAIN t /\ i \in DOMAIN t /\ u[j] = t[h] /\ u[k] = t[i]
      BY <1>1, <2>3
    <3> QED
      BY <3>1, <3>2 DEF Listed
  <2>4. ASSUME NEW h \in 1 .. n, j = m + h, k \in 1 .. m PROVE FALSE
    BY <1>1, <1>5, <2>4
  <2> QED
    BY <1>1, <1>2, <2>1, <2>2, <2>3, <2>4
<1> QED
  BY <1>4, <1>5 DEF Listed, u

(***************************************************************************)
(* The lines that were read, when there is one more                        *)
(***************************************************************************)
Grown(n, l) ==
    /\ read \in Seq(Entries) /\ read' \in Seq(Entries) /\ n \in Nat \ {0} /\ n = Len(read) + 1 /\ Len(read') = n
    /\ DOMAIN read = 1 .. n - 1 /\ DOMAIN read' = 1 .. n /\ \A i \in 1 .. n - 1 : read'[i] = read[i]
    /\ read'[n].file = arg /\ read'[n].isEnv = isEnv' /\ read'[n].line = l

LEMMA Grows ==
    ASSUME TypesInv, NEW l \in Lines, Reading(l), isEnv' \in BOOLEAN, NEW n, n = Now
    PROVE  /\ Grown(n, l) /\ state = "lines"
           /\ UNCHANGED <<args, arg, tag, hasNew, profiles, found>>
<1> DEFINE e == [file |-> arg, isEnv |-> isEnv', line |-> l]
<1>1. read' = Append(read, e) /\ state = "lines" /\ UNCHANGED <<args, arg, tag, hasNew, profiles, found>>
  BY DEF Reading, argVars
<1>2. arg \in Nat /\ e \in Entries
  BY DEF TypesInv, Entries
<1>3. e.file = arg /\ e.isEnv = isEnv' /\ e.line = l
  OBVIOUS
<1> HIDE DEF e
<1>4. read \in Seq(Entries) /\ Len(read) \in Nat /\ n = Len(read) + 1
  BY DEF TypesInv, Now
<1>5. read' \in Seq(Entries) /\ Len(read') = n /\ read'[n] = e /\ \A i \in 1 .. n - 1 : read'[i] = read[i]
  BY <1>1, <1>2, <1>4
<1>6. DOMAIN read = 1 .. n - 1 /\ DOMAIN read' = 1 .. n
  BY <1>4, <1>5
<1> QED
  BY <1>1, <1>3, <1>4, <1>5, <1>6 DEF Grown

LEMMA Before ==
    ASSUME NEW n, NEW l, Grown(n, l)
    PROVE  /\ \A i \in 1 .. n : i \in 1 .. n - 1 \/ i = n
           /\ \A i \in 1 .. n - 1 : i \in 1 .. n /\ i < n /\ i # n
           /\ \A i \in 1 .. n - 1 : \A j \in 1 .. i : j \in 1 .. n - 1
BY DEF Grown

LEMMA OldLines ==
    ASSUME NEW n, NEW l, Grown(n, l), NEW i \in 1 .. n - 1
    PROVE  /\ Line(i)' = Line(i) /\ (IsComment(i)' <=> IsComment(i)) /\ (Own(i)' <=> Own(i))
           /\ RequestsUpTo(i)' = RequestsUpTo(i) /\ Owner(i)' = Owner(i)
           /\ SectionOf(i)' = SectionOf(i)
<1>1. \A j \in 1 .. i : j \in 1 .. n - 1 /\ read'[j] = read[j]
  BY DEF Grown
<1>2. read'[i] = read[i]
  BY DEF Grown
<1>3. /\ Line(i)' = Line(i) /\ (IsComment(i)' <=> IsComment(i)) /\ (Own(i)' <=> Own(i))
  BY <1>2 DEF Line, IsComment, Own
<1>4. RequestsUpTo(i)' = RequestsUpTo(i)
  BY <1>1, <1>2 DEF RequestsUpTo, Own, Line
<1>5. SectionOf(i)' = SectionOf(i)
  BY <1>1, <1>2 DEF SectionOf, Line
<1>6. Owner(i)' = Owner(i)
  BY <1>4 DEF Owner
<1> QED
  BY <1>3, <1>4, <1>5, <1>6

LEMMA OldCounts ==
    ASSUME NEW n, NEW l, Grown(n, l), ReadInv, NEW i \in 1 .. n - 1
    PROVE  Counts(i)' <=> Counts(i)
<1>1. SectionOf(i)' = SectionOf(i) /\ Line(i)' = Line(i) /\ read'[i] = read[i]
  BY OldLines DEF Grown
<1>2. ASSUME read[i].isEnv PROVE Line(Max(SectionOf(i)))' = Line(Max(SectionOf(i)))
  <2>1. SectionOf(i) # {}
    BY <1>2 DEF ReadInv, Grown
  <2>2. i \in Nat /\ SectionOf(i) \subseteq 0 .. i
    BY DEF SectionOf, Grown
  <2>3. Max(SectionOf(i)) \in SectionOf(i)
    BY <2>1, <2>2, MaxOf
  <2>4. Max(SectionOf(i)) \in 1 .. n - 1
    <3>1. SectionOf(i) \subseteq 1 .. i
      BY DEF SectionOf
    <3>2. \A j \in 1 .. i : j \in 1 .. n - 1
      BY Before
    <3> QED
      BY <2>3, <3>1, <3>2
  <2> QED
    BY <1>1, <2>4 DEF Line, Grown
<1> QED
  BY <1>1, <1>2 DEF Counts

LEMMA OwnerIn ==
    ASSUME NEW i \in Nat
    PROVE  /\ RequestsUpTo(i) \subseteq 1 .. i /\ Owner(i) \in 0 .. i
           /\ RequestsUpTo(i) # {} => Owner(i) \in RequestsUpTo(i) /\ \A j \in RequestsUpTo(i) : j <= Owner(i)
           /\ RequestsUpTo(i) = {} => Owner(i) = 0
<1>1. RequestsUpTo(i) \subseteq 1 .. i
  BY DEF RequestsUpTo
<1>2. CASE RequestsUpTo(i) = {}
  BY <1>1, <1>2 DEF Owner
<1>3. CASE RequestsUpTo(i) # {}
  <2>1. RequestsUpTo(i) \in SUBSET (0 .. i)
    BY <1>1
  <2>2. Max(RequestsUpTo(i)) \in RequestsUpTo(i) /\ \A y \in RequestsUpTo(i) : y <= Max(RequestsUpTo(i))
    BY <1>3, <2>1, MaxOf
  <2> QED
    BY <1>1, <1>3, <2>2 DEF Owner
<1> QED
  BY <1>2, <1>3

\* The exports of a variable in a file before line m, of which the last one counts.
Exports(x, f, m) == {i \in DOMAIN read : i < m /\ read[i].file = f /\ Counts(i) /\ Line(i).name = x}

LEMMA LastExportIs ==
    ASSUME NEW n \in Nat, DOMAIN read \subseteq 1 .. n, NEW x, NEW f, NEW m
    PROVE  /\ LastExport(x, f, m) = Max({0} \cup Exports(x, f, m)) /\ LastExport(x, f, m) \in 0 .. n
           /\ LastExport(x, f, m) \in {0} \cup Exports(x, f, m)
           /\ \A i \in Exports(x, f, m) : i <= LastExport(x, f, m)
<1> DEFINE S == {0} \cup Exports(x, f, m)
<1>1. LastExport(x, f, m) = Max(S)
  BY DEF LastExport, Exports
<1>2. S \in SUBSET (0 .. n) /\ S # {}
  BY DEF Exports
<1> HIDE DEF S
<1>3. Max(S) \in S /\ \A y \in S : y <= Max(S)
  BY <1>2, MaxOf
<1> QED
  BY <1>1, <1>2, <1>3 DEF S

LEMMA ExportsOld ==
    ASSUME NEW n, NEW l, Grown(n, l), ReadInv, NEW x, NEW f, NEW m \in 0 .. n
    PROVE  Exports(x, f, m)' = Exports(x, f, m) /\ LastExport(x, f, m)' = LastExport(x, f, m)
<1>1. ASSUME NEW i \in 1 .. n - 1
      PROVE  Line(i)' = Line(i) /\ (Counts(i)' <=> Counts(i)) /\ read'[i] = read[i]
  BY OldLines, OldCounts DEF Grown
<1>2. \A i \in 1 .. n : i < m => i \in 1 .. n - 1
  BY DEF Grown
<1>3. DOMAIN read = 1 .. n - 1 /\ DOMAIN read' = 1 .. n /\ \A i \in 1 .. n - 1 : i \in 1 .. n
  BY DEF Grown
<1>4. Exports(x, f, m)' = Exports(x, f, m)
  BY <1>1, <1>2, <1>3 DEF Exports
<1>5. LastExport(x, f, m) = Max({0} \cup Exports(x, f, m))
  BY DEF LastExport, Exports
<1>6. LastExport(x, f, m)' = Max({0} \cup Exports(x, f, m)')
  BY DEF LastExport, Exports
<1> QED
  BY <1>4, <1>5, <1>6

LEMMA ExportsNew ==
    ASSUME NEW n, NEW l, Grown(n, l), ReadInv, NEW x, NEW f
    PROVE  LastExport(x, f, n + 1)' = IF f = arg /\ Counts(n)' /\ l.name = x THEN n ELSE LastExport(x, f, n)
<1> DEFINE new == f = arg /\ Counts(n)' /\ l.name = x
<1>1. ASSUME NEW i \in 1 .. n - 1
      PROVE  Line(i)' = Line(i) /\ (Counts(i)' <=> Counts(i)) /\ read'[i] = read[i]
  BY OldLines, OldCounts DEF Grown
<1>2. /\ \A i \in 1 .. n : i < n + 1 /\ (i \in 1 .. n - 1 \/ i = n)
      /\ \A i \in 1 .. n - 1 : i \in 1 .. n /\ i < n /\ i < n + 1
      /\ n \in 1 .. n /\ n \in Nat
  BY DEF Grown
<1>3. DOMAIN read = 1 .. n - 1 /\ DOMAIN read' = 1 .. n /\ Line(n)' = l /\ read'[n].file = arg
  BY DEF Grown, Line
<1>4. Exports(x, f, n + 1)' = Exports(x, f, n) \cup (IF new THEN {n} ELSE {})
  BY <1>1, <1>2, <1>3 DEF Exports
<1>5. LastExport(x, f, n + 1)' = Max({0} \cup Exports(x, f, n + 1)')
  BY DEF LastExport, Exports
<1>6. LastExport(x, f, n) = Max({0} \cup Exports(x, f, n))
  BY DEF LastExport, Exports
<1>7. CASE ~new
  BY <1>4, <1>5, <1>6, <1>7
<1>8. CASE new
  <2> DEFINE S == {0} \cup Exports(x, f, n + 1)'
  <2>1. S \in SUBSET Int /\ n \in S /\ \A y \in S : y <= n
    BY <1>2, <1>3, <1>4, <1>8 DEF Exports
  <2> HIDE DEF S
  <2>2. Max(S) = n
    BY <2>1, MaxIs
  <2> QED
    BY <1>5, <1>8, <2>2 DEF S
<1> QED
  BY <1>7, <1>8

\* An export of a section counts if the section is that of -env.
LEMMA CountsNew ==
    ASSUME TypesInv, EnvInv, state = "lines", NEW n, NEW l, Grown(n, l), l.kind # "section", isEnv' = isEnv
    PROVE  Counts(n)' <=> hasFollower /\ l.kind = "export"
<1>1. SectionOf(n)' = Sections
  <2>1. \A j \in 1 .. n : j \in 1 .. n - 1 \/ j = n
    BY Before
  <2>2. \A j \in 1 .. n - 1 : j \in 1 .. n
    BY Before
  <2> QED
    BY <2>1, <2>2 DEF SectionOf, Sections, Grown, Line
<1>2. (Counts(n))' <=> isEnv /\ l.kind = "export" /\ (EnvName = Unset \/ read'[Max(Sections)].line.env = EnvName)
  BY <1>1 DEF Counts, Line, Grown
<1>3. ASSUME isEnv PROVE read'[Max(Sections)] = read[Max(Sections)]
  <2>1. n - 1 \in Nat /\ Sections \in SUBSET (0 .. n - 1) /\ Sections # {}
    BY <1>3 DEF EnvInv, Sections, Grown
  <2>2. Max(Sections) \in Sections
    BY <2>1, MaxOf
  <2> QED
    BY <2>2 DEF Sections, Grown
<1>4. hasFollower <=> isEnv /\ (EnvName = Unset \/ read[Max(Sections)].line.env = EnvName)
  BY DEF EnvInv, Line
<1> QED
  BY <1>2, <1>3, <1>4

\* A line that is not of a profile changes nothing for the profiles.
LEMMA OtherLine ==
    ASSUME NEW n, NEW l, Grown(n, l), ~(Own(n))'
    PROVE  /\ \A a : BelongTo(a)' = BelongTo(a) /\ Below(a)' = Below(a)
           /\ Pending' = Pending \cup (IF IsComment(n)' THEN {n} ELSE {})
<1>1. ASSUME NEW i \in 1 .. n - 1
      PROVE  /\ (IsComment(i)' <=> IsComment(i)) /\ (Own(i)' <=> Own(i)) /\ Owner(i)' = Owner(i) /\ Line(i)' = Line(i)
  BY OldLines
<1>2. DOMAIN read = 1 .. n - 1 /\ DOMAIN read' = 1 .. n /\ Len(read) = n - 1 /\ Len(read') = n /\ n \in Nat \ {0}
  BY DEF Grown
<1>3. /\ \A i \in 1 .. n : i \in 1 .. n - 1 \/ i = n
      /\ \A i \in 1 .. n - 1 : i \in 1 .. n /\ i < n /\ i # n /\ (\A j \in 1 .. i : j \in 1 .. n - 1)
      /\ \A i, j \in 1 .. n - 1 : \A k \in i + 1 .. j - 1 : k \in 1 .. n - 1
      /\ \A i \in 1 .. n - 1 : /\ \A k \in i + 1 .. n - 1 : k \in 1 .. n - 1 /\ k \in i + 1 .. n
                               /\ \A k \in i + 1 .. n : k \in i + 1 .. n - 1 \/ k = n
      /\ n + 1 .. n = {}
  BY <1>2
<1>4. \A i, j \in 1 .. n - 1 : (\A k \in i + 1 .. j - 1 : ~(Own(k))') <=> (\A k \in i + 1 .. j - 1 : ~Own(k))
  BY <1>1, <1>3
<1>5. ASSUME NEW a PROVE BelongTo(a)' = BelongTo(a)
  <2>1. \A i \in 1 .. n : (\E j \in 1 .. n : i < j /\ (Own(j))' /\ (Owner(j))' = a /\ \A k \in i + 1 .. j - 1 : ~(Own(k))')
             => i \in 1 .. n - 1
    <3> SUFFICES ASSUME NEW j \in 1 .. n, n < j PROVE FALSE
      BY <1>3
    <3> QED
      BY <1>2
  <2>2. \A i \in 1 .. n - 1 :
          (\E j \in 1 .. n : i < j /\ (Own(j))' /\ (Owner(j))' = a /\ \A k \in i + 1 .. j - 1 : ~(Own(k))')
          <=> \E j \in 1 .. n - 1 : i < j /\ Own(j) /\ Owner(j) = a /\ \A k \in i + 1 .. j - 1 : ~Own(k)
    BY <1>1, <1>3, <1>4
  <2>3. BelongTo(a)' = {i \in 1 .. n : (IsComment(i))' /\ \E j \in 1 .. n : i < j /\ (Own(j))' /\ (Owner(j))' = a /\ \A k \in i + 1 .. j - 1 : ~(Own(k))'}
    BY <1>2 DEF BelongTo
  <2>4. BelongTo(a) = {i \in 1 .. n - 1 : IsComment(i) /\ \E j \in 1 .. n - 1 : i < j /\ Own(j) /\ Owner(j) = a /\ \A k \in i + 1 .. j - 1 : ~Own(k)}
    BY <1>2 DEF BelongTo
  <2> QED
    BY <1>1, <1>3, <2>1, <2>2, <2>3, <2>4
<1>6. ASSUME NEW a PROVE Below(a)' = Below(a)
  BY <1>1, <1>2, <1>3 DEF Below
<1>7. Pending' = Pending \cup (IF IsComment(n)' THEN {n} ELSE {})
  <2>1. \A i \in 1 .. n - 1 : (\A k \in i + 1 .. n : ~(Own(k))') <=> (\A k \in i + 1 .. n - 1 : ~Own(k))
    BY <1>1, <1>3
  <2>2. Pending' = {i \in 1 .. n : (IsComment(i))' /\ \A k \in i + 1 .. n : ~(Own(k))'}
    BY <1>2 DEF Pending
  <2>3. Pending = {i \in 1 .. n - 1 : IsComment(i) /\ \A k \in i + 1 .. n - 1 : ~Own(k)}
    BY <1>2 DEF Pending
  <2> QED
    BY <1>1, <1>2, <1>3, <2>1, <2>2, <2>3
<1> QED
  BY <1>5, <1>6, <1>7

\* A line of a profile takes the comments that are pending to it.
LEMMA OwnedLine ==
    ASSUME NEW n, NEW l, Grown(n, l), (Own(n))'
    PROVE  /\ Pending' = {}
           /\ \A a : a # (Owner(n))' => BelongTo(a)' = BelongTo(a) /\ Below(a)' = Below(a)
           /\ \A a : a = (Owner(n))' =>
                /\ BelongTo(a)' = BelongTo(a) \cup Pending
                /\ Below(a)' = IF Below(a) # {} \/ l.kind \in {"text", "export"} THEN Below(a) \cup {n} ELSE {}
<1>1. ASSUME NEW i \in 1 .. n - 1
      PROVE  /\ (IsComment(i)' <=> IsComment(i)) /\ (Own(i)' <=> Own(i)) /\ Owner(i)' = Owner(i) /\ Line(i)' = Line(i)
  BY OldLines
<1>2. /\ DOMAIN read = 1 .. n - 1 /\ DOMAIN read' = 1 .. n /\ Len(read) = n - 1 /\ Len(read') = n /\ n \in Nat \ {0}
      /\ (Line(n))' = l /\ ~(IsComment(n))'
  BY DEF Grown, Own, IsComment, Line
<1>3. /\ \A i \in 1 .. n : i \in 1 .. n - 1 \/ i = n
      /\ \A i \in 1 .. n - 1 : i \in 1 .. n /\ i < n /\ i # n /\ (\A j \in 1 .. i : j \in 1 .. n - 1) /\ n \in i + 1 .. n
      /\ \A i, j \in 1 .. n - 1 : \A k \in i + 1 .. j - 1 : k \in 1 .. n - 1
      /\ \A i \in 1 .. n - 1 : \A k \in i + 1 .. n - 1 : k \in 1 .. n - 1
      /\ n \in 1 .. n /\ \A i \in 1 .. n - 1 : i \in 1 .. n
  BY <1>2
<1>4. \A i, j \in 1 .. n - 1 : (\A k \in i + 1 .. j - 1 : ~(Own(k))') <=> (\A k \in i + 1 .. j - 1 : ~Own(k))
  BY <1>1, <1>3
<1>5. \A i \in 1 .. n - 1 : (\A k \in i + 1 .. n - 1 : ~(Own(k))') <=> (\A k \in i + 1 .. n - 1 : ~Own(k))
  BY <1>1, <1>3
<1>6. Pending' = {}
  <2>1. Pending' = {i \in 1 .. n : (IsComment(i))' /\ \A k \in i + 1 .. n : ~(Own(k))'}
    BY <1>2 DEF Pending
  <2> QED
    BY <1>2, <1>3, <2>1
<1>7. Pending = {i \in 1 .. n - 1 : IsComment(i) /\ \A k \in i + 1 .. n - 1 : ~Own(k)}
  BY <1>2 DEF Pending
<1>8. ASSUME NEW a PROVE BelongTo(a)' = BelongTo(a) \cup (IF a = (Owner(n))' THEN Pending ELSE {})
  <2>1. BelongTo(a)' = {i \in 1 .. n : (IsComment(i))' /\ \E j \in 1 .. n : i < j /\ (Own(j))' /\ (Owner(j))' = a /\ \A k \in i + 1 .. j - 1 : ~(Own(k))'}
    BY <1>2 DEF BelongTo
  <2>2. BelongTo(a) = {i \in 1 .. n - 1 : IsComment(i) /\ \E j \in 1 .. n - 1 : i < j /\ Own(j) /\ Owner(j) = a /\ \A k \in i + 1 .. j - 1 : ~Own(k)}
    BY <1>2 DEF BelongTo
  <2>3. \A i \in 1 .. n - 1 :
          (\E j \in 1 .. n : i < j /\ (Own(j))' /\ (Owner(j))' = a /\ \A k \in i + 1 .. j - 1 : ~(Own(k))')
          <=> \/ \E j \in 1 .. n - 1 : i < j /\ Own(j) /\ Owner(j) = a /\ \A k \in i + 1 .. j - 1 : ~Own(k)
              \/ a = (Owner(n))' /\ \A k \in i + 1 .. n - 1 : ~Own(k)
    BY <1>1, <1>3, <1>4, <1>5
  <2>4. ASSUME NEW i PROVE i \in BelongTo(a)' <=> i \in BelongTo(a) \/ (a = (Owner(n))' /\ i \in Pending)
    <3>1. CASE i \in 1 .. n - 1
      BY <1>1, <1>3, <1>7, <2>1, <2>2, <2>3, <3>1
    <3>2. CASE i \notin 1 .. n - 1
      BY <1>2, <1>3, <1>7, <2>1, <2>2, <3>2
    <3> QED
      BY <3>1, <3>2
  <2> QED
    BY <2>4
<1>9. ASSUME NEW a PROVE Below(a)' = Below(a) \cup (IF a = (Owner(n))' /\ (Below(a) # {} \/ l.kind \in {"text", "export"}) THEN {n} ELSE {})
  <2> DEFINE Text(j) == Own(j) /\ Owner(j) = a /\ Line(j).kind \in {"text", "export"}
  <2>1. \A j \in 1 .. n - 1 : (Text(j))' <=> Text(j)
    BY <1>1
  <2>2. (Text(n))' <=> (Owner(n))' = a /\ l.kind \in {"text", "export"}
    BY <1>2
  <2>3. Below(a) = {i \in 1 .. n - 1 : Own(i) /\ Owner(i) = a /\ \E j \in 1 .. i : Text(j)}
    BY <1>2 DEF Below
  <2>4. Below(a)' = {i \in 1 .. n : (Own(i))' /\ (Owner(i))' = a /\ \E j \in 1 .. i : (Text(j))'}
    BY <1>2 DEF Below
  <2>5. Below(a) # {} <=> \E j \in 1 .. n - 1 : Text(j)
    <3>1. ASSUME NEW j \in 1 .. n - 1, Text(j) PROVE j \in Below(a)
      <4>1. j \in 1 .. j
        OBVIOUS
      <4> QED
        BY <2>3, <3>1, <4>1
    <3> QED
      BY <1>3, <2>3, <3>1
  <2> HIDE DEF Text
  <2>6. ASSUME NEW i \in 1 .. n - 1 PROVE i \in Below(a)' <=> i \in Below(a)
    BY <1>1, <1>3, <2>1, <2>3, <2>4
  <2>7. n \in Below(a)' <=> a = (Owner(n))' /\ (Below(a) # {} \/ l.kind \in {"text", "export"})
    <3>1. (\E j \in 1 .. n : (Text(j))') <=> (\E j \in 1 .. n - 1 : Text(j)) \/ (Text(n))'
      BY <1>3, <2>1
    <3> QED
      BY <1>3, <2>2, <2>4, <2>5, <3>1
  <2>8. Below(a) \subseteq 1 .. n - 1 /\ Below(a)' \subseteq 1 .. n
    BY <2>3, <2>4
  <2> QED
    BY <1>3, <2>6, <2>7, <2>8
<1> QED
  BY <1>6, <1>8, <1>9

(***************************************************************************)
(* The profiles that lines make                                            *)
(***************************************************************************)
LEMMA EvalType ==
    ASSUME NEW env \in [Names -> Nat], NEW uses \in SUBSET Names
    PROVE  Eval(env, uses) \in Valued /\ \A v \in Eval(env, uses) : v[1] \in uses /\ v[2] = env[v[1]]
BY DEF Eval, Valued

LEMMA EnvType ==
    ASSUME TypesInv
    PROVE  envVars \in [Names -> Nat] /\ Len(read) \in Nat /\ Now \in Nat \ {0}
<1>1. Len(read) \in Nat
  BY DEF TypesInv
<1> QED
  BY <1>1 DEF TypesInv, Now

LEMMA KindsHave ==
    ASSUME NEW l \in Lines
    PROVE  /\ l.kind \in {"section", "comment", "option", "export", "request", "item", "text"}
           /\ l.kind \in {"section", "comment", "option"} => l.tag \in Tags
           /\ l.kind \in {"request", "item", "text", "export"} => l.uses \in SUBSET Names
           /\ l.kind = "export" => l.name \in Names
BY LinesAssumption DEF Tags, NoTag

LEMMA NewProfileType ==
    ASSUME TypesInv, NEW l \in Lines, l.kind = "request", NEW n, n = Now
    PROVE  /\ NewProfile(l, n) \in ProfileType /\ NewProfile(l, n).at = n /\ NewProfile(l, n).body = <<>>
           /\ NewProfile(l, n).comments = lastComments
           /\ \A v \in NewProfile(l, n).addr : v[1] \in Names /\ v[2] = envVars[v[1]]
<1>1. envVars \in [Names -> Nat] /\ n \in Nat /\ l.uses \in SUBSET Names
  BY EnvType, KindsHave
<1>2. Eval(envVars, l.uses) \in Valued /\ \A v \in Eval(envVars, l.uses) : v[1] \in Names /\ v[2] = envVars[v[1]]
  BY <1>1, EvalType
<1>3. lastComments \in Seq(Comments) /\ l.method \in {m.method : m \in Lines} /\ NoTag \in Tags /\ <<>> \in Seq(Texts)
      /\ NoVars \in [Names -> Nat]
  BY DEF TypesInv, Tags, NoVars
<1>4. NewProfile(l, n) \in ProfileType
  BY <1>1, <1>2, <1>3 DEF NewProfile, ProfileType
<1>5. /\ NewProfile(l, n).at = n /\ NewProfile(l, n).body = <<>> /\ NewProfile(l, n).comments = lastComments
      /\ NewProfile(l, n).addr = Eval(envVars, l.uses)
  BY DEF NewProfile
<1> QED
  BY <1>2, <1>4, <1>5

\* What stays as it is in a profile.
Same(r, q) == r.at = q.at /\ r.addr = q.addr

LEMMA ParseConfType ==
    ASSUME NEW q \in ProfileType, NEW l \in Lines, l.tag \in Tags
    PROVE  ParseConf(q, l) \in ProfileType /\ Same(ParseConf(q, l), q)
           /\ ParseConf(q, l).comments = q.comments /\ ParseConf(q, l).body = q.body
<1>1. q.opts \cup l.opts \in SUBSET UNION {m.opts : m \in Lines}
  BY DEF ProfileType
<1>2. (IF l.tag = NoTag THEN q.tag ELSE l.tag) \in Tags
  BY DEF ProfileType
<1> DEFINE o == q.opts \cup l.opts
           t == IF l.tag = NoTag THEN q.tag ELSE l.tag
<1>3. ParseConf(q, l) = [q EXCEPT !.opts = o, !.tag = t]
  BY DEF ParseConf
<1> HIDE DEF o, t
<1>4. [q EXCEPT !.opts = o, !.tag = t] \in ProfileType
  BY <1>1, <1>2 DEF ProfileType, o, t
<1>5. /\ [q EXCEPT !.opts = o, !.tag = t].at = q.at /\ [q EXCEPT !.opts = o, !.tag = t].addr = q.addr
      /\ [q EXCEPT !.opts = o, !.tag = t].comments = q.comments /\ [q EXCEPT !.opts = o, !.tag = t].body = q.body
  BY DEF ProfileType
<1> QED
  BY <1>3, <1>4, <1>5 DEF Same

LEMMA SetItemType ==
    ASSUME TypesInv, NEW q \in ProfileType, NEW l \in Lines, l.kind = "item", NEW n \in Nat
    PROVE  SetItem(q, l, n) \in ProfileType /\ Same(SetItem(q, l, n), q)
           /\ SetItem(q, l, n).comments = q.comments /\ SetItem(q, l, n).body = q.body
<1> DEFINE new == [field |-> Field(l.op), key |-> l.key, file |-> l.op = "@", json |-> l.json,
                   value |-> Eval(envVars, l.uses), line |-> n]
           i == {o \in q.items : o.field # new.field \/ o.key # new.key} \cup {new}
<1>1. SetItem(q, l, n) = [q EXCEPT !.items = i]
  BY DEF SetItem
<1>2. Eval(envVars, l.uses) \in Valued
  BY EnvType, KindsHave, EvalType
<1>3. Field(l.op) \in {"Query", "RawJSON", "Header", "Form"}
  BY DEF Field
<1>4. l.key \in {m.key : m \in Lines} /\ l.json \in {m.json : m \in Lines} /\ (l.op = "@") \in BOOLEAN
  OBVIOUS
<1>5. new \in Items
  BY <1>2, <1>3, <1>4 DEF Items
<1>6. i \in SUBSET Items
  <2> HIDE DEF new
  <2> QED
    BY <1>5 DEF ProfileType
<1> HIDE DEF i
<1>7. [q EXCEPT !.items = i] \in ProfileType
  BY <1>6 DEF ProfileType
<1>8. /\ [q EXCEPT !.items = i].at = q.at /\ [q EXCEPT !.items = i].addr = q.addr
      /\ [q EXCEPT !.items = i].comments = q.comments /\ [q EXCEPT !.items = i].body = q.body
  BY DEF ProfileType
<1> QED
  BY <1>1, <1>7, <1>8 DEF Same

LEMMA AddTextType ==
    ASSUME NEW q \in ProfileType, NEW e \in Texts
    PROVE  [q EXCEPT !.body = Append(@, e)] \in ProfileType /\ Same([q EXCEPT !.body = Append(@, e)], q)
           /\ [q EXCEPT !.body = Append(@, e)].comments = q.comments
           /\ [q EXCEPT !.body = Append(@, e)].body = Append(q.body, e)
<1> DEFINE b == Append(q.body, e)
<1>1. [q EXCEPT !.body = Append(@, e)] = [q EXCEPT !.body = b]
  OBVIOUS
<1>2. b \in Seq(Texts)
  BY DEF ProfileType
<1> HIDE DEF b
<1>3. [q EXCEPT !.body = b] \in ProfileType
  BY <1>2 DEF ProfileType
<1>4. [q EXCEPT !.body = b].at = q.at /\ [q EXCEPT !.body = b].addr = q.addr
      /\ [q EXCEPT !.body = b].comments = q.comments /\ [q EXCEPT !.body = b].body = b
  BY DEF ProfileType
<1> QED
  BY <1>1, <1>3, <1>4 DEF Same, b

LEMMA AddCommentsType ==
    ASSUME NEW q \in ProfileType, NEW c \in Seq(Comments)
    PROVE  [q EXCEPT !.comments = @ \o c] \in ProfileType /\ Same([q EXCEPT !.comments = @ \o c], q)
           /\ [q EXCEPT !.comments = @ \o c].comments = q.comments \o c
           /\ [q EXCEPT !.comments = @ \o c].body = q.body
<1> DEFINE b == q.comments \o c
<1>1. [q EXCEPT !.comments = @ \o c] = [q EXCEPT !.comments = b]
  OBVIOUS
<1>2. b \in Seq(Comments)
  BY DEF ProfileType
<1> HIDE DEF b
<1>3. [q EXCEPT !.comments = b] \in ProfileType
  BY <1>2 DEF ProfileType
<1>4. [q EXCEPT !.comments = b].at = q.at /\ [q EXCEPT !.comments = b].addr = q.addr
      /\ [q EXCEPT !.comments = b].body = q.body /\ [q EXCEPT !.comments = b].comments = b
  BY DEF ProfileType
<1> QED
  BY <1>1, <1>3, <1>4 DEF Same, b

LEMMA PostProcessType ==
    ASSUME TypesInv, NEW q \in ProfileType
    PROVE  PostProcess(q) \in ProfileType /\ Same(PostProcess(q), q) /\ PostProcess(q).vars = envVars
           /\ PostProcess(q).comments = q.comments /\ PostProcess(q).body = q.body
<1> DEFINE tagged == {k \in DOMAIN q.comments : q.comments[k].tag # NoTag}
           type == ContentType(q)
           json == q.body # <<>> /\ ContentType(q) = "json"
           o == q.opts \cup UNION {q.comments[k].opts : k \in DOMAIN q.comments}
           t == IF tagged = {} THEN q.tag ELSE q.comments[Max(tagged)].tag
           r == [q EXCEPT !.contentType = type, !.jsonBody = json, !.vars = envVars, !.opts = o, !.tag = t]
<1>1. PostProcess(q) = r
  BY DEF PostProcess
<1>2. type \in {"json", "other", "plain"} /\ json \in BOOLEAN /\ envVars \in [Names -> Nat]
  BY EnvType DEF ContentType
<1>3. q.comments \in Seq(Comments) /\ q.tag \in Tags /\ q.opts \subseteq UNION {m.opts : m \in Lines}
  BY DEF ProfileType
<1>4. t \in Tags
  <2>1. \A k \in DOMAIN q.comments : q.comments[k] \in Comments
    BY <1>3
  <2>2. ASSUME tagged # {} PROVE Max(tagged) \in DOMAIN q.comments
    <3>1. Len(q.comments) \in Nat /\ tagged \in SUBSET (0 .. Len(q.comments))
      BY <1>3
    <3> QED
      BY <2>2, <3>1, MaxOf
  <2> QED
    BY <1>3, <2>1, <2>2 DEF Comments
<1>5. o \in SUBSET UNION {m.opts : m \in Lines}
  <2>1. ASSUME NEW k \in DOMAIN q.comments PROVE q.comments[k].opts \subseteq UNION {m.opts : m \in Lines}
    <3>1. q.comments[k] \in Comments
      BY <1>3
    <3> QED
      BY <3>1 DEF Comments
  <2> QED
    BY <1>3, <2>1
<1> HIDE DEF type, json, o, t
<1>6. r \in ProfileType
  BY <1>2, <1>4, <1>5 DEF ProfileType
<1>7. r.at = q.at /\ r.addr = q.addr /\ r.comments = q.comments /\ r.body = q.body /\ r.vars = envVars
  BY DEF ProfileType
<1> QED
  BY <1>1, <1>6, <1>7 DEF Same

(***************************************************************************)
(* What a line does                                                        *)
(***************************************************************************)
Still == isEnv' = isEnv /\ hasFollower' = hasFollower /\ envVars' = envVars

\* The current profile becomes r.
Becomes(r) ==
    /\ r \in ProfileType /\ p \in DOMAIN parsed /\ parsed[p] \in ProfileType /\ Same(r, parsed[p])
    /\ parsed' = [parsed EXCEPT ![p] = r] /\ p' = p /\ state' = state

LEMMA BecomesParts ==
    ASSUME TypesInv, NEW r, Becomes(r)
    PROVE  /\ parsed' \in Seq(ProfileType) /\ Len(parsed') = Len(parsed) /\ DOMAIN parsed' = DOMAIN parsed
           /\ parsed'[p] = r /\ (\A k \in DOMAIN parsed : k # p => parsed'[k] = parsed[k]) /\ p' = Len(parsed')
           /\ \A k \in DOMAIN parsed : Same(parsed'[k], parsed[k])
<1>1. parsed \in Seq(ProfileType) /\ p = Len(parsed) /\ p \in 1 .. Len(parsed) /\ parsed' = [parsed EXCEPT ![p] = r] /\ r \in ProfileType
  BY DEF Becomes, TypesInv
<1>2. parsed' \in Seq(ProfileType) /\ Len(parsed') = Len(parsed) /\ DOMAIN parsed' = DOMAIN parsed
  BY <1>1
<1>3. parsed'[p] = r /\ (\A k \in DOMAIN parsed : k # p => parsed'[k] = parsed[k])
  BY <1>1
<1>4. \A k \in DOMAIN parsed : Same(parsed'[k], parsed[k])
  BY <1>3 DEF Becomes, Same
<1> QED
  BY <1>1, <1>2, <1>3, <1>4 DEF Becomes

LEMMA Current ==
    ASSUME TypesInv, p # 0
    PROVE  p \in DOMAIN parsed /\ p \in 1 .. Len(parsed) /\ parsed[p] \in ProfileType /\ parsed[p].body \in Seq(Texts)
<1>1. p \in 1 .. Len(parsed) /\ parsed \in Seq(ProfileType)
  BY DEF TypesInv
<1>2. parsed[p] \in ProfileType
  BY <1>1
<1> QED
  BY <1>1, <1>2 DEF ProfileType

LEMMA OptionEffect ==
    ASSUME TypesInv, NEW l \in Lines, l.kind = "option", OptionLine(l)
    PROVE  /\ lastComments' = lastComments
           /\ \/ parsed' = parsed /\ p' = p /\ state' = state
              \/ \E r : Becomes(r) /\ r.comments = parsed[p].comments /\ r.body = parsed[p].body
<1>1. CASE p = 0
  BY <1>1 DEF OptionLine
<1>2. CASE p # 0
  <2> DEFINE r == ParseConf(parsed[p], l)
  <2>1. r \in ProfileType /\ Same(r, parsed[p]) /\ r.comments = parsed[p].comments /\ r.body = parsed[p].body
    BY <1>2, Current, KindsHave, ParseConfType
  <2>2. parsed' = [parsed EXCEPT ![p] = r] /\ p' = p /\ state' = state /\ lastComments' = lastComments
    BY <1>2 DEF OptionLine
  <2> HIDE DEF r
  <2>3. Becomes(r)
    BY <1>2, <2>1, <2>2, Current DEF Becomes
  <2> QED
    BY <2>1, <2>2, <2>3
<1> QED
  BY <1>1, <1>2

\* It takes the comments, and its body gets another line or stays empty.
Takes(r) == Becomes(r) /\ r.comments = parsed[p].comments \o lastComments /\ lastComments' = <<>>

LEMMA TakesOf ==
    ASSUME TypesInv, p # 0, NEW q \in ProfileType, Same(q, parsed[p]), q.comments = parsed[p].comments,
           TakeComments(q), p' = p, state' = state
    PROVE  \E r : Takes(r) /\ r.body = q.body
<1> DEFINE r == [q EXCEPT !.comments = @ \o lastComments]
<1>1. lastComments \in Seq(Comments)
  BY DEF TypesInv
<1>2. r \in ProfileType /\ Same(r, q) /\ r.comments = q.comments \o lastComments /\ r.body = q.body
  BY <1>1, AddCommentsType
<1>3. parsed' = [parsed EXCEPT ![p] = r] /\ lastComments' = <<>>
  BY DEF TakeComments
<1> HIDE DEF r
<1>4. Takes(r)
  BY <1>2, <1>3, Current DEF Takes, Becomes, Same
<1> QED
  BY <1>2, <1>4

LEMMA ItemEffect ==
    ASSUME TypesInv, NEW l \in Lines, l.kind = "item", ItemLine(l)
    PROVE  p # 0 /\ parsed[p].body = <<>> /\ \E r : Takes(r) /\ r.body = <<>>
<1>1. p # 0 /\ parsed[p].body = <<>> /\ TakeComments(SetItem(parsed[p], l, Now)) /\ p' = p /\ state' = state
  BY DEF ItemLine
<1>2. parsed[p] \in ProfileType /\ Now \in Nat
  BY <1>1, Current, EnvType
<1>3. SetItem(parsed[p], l, Now) \in ProfileType /\ Same(SetItem(parsed[p], l, Now), parsed[p])
      /\ SetItem(parsed[p], l, Now).comments = parsed[p].comments /\ SetItem(parsed[p], l, Now).body = parsed[p].body
  BY <1>2, SetItemType
<1> QED
  BY <1>1, <1>3, TakesOf

LEMMA TextEffect ==
    ASSUME TypesInv, NEW l \in Lines, l.kind \in {"item", "text", "export"}, TextLine(l)
    PROVE  /\ p # 0 /\ (l.kind = "item" => parsed[p].body # <<>>)
           /\ \E r : Takes(r) /\ \E e \in Texts : e.line = Now /\ r.body = Append(parsed[p].body, e)
<1> DEFINE e == [line |-> Now, json |-> l.json, uses |-> l.uses]
           q == [parsed[p] EXCEPT !.body = Append(@, e)]
<1>1. p # 0 /\ (l.kind = "item" => parsed[p].body # <<>>) /\ TakeComments(q) /\ p' = p /\ state' = state
  BY DEF TextLine
<1>2. parsed[p] \in ProfileType
  BY <1>1, Current
<1>3. e \in Texts /\ e.line = Now
  BY EnvType, KindsHave DEF Texts
<1> HIDE DEF e
<1>4. q \in ProfileType /\ Same(q, parsed[p]) /\ q.comments = parsed[p].comments /\ q.body = Append(parsed[p].body, e)
  BY <1>2, <1>3, AddTextType
<1> HIDE DEF q
<1>5. \E r : Takes(r) /\ r.body = q.body
  BY <1>1, <1>4, TakesOf
<1> QED
  BY <1>1, <1>3, <1>4, <1>5

NotOwned(n) ==
    /\ ~(Own(n))' /\ state' = state
    /\ \/ parsed' = parsed /\ p' = p
       \/ \E r : Becomes(r) /\ r.comments = parsed[p].comments /\ r.body = parsed[p].body
    /\ IF (IsComment(n))' THEN \E c \in Comments : c.line = n /\ lastComments' = Append(lastComments, c)
       ELSE lastComments' = lastComments
Requested(n, l) ==
    /\ (Own(n))' /\ l.kind = "request" /\ state' = state /\ Still
    /\ parsed' = Append(parsed, NewProfile(l, n)) /\ p' = Len(parsed) + 1 /\ lastComments' = <<>>
TakenIn(n, l) ==
    /\ (Own(n))' /\ l.kind \in {"item", "text", "export"} /\ p # 0
    /\ \E r : /\ Takes(r)
              /\ \/ l.kind = "item" /\ parsed[p].body = <<>> /\ r.body = <<>>
                 \/ /\ l.kind = "item" => parsed[p].body # <<>>
                    /\ \E e \in Texts : e.line = n /\ r.body = Append(parsed[p].body, e)
Panicked(n, l) ==
    /\ (Own(n))' /\ l.kind \in {"item", "text", "export"} /\ p = 0 /\ state' = "panic"
    /\ parsed' = parsed /\ p' = p /\ lastComments' = lastComments

LEMMA CommentEffect ==
    ASSUME TypesInv, NEW l \in Lines, l.kind \in {"section", "comment"}, Comment(l), NEW n, n = Now
    PROVE  /\ parsed' = parsed /\ p' = p /\ state' = state
           /\ \E c \in Comments : c.line = n /\ lastComments' = Append(lastComments, c)
<1> DEFINE c == [line |-> n, opts |-> l.opts, tag |-> l.tag]
<1>1. l.tag \in Tags /\ n \in Nat
  BY KindsHave, EnvType
<1>2. c \in Comments /\ c.line = n
  BY <1>1 DEF Comments
<1>3. lastComments' = Append(lastComments, c) /\ parsed' = parsed /\ p' = p /\ state' = state
  BY DEF Comment
<1> QED
  BY <1>2, <1>3

LEMMA LineOutcome ==
    ASSUME TypesInv, NEW l \in Lines, SectionLine(l) \/ EnvLine(l) \/ OwnLine(l), NEW n, n = Now, Grown(n, l)
    PROVE  NotOwned(n) \/ Requested(n, l) \/ TakenIn(n, l) \/ Panicked(n, l)
<1>1. /\ (Own(n))' <=> ~isEnv' /\ l.kind \in {"request", "item", "text", "export"}
      /\ (IsComment(n))' <=> ~isEnv' /\ l.kind \in {"section", "comment"}
  BY DEF Grown, Own, IsComment, Line
<1>2. CASE SectionLine(l)
  <2>1. l.kind = "section" /\ IF isEnv' THEN parsed' = parsed /\ p' = p /\ lastComments' = lastComments /\ state' = state ELSE ProcessLine(l)
    BY <1>2 DEF SectionLine
  <2>2. ASSUME ~isEnv' PROVE Comment(l)
    BY <2>1, <2>2 DEF ProcessLine
  <2> QED
    BY <1>1, <2>1, <2>2, CommentEffect DEF NotOwned
<1>3. CASE EnvLine(l)
  BY <1>1, <1>3 DEF EnvLine, NotOwned
<1>4. CASE OwnLine(l)
  <2>1. l.kind # "section" /\ ~isEnv' /\ ProcessLine(l) /\ Still
    BY <1>4 DEF OwnLine, Still
  <2>2. CASE l.kind = "comment"
    <3>1. Comment(l)
      BY <2>1, <2>2 DEF ProcessLine
    <3> QED
      BY <1>1, <2>1, <2>2, <3>1, CommentEffect DEF NotOwned
  <2>3. CASE l.kind = "option"
    <3>1. OptionLine(l)
      BY <2>1, <2>3 DEF ProcessLine
    <3>2. ~(Own(n))' /\ ~(IsComment(n))'
      BY <1>1, <2>3
    <3>3. lastComments' = lastComments
      BY <2>3, <3>1, OptionEffect
    <3>4. state' = state
      BY <3>1 DEF OptionLine
    <3>5. \/ parsed' = parsed /\ p' = p
          \/ \E r : Becomes(r) /\ r.comments = parsed[p].comments /\ r.body = parsed[p].body
      BY <2>3, <3>1, OptionEffect
    <3> QED
      BY <3>2, <3>3, <3>4, <3>5 DEF NotOwned
  <2>4. CASE l.kind = "request"
    <3>1. RequestLine(l)
      BY <2>1, <2>4 DEF ProcessLine
    <3> QED
      BY <1>1, <2>1, <2>4, <3>1 DEF RequestLine, Requested
  <2>5. CASE l.kind \in {"item", "text", "export"}
    <3>1. (l.kind = "item" /\ ItemLine(l)) \/ TextLine(l) \/ Panic
      BY <2>1, <2>5 DEF ProcessLine
    <3>2. (Own(n))'
      BY <1>1, <2>1, <2>5
    <3>3. CASE l.kind = "item" /\ ItemLine(l)
      BY <3>2, <3>3, ItemEffect DEF TakenIn
    <3>4. CASE TextLine(l)
      BY <2>5, <3>2, <3>4, TextEffect DEF TakenIn
    <3>5. CASE Panic
      BY <2>5, <3>2, <3>5 DEF Panic, Panicked
    <3> QED
      BY <3>1, <3>3, <3>4, <3>5
  <2> QED
    BY <2>1, <2>2, <2>3, <2>4, <2>5, KindsHave
<1> QED
  BY <1>2, <1>3, <1>4

\* What a line does to the variables.
LEMMA LineEnv ==
    ASSUME TypesInv, NEW l \in Lines, SectionLine(l) \/ EnvLine(l) \/ OwnLine(l), NEW n, n = Now
    PROVE  /\ isEnv' \in BOOLEAN /\ hasFollower' \in BOOLEAN /\ (hasFollower' => isEnv')
           /\ \/ /\ l.kind = "section" /\ envVars' = envVars
                 /\ hasFollower' <=> isEnv' /\ (EnvName = Unset \/ l.env = EnvName)
              \/ /\ l.kind # "section" /\ isEnv' = isEnv /\ hasFollower' = hasFollower
                 /\ IF hasFollower /\ l.kind = "export" THEN envVars' = [envVars EXCEPT ![l.name] = n] ELSE envVars' = envVars
<1>1. isEnv \in BOOLEAN /\ hasFollower \in BOOLEAN /\ (hasFollower => isEnv)
  BY DEF TypesInv
<1>2. CASE SectionLine(l)
  BY <1>2 DEF SectionLine, IsEnvLine, MatchFollower
<1>3. CASE EnvLine(l)
  BY <1>1, <1>3 DEF EnvLine
<1>4. CASE OwnLine(l)
  BY <1>1, <1>4 DEF OwnLine
<1> QED
  BY <1>2, <1>3, <1>4

LEMMA OutcomeTypes ==
    ASSUME TypesInv, NEW l \in Lines, NEW n, n = Now,
           NotOwned(n) \/ Requested(n, l) \/ TakenIn(n, l) \/ Panicked(n, l)
    PROVE  /\ parsed' \in Seq(ProfileType) /\ p' = Len(parsed') /\ lastComments' \in Seq(Comments)
           /\ state' = state \/ state' = "panic"
<1>1. parsed \in Seq(ProfileType) /\ p = Len(parsed) /\ lastComments \in Seq(Comments) /\ <<>> \in Seq(Comments)
  BY DEF TypesInv
<1>2. ASSUME NEW r, Becomes(r) PROVE parsed' \in Seq(ProfileType) /\ p' = Len(parsed') /\ state' = state
  BY <1>2, BecomesParts DEF Becomes
<1>3. CASE NotOwned(n)
  <2>1. lastComments' \in Seq(Comments)
    BY <1>1, <1>3 DEF NotOwned
  <2> QED
    BY <1>1, <1>2, <1>3, <2>1 DEF NotOwned
<1>4. CASE Requested(n, l)
  <2>1. NewProfile(l, n) \in ProfileType
    BY <1>4, NewProfileType DEF Requested
  <2>2. /\ parsed' = Append(parsed, NewProfile(l, n)) /\ p' = Len(parsed) + 1 /\ lastComments' = <<>> /\ state' = state
    BY <1>4 DEF Requested
  <2> HIDE DEF ProfileType
  <2> QED
    BY <1>1, <2>1, <2>2
<1>5. CASE TakenIn(n, l)
  BY <1>1, <1>2, <1>5 DEF TakenIn, Takes
<1>6. CASE Panicked(n, l)
  BY <1>1, <1>6 DEF Panicked
<1> QED
  BY <1>3, <1>4, <1>5, <1>6

(***************************************************************************)
(* Types are kept                                                          *)
(***************************************************************************)
LEMMA ReadTypes ==
    ASSUME TypesInv, ReadLine
    PROVE  TypesInv'
<1>1. PICK l \in Lines : (SectionLine(l) \/ EnvLine(l) \/ OwnLine(l)) /\ Reading(l)
  BY DEF ReadLine
<1> DEFINE n == Now
<1>2. n = Now /\ n \in Nat /\ n = Len(read) + 1 /\ Len(read) \in Nat
  BY EnvType DEF Now
<1> HIDE DEF n
<1>3. /\ isEnv' \in BOOLEAN /\ hasFollower' \in BOOLEAN /\ (hasFollower' => isEnv')
      /\ envVars' = envVars \/ (l.kind = "export" /\ envVars' = [envVars EXCEPT ![l.name] = n])
  BY <1>1, <1>2, LineEnv
<1>4. Grown(n, l) /\ UNCHANGED <<args, arg, tag, hasNew, profiles, found>>
  BY <1>1, <1>2, <1>3, Grows
<1>5. /\ parsed' \in Seq(ProfileType) /\ p' = Len(parsed') /\ lastComments' \in Seq(Comments)
      /\ state' = state \/ state' = "panic"
  BY <1>1, <1>2, <1>4, LineOutcome, OutcomeTypes
<1>6. envVars' \in [Names -> 0 .. Len(read')]
  <2>1. envVars \in [Names -> 0 .. Len(read)] /\ Len(read') = n /\ 0 .. Len(read) \subseteq 0 .. n /\ n \in 0 .. n
    BY <1>2, <1>4 DEF TypesInv, Grown
  <2> QED
    BY <1>3, <2>1
<1>7. read' \in Seq(Entries)
  BY <1>4 DEF Grown
<1> QED
  BY <1>3, <1>4, <1>5, <1>6, <1>7 DEF TypesInv

LEMMA FileTypes ==
    ASSUME TypesInv, NewFile \/ OpenFile \/ Finish
    PROVE  TypesInv'
<1>1. CASE NewFile
  <2>1. /\ arg' = arg + 1 /\ arg < Len(args) /\ hasNew' = TRUE
        /\ UNCHANGED <<args, profiles, found, read, isEnv, hasFollower, envVars, parsed, p, lastComments, state>>
    BY <1>1 DEF NewFile, NextArg, parserVars
  <2>2. arg' \in 0 .. Len(args)
    BY <2>1 DEF TypesInv
  <2> QED
    BY <2>1, <2>2 DEF TypesInv
<1>2. CASE OpenFile
  <2>1. /\ arg' = arg + 1 /\ arg < Len(args) /\ state' = "lines" /\ isEnv' = FALSE /\ hasFollower' = FALSE
        /\ envVars' = NoVars /\ parsed' = <<>> /\ p' = 0
        /\ UNCHANGED <<args, profiles, found, read, hasNew, lastComments>>
    BY <1>2 DEF OpenFile, NextArg, ParseBegin
  <2>2. arg' \in 0 .. Len(args) /\ NoVars \in [Names -> 0 .. Len(read)] /\ <<>> \in Seq(ProfileType) /\ Len(<<>>) = 0
    <3>1. 0 \in 0 .. Len(read)
      BY EnvType
    <3> QED
      BY <2>1, <3>1 DEF TypesInv, NoVars
  <2> QED
    BY <2>1, <2>2 DEF TypesInv
<1>3. CASE Finish
  <2>1. UNCHANGED <<args, arg, hasNew, profiles, found, isEnv, hasFollower, envVars, parsed, p, lastComments, read>>
        /\ state' \in {"created", "fatal", "done"}
    BY <1>3 DEF Finish, argVars, parserVars
  <2> QED
    BY <2>1 DEF TypesInv
<1> QED
  BY <1>1, <1>2, <1>3

LEMMA PlacesFew ==
    ASSUME NEW s, Len(s) \in Nat, NEW S, NEW at, Places(s, S, at)
    PROVE  Len(at) <= Len(s)
<1>1. at \in [1 .. Len(at) -> 1 .. Len(s)] /\ Len(at) \in Nat
  BY DEF Places
<1>2. \A j, k \in 1 .. Len(at) : j < k => at[j] < at[k]
  BY DEF Places
<1>3. ASSUME NEW j \in 1 .. Len(at), NEW k \in 1 .. Len(at), at[j] = at[k] PROVE j = k
  <2>1. j < k \/ k < j \/ j = k
    BY <1>1
  <2>2. at[j] \in 1 .. Len(s) /\ at[k] \in 1 .. Len(s)
    BY <1>1
  <2> QED
    BY <1>2, <1>3, <2>1, <2>2
<1>4. at \in Injection(1 .. Len(at), 1 .. Len(s))
  BY <1>1, <1>3 DEF Injection, IsInjective
<1>5. \A n \in Nat : Cardinality(1 .. n) = n /\ IsFiniteSet(1 .. n)
  <2> SUFFICES ASSUME NEW n \in Nat PROVE Cardinality(1 .. n) = n /\ IsFiniteSet(1 .. n)
    OBVIOUS
  <2>1. 1 \in Int /\ n \in Int /\ (IF 1 > n THEN 0 ELSE n - 1 + 1) = n
    OBVIOUS
  <2> QED
    BY <2>1, FS_Interval
<1> QED
  BY <1>1, <1>4, <1>5, FS_Injection

(***************************************************************************)
(* The end of a file                                                       *)
(***************************************************************************)
\* The profiles as they are found, of which those in sel are selected, whose places are at.
Closes(done, sel, at) ==
    /\ done \in Seq(ProfileType) /\ Len(done) = Len(parsed)
    /\ \A i \in 1 .. Len(parsed) :
          /\ Same(done[i], parsed[i]) /\ done[i].vars = envVars
          /\ done[i].comments = parsed[i].comments /\ done[i].body = parsed[i].body
    /\ sel \in Seq(ProfileType) /\ Len(sel) = Len(at) /\ Places(done, {q \in ToSet(done) : Selects(q)}, at)
    /\ \A k \in 1 .. Len(at) : sel[k] = done[at[k]]
    /\ profiles' = profiles \o sel
    /\ found' = found \o [i \in 1 .. Len(parsed) |-> [file |-> arg, profile |-> done[i]]]

LEMMA EndEffect ==
    ASSUME TypesInv, EndFile
    PROVE  /\ \E done, sel, at : Closes(done, sel, at)
           /\ state = "lines" /\ state' = "arg"
           /\ UNCHANGED <<args, arg, tag, hasNew, isEnv, hasFollower, envVars, parsed, p, lastComments, read>>
<1> DEFINE done == [i \in DOMAIN parsed |-> PostProcess(parsed[i])]
           S == {q \in ToSet(done) : Selects(q)}
<1>1. /\ profiles' = profiles \o Selection(done, S)
      /\ found' = found \o [i \in DOMAIN done |-> [file |-> arg, profile |-> done[i]]]
      /\ state = "lines" /\ state' = "arg"
      /\ UNCHANGED <<args, arg, tag, hasNew, isEnv, hasFollower, envVars, parsed, p, lastComments, read>>
  BY DEF EndFile, parserVars
<1>2. parsed \in Seq(ProfileType) /\ DOMAIN parsed = 1 .. Len(parsed) /\ Len(parsed) \in Nat
  BY DEF TypesInv
<1>3. ASSUME NEW i \in 1 .. Len(parsed)
      PROVE  /\ PostProcess(parsed[i]) \in ProfileType /\ Same(PostProcess(parsed[i]), parsed[i])
             /\ PostProcess(parsed[i]).vars = envVars
             /\ PostProcess(parsed[i]).comments = parsed[i].comments /\ PostProcess(parsed[i]).body = parsed[i].body
  <2>1. parsed[i] \in ProfileType
    BY <1>2
  <2> QED
    BY <2>1, PostProcessType
<1>4. \A i \in 1 .. Len(parsed) : done[i] = PostProcess(parsed[i])
  BY <1>2
<1>5. done \in [1 .. Len(parsed) -> ProfileType] /\ DOMAIN done = 1 .. Len(parsed)
  BY <1>2, <1>3
<1>6. done \in Seq(ProfileType) /\ Len(done) = Len(parsed)
  BY <1>2, <1>5
<1> HIDE DEF done
<1> DEFINE sel == Selection(done, S)
<1>7. PICK at : Places(done, S, at) /\ Len(sel) = Len(at) /\ sel \in Seq(ProfileType) /\ \A k \in 1 .. Len(at) : sel[k] = done[at[k]]
  <2> HIDE DEF S
  <2> QED
    BY <1>6, SelectionPlaces
<1> HIDE DEF sel
<1>8. \A i \in 1 .. Len(parsed) :
          /\ Same(done[i], parsed[i]) /\ done[i].vars = envVars
          /\ done[i].comments = parsed[i].comments /\ done[i].body = parsed[i].body
  BY <1>3, <1>4
<1>9. profiles' = profiles \o sel /\ found' = found \o [i \in 1 .. Len(parsed) |-> [file |-> arg, profile |-> done[i]]]
  BY <1>1, <1>5 DEF sel
<1>10. Closes(done, sel, at)
  BY <1>6, <1>7, <1>8, <1>9 DEF Closes
<1> QED
  BY <1>1, <1>10

LEMMA EndFound ==
    ASSUME TypesInv, NEW done, NEW sel, NEW at, Closes(done, sel, at)
    PROVE  /\ Len(parsed) \in Nat /\ Len(found) \in Nat /\ DOMAIN parsed = 1 .. Len(parsed)
           /\ found' \in Seq([file : Nat, profile : ProfileType]) /\ Len(found') = Len(found) + Len(parsed)
           /\ DOMAIN found = 1 .. Len(found) /\ DOMAIN found' = 1 .. Len(found) + Len(parsed)
           /\ \A i \in 1 .. Len(found) : found'[i] = found[i]
           /\ \A i \in 1 .. Len(parsed) : found'[Len(found) + i].file = arg /\ found'[Len(found) + i].profile = done[i]
           /\ \A i \in 1 .. Len(found) + Len(parsed) : i \in 1 .. Len(found) \/ \E j \in 1 .. Len(parsed) : i = Len(found) + j
<1> DEFINE m == Len(parsed)
           n == Len(found)
           new == [i \in 1 .. m |-> [file |-> arg, profile |-> done[i]]]
           E == [file : Nat, profile : ProfileType]
<1>1. m \in Nat /\ n \in Nat /\ DOMAIN parsed = 1 .. m /\ DOMAIN found = 1 .. n /\ arg \in Nat /\ found \in Seq(E)
  BY DEF TypesInv
<1>2. found' = found \o new /\ done \in Seq(ProfileType) /\ Len(done) = m
  BY DEF Closes
<1>3. new \in [1 .. m -> E]
  <2>1. \A i \in 1 .. m : done[i] \in ProfileType
    BY <1>2
  <2> QED
    BY <1>1, <2>1
<1>4. \A i \in 1 .. m : new[i].file = arg /\ new[i].profile = done[i]
  OBVIOUS
<1>5. new \in Seq(E) /\ Len(new) = m
  BY <1>1, <1>3
<1> HIDE DEF new, E, m, n
<1>6. /\ found' \in Seq(E) /\ Len(found') = n + m /\ DOMAIN found' = 1 .. n + m
      /\ (\A i \in 1 .. n : found'[i] = found[i]) /\ (\A i \in 1 .. m : found'[n + i] = new[i])
      /\ \A i \in 1 .. n + m : i \in 1 .. n \/ \E j \in 1 .. m : i = n + j
  <2>1. n = Len(found) /\ found \in Seq(E) /\ new \in Seq(E) /\ found' = found \o new /\ Len(new) = m
    BY <1>1, <1>2, <1>5 DEF n
  <2>2. found \in Seq(E) /\ new \in Seq(E)
    BY <2>1
  <2>3. /\ found \o new \in Seq(E) /\ Len(found \o new) = Len(found) + Len(new)
        /\ DOMAIN (found \o new) = 1 .. Len(found) + Len(new)
    BY <2>2, Concat
  <2>4. /\ (\A k \in 1 .. Len(found) : (found \o new)[k] = found[k])
        /\ (\A k \in 1 .. Len(new) : (found \o new)[Len(found) + k] = new[k])
        /\ \A k \in 1 .. Len(found) + Len(new) : k \in 1 .. Len(found) \/ \E i \in 1 .. Len(new) : k = Len(found) + i
    BY <2>2, Concat
  <2> QED
    BY <2>1, <2>3, <2>4, Zenon
<1> QED
  BY <1>1, <1>4, <1>6 DEF m, n, E

LEMMA EndTypes ==
    ASSUME TypesInv, EndFile
    PROVE  TypesInv'
<1>1. PICK done, sel, at : Closes(done, sel, at)
  BY EndEffect
<1>2. found' \in Seq([file : Nat, profile : ProfileType]) /\ Len(found') = Len(found) + Len(parsed)
  BY <1>1, EndFound
<1>3. profiles' \in Seq(ProfileType) /\ Len(profiles') = Len(profiles) + Len(at)
  <2>1. profiles' = profiles \o sel /\ sel \in Seq(ProfileType) /\ Len(sel) = Len(at)
    BY <1>1 DEF Closes
  <2>2. profiles \in Seq(ProfileType)
    BY DEF TypesInv
  <2>3. profiles \o sel \in Seq(ProfileType) /\ Len(profiles \o sel) = Len(profiles) + Len(sel)
    BY <2>1, <2>2, Concat, Zenon
  <2> QED
    BY <2>1, <2>3, Zenon
<1>4. Len(at) <= Len(parsed) /\ Len(at) \in Nat /\ Len(parsed) \in Nat
  <2>1. Len(done) \in Nat /\ Len(done) = Len(parsed) /\ Len(at) \in Nat
    BY <1>1 DEF Closes, Places
  <2> QED
    BY <1>1, <2>1, PlacesFew DEF Closes
<1>5. Len(profiles') <= Len(found')
  <2>1. Len(profiles) \in Nat /\ Len(found) \in Nat /\ Len(profiles) <= Len(found)
    BY DEF TypesInv
  <2> QED
    BY <1>2, <1>3, <1>4, <2>1
<1> QED
  BY <1>2, <1>3, <1>5, EndEffect DEF TypesInv

LEMMA TypesInit ==
    ASSUME Init
    PROVE  TypesInv
<1>1. args \in Seq(Args) /\ Len(args) \in Nat
  <2>1. args \in Seq([new : BOOLEAN, tagged : BOOLEAN, values : SUBSET Values])
    BY ArgListsAssumption DEF Init, Values
  <2> QED
    BY <2>1 DEF Args
<1>2. NoVars \in [Names -> 0 .. 0] /\ Len(<<>>) = 0
  BY DEF NoVars
<1>3. args \in ArgLists /\ arg = 0 /\ hasNew = FALSE /\ state = "arg" /\ isEnv = FALSE /\ hasFollower = FALSE /\ p = 0
  BY DEF Init
<1>4. profiles = <<>> /\ found = <<>> /\ parsed = <<>> /\ lastComments = <<>> /\ read = <<>> /\ envVars = NoVars
  BY DEF Init
<1>5. envVars \in [Names -> 0 .. Len(read)]
  BY <1>2, <1>4
<1>6. /\ parsed \in Seq(ProfileType) /\ p = Len(parsed) /\ lastComments \in Seq(Comments) /\ read \in Seq(Entries)
      /\ found \in Seq([file : Nat, profile : ProfileType]) /\ profiles \in Seq(ProfileType) /\ Len(profiles) <= Len(found)
  BY <1>3, <1>4
<1>7. arg \in 0 .. Len(args)
  BY <1>1, <1>3
<1> QED
  BY <1>1, <1>3, <1>5, <1>6, <1>7 DEF TypesInv

LEMMA TypesStep ==
    ASSUME TypesInv, [Next]_vars
    PROVE  TypesInv'
<1>1. CASE UNCHANGED vars
  BY <1>1 DEF vars, argVars, parserVars, TypesInv
<1> QED
  BY <1>1, ReadTypes, FileTypes, EndTypes DEF Next, Ended

(***************************************************************************)
(* The lines and the variables                                             *)
(***************************************************************************)
\* A step that reads a line, and all that the lemmas about it assume.
Reads(n, l) ==
    /\ l \in Lines /\ n = Now /\ Grown(n, l) /\ state = "lines"
    /\ UNCHANGED <<args, arg, tag, hasNew, profiles, found>>
    /\ NotOwned(n) \/ Requested(n, l) \/ TakenIn(n, l) \/ Panicked(n, l)
    /\ isEnv' \in BOOLEAN
    /\ \/ /\ l.kind = "section" /\ envVars' = envVars
          /\ hasFollower' <=> isEnv' /\ (EnvName = Unset \/ l.env = EnvName)
       \/ /\ l.kind # "section" /\ isEnv' = isEnv /\ hasFollower' = hasFollower
          /\ IF hasFollower /\ l.kind = "export" THEN envVars' = [envVars EXCEPT ![l.name] = n] ELSE envVars' = envVars

LEMMA ReadEffect ==
    ASSUME TypesInv, ReadLine
    PROVE  \E l, n : Reads(n, l)
<1>1. PICK l \in Lines : (SectionLine(l) \/ EnvLine(l) \/ OwnLine(l)) /\ Reading(l)
  BY DEF ReadLine
<1>2. PICK n : n = Now
  OBVIOUS
<1>3. /\ isEnv' \in BOOLEAN
      /\ \/ /\ l.kind = "section" /\ envVars' = envVars
            /\ hasFollower' <=> isEnv' /\ (EnvName = Unset \/ l.env = EnvName)
         \/ /\ l.kind # "section" /\ isEnv' = isEnv /\ hasFollower' = hasFollower
            /\ IF hasFollower /\ l.kind = "export" THEN envVars' = [envVars EXCEPT ![l.name] = n] ELSE envVars' = envVars
  BY <1>1, <1>2, LineEnv
<1>4. Grown(n, l) /\ state = "lines" /\ UNCHANGED <<args, arg, tag, hasNew, profiles, found>>
  BY <1>1, <1>2, <1>3, Grows
<1>5. NotOwned(n) \/ Requested(n, l) \/ TakenIn(n, l) \/ Panicked(n, l)
  BY <1>1, <1>2, <1>4, LineOutcome
<1> QED
  BY <1>2, <1>3, <1>4, <1>5 DEF Reads

LEMMA SectionsNew ==
    ASSUME NEW n, NEW l, Grown(n, l), arg' = arg
    PROVE  Sections' = Sections \cup (IF l.kind = "section" THEN {n} ELSE {})
<1>1. /\ \A i \in 1 .. n : i \in 1 .. n - 1 \/ i = n
      /\ \A i \in 1 .. n - 1 : i \in 1 .. n /\ read'[i] = read[i]
      /\ n \in 1 .. n /\ DOMAIN read = 1 .. n - 1 /\ DOMAIN read' = 1 .. n /\ read'[n].file = arg /\ read'[n].line = l
  BY DEF Grown
<1> QED
  BY <1>1 DEF Sections, Line

LEMMA ReadInvLine ==
    ASSUME TypesInv, ReadInv, EnvInv, NEW n, NEW l, Reads(n, l)
    PROVE  ReadInv'
<1>1. Grown(n, l) /\ arg' = arg /\ state = "lines" /\ arg \in Nat \ {0}
  BY DEF Reads, ReadInv, TypesInv
<1>2. /\ \A i \in 1 .. n : i \in 1 .. n - 1 \/ i = n
      /\ DOMAIN read = 1 .. n - 1 /\ DOMAIN read' = 1 .. n /\ n \in 1 .. n /\ \A i \in 1 .. n - 1 : i < n
      /\ read'[n].file = arg /\ read'[n].isEnv = isEnv' /\ Line(n)' = l
  BY <1>1 DEF Grown, Line
<1>3. \A i \in 1 .. n - 1 : read'[i] = read[i] /\ read[i].file \in 1 .. arg
  BY <1>1, <1>2 DEF Grown, ReadInv
<1>4. \A i \in DOMAIN read' : read'[i].file \in 1 .. arg'
  BY <1>1, <1>2, <1>3
<1>5. ASSUME NEW i \in DOMAIN read', NEW j \in DOMAIN read', i <= j PROVE read'[i].file <= read'[j].file
  <2>1. CASE j = n
    BY <1>1, <1>2, <1>4, <2>1
  <2>2. CASE j # n
    <3>1. i \in 1 .. n - 1 /\ j \in 1 .. n - 1
      BY <1>2, <1>5, <2>2
    <3> QED
      BY <1>2, <1>3, <1>5, <3>1 DEF ReadInv
  <2> QED
    BY <2>1, <2>2
<1>6. ASSUME NEW i \in DOMAIN read', read'[i].isEnv PROVE SectionOf(i)' # {}
  <2>1. CASE i = n
    <3>1. SectionOf(n)' = {j \in 1 .. n : read'[j].line.kind = "section" /\ read'[j].file = arg}
      BY <1>2 DEF SectionOf, Line
    <3>2. CASE l.kind = "section"
      BY <1>2, <2>1, <3>1, <3>2 DEF Line
    <3>3. CASE l.kind # "section"
      <4>1. Sections # {}
        BY <1>2, <1>6, <2>1, <3>3 DEF Reads, EnvInv
      <4>2. PICK j \in 1 .. n - 1 : read[j].line.kind = "section" /\ read[j].file = arg
        BY <1>2, <4>1 DEF Sections, Line
      <4>3. j \in 1 .. n
        BY <1>1, Before
      <4> QED
        BY <1>3, <2>1, <3>1, <4>2, <4>3
    <3> QED
      BY <3>2, <3>3
  <2>2. CASE i # n
    <3>1. i \in 1 .. n - 1
      BY <1>2, <2>2
    <3>2. SectionOf(i)' = SectionOf(i)
      BY <1>1, <3>1, OldLines
    <3> QED
      BY <1>2, <1>3, <1>6, <3>1, <3>2 DEF ReadInv
  <2> QED
    BY <2>1, <2>2
<1> QED
  BY <1>1, <1>4, <1>5, <1>6 DEF ReadInv

LEMMA EnvInvLine ==
    ASSUME TypesInv, ReadInv, EnvInv, NEW n, NEW l, Reads(n, l)
    PROVE  EnvInv'
<1>1. Grown(n, l) /\ arg' = arg /\ state = "lines" /\ n \in Nat /\ Now' = n + 1 /\ Now = n
  BY DEF Reads, Grown, Now
<1>2. Sections' = Sections \cup (IF l.kind = "section" THEN {n} ELSE {}) /\ Sections \in SUBSET (0 .. n - 1)
      /\ n - 1 \in Nat
  BY <1>1, SectionsNew DEF Sections, Grown
<1>3. Line(n)' = l /\ \A i \in 1 .. n - 1 : Line(i)' = Line(i)
  BY <1>1, OldLines DEF Grown, Line
<1>4. \A x \in Names : envVars[x] = LastExport(x, arg, n)
  BY <1>1 DEF EnvInv
<1>5. CASE l.kind = "section"
  <2>1. envVars' = envVars /\ (hasFollower' <=> isEnv' /\ (EnvName = Unset \/ l.env = EnvName))
    BY <1>5 DEF Reads
  <2>2. Sections' # {} /\ Max(Sections') = n
    <3>1. n \in Sections' /\ Sections' \in SUBSET Int /\ \A y \in Sections' : y <= n
      BY <1>1, <1>2, <1>5
    <3> HIDE DEF Sections
    <3> QED
      BY <3>1, MaxIs
  <2>3. ~(Counts(n))'
    BY <1>3, <1>5 DEF Counts
  <2>4. \A x \in Names : LastExport(x, arg, n + 1)' = LastExport(x, arg, n)
    BY <1>1, <2>3, ExportsNew
  <2>5. \A x \in Names : envVars'[x] = LastExport(x, arg, Now)'
    BY <1>1, <1>4, <2>1, <2>4
  <2> QED
    BY <1>3, <2>1, <2>2, <2>5 DEF EnvInv
<1>6. CASE l.kind # "section"
  <2>1. /\ isEnv' = isEnv /\ hasFollower' = hasFollower
        /\ IF hasFollower /\ l.kind = "export" THEN envVars' = [envVars EXCEPT ![l.name] = n] ELSE envVars' = envVars
    BY <1>6 DEF Reads
  <2>2. Sections' = Sections
    BY <1>2, <1>6
  <2>3. isEnv => Sections # {} /\ Line(Max(Sections))' = Line(Max(Sections))
    <3> SUFFICES ASSUME isEnv PROVE Sections # {} /\ Line(Max(Sections))' = Line(Max(Sections))
      OBVIOUS
    <3>1. Sections # {}
      BY <1>1 DEF EnvInv
    <3>2. Max(Sections) \in Sections
      BY <1>2, <3>1, MaxOf
    <3>3. Max(Sections) \in 1 .. n - 1
      BY <1>1, <3>2 DEF Sections, Grown
    <3> QED
      BY <1>1, <2>2, <3>1, <3>3 DEF Line, Grown
  <2>4. (Counts(n))' <=> hasFollower /\ l.kind = "export"
    BY <1>1, <1>6, <2>1, CountsNew
  <2>5. ASSUME NEW x \in Names PROVE envVars'[x] = LastExport(x, arg, n + 1)'
    <3>1. LastExport(x, arg, n + 1)' = IF (Counts(n))' /\ l.name = x THEN n ELSE LastExport(x, arg, n)
      BY <1>1, ExportsNew
    <3>2. envVars \in [Names -> 0 .. Len(read)] /\ (l.kind = "export" => l.name \in Names)
      BY KindsHave DEF TypesInv, Reads
    <3>3. envVars'[x] = IF hasFollower /\ l.kind = "export" /\ l.name = x THEN n ELSE envVars[x]
      BY <2>1, <3>2
    <3> QED
      BY <1>4, <2>4, <3>1, <3>3
  <2>6. hasFollower <=> isEnv /\ (EnvName = Unset \/ Line(Max(Sections)).env = EnvName)
    BY <1>1 DEF EnvInv
  <2>7. \A x \in Names : envVars'[x] = LastExport(x, arg, Now)'
    BY <1>1, <2>5
  <2> QED
    BY <2>1, <2>2, <2>3, <2>6, <2>7 DEF EnvInv
<1> QED
  BY <1>5, <1>6

\* A step that reads no line.
LEMMA ReadEnvFile ==
    ASSUME TypesInv, ReadInv, NewFile \/ OpenFile \/ EndFile \/ Finish
    PROVE  ReadInv' /\ EnvInv' /\ read' = read /\ (arg' = arg \/ arg' = arg + 1)
<1>1. /\ read' = read /\ (arg' = arg \/ arg' = arg + 1)
      /\ state' = "lines" => /\ arg' = arg + 1 /\ isEnv' = FALSE /\ hasFollower' = FALSE /\ envVars' = NoVars
  <2>1. CASE EndFile
    BY <2>1, EndEffect
  <2>2. CASE NewFile
    BY <2>2 DEF NewFile, NextArg
  <2>3. CASE OpenFile
    BY <2>3 DEF OpenFile, NextArg, ParseBegin
  <2>4. CASE Finish
    BY <2>4 DEF Finish, argVars
  <2> QED
    BY <2>1, <2>2, <2>3, <2>4
<1>2. arg \in Nat /\ Len(read) \in Nat /\ DOMAIN read = 1 .. Len(read)
  BY DEF TypesInv
<1>3. ReadInv'
  <2>1. \A i \in DOMAIN read : SectionOf(i)' = SectionOf(i)
    BY <1>1 DEF SectionOf, Line
  <2>2. \A i \in DOMAIN read : read[i].file \in 1 .. arg'
    BY <1>1, <1>2 DEF ReadInv
  <2>3. state' = "lines" => arg' # 0
    BY <1>1, <1>2
  <2> QED
    BY <1>1, <2>1, <2>2, <2>3 DEF ReadInv
<1>4. ASSUME state' = "lines", NEW x \in Names PROVE LastExport(x, arg, Now)' = 0
  <2>1. \A i \in DOMAIN read' : read'[i].file # arg'
    BY <1>1, <1>2, <1>4 DEF ReadInv
  <2>2. LastExport(x, arg, Now)' = Max({0} \cup {i \in DOMAIN read' : i < Now' /\ read'[i].file = arg' /\ (Counts(i))' /\ (Line(i))'.name = x})
    BY DEF LastExport
  <2>3. LastExport(x, arg, Now)' = Max({0})
    BY <2>1, <2>2
  <2>4. Max({0}) = 0
    BY MaxIs
  <2> QED
    BY <2>3, <2>4
<1>5. EnvInv'
  BY <1>1, <1>4 DEF EnvInv, NoVars
<1> QED
  BY <1>1, <1>3, <1>5

LEMMA ReadEnvInit ==
    ASSUME Init
    PROVE  ReadInv /\ EnvInv
BY DEF Init, ReadInv, EnvInv

LEMMA ReadEnvStep ==
    ASSUME TypesInv, ReadInv, EnvInv, [Next]_vars
    PROVE  ReadInv' /\ EnvInv'
<1>1. CASE UNCHANGED vars
  BY <1>1 DEF vars, argVars, parserVars, ReadInv, EnvInv, SectionOf, Sections, Line, Now, LastExport, Counts
<1>2. CASE ReadLine
  BY <1>2, ReadEffect, ReadInvLine, EnvInvLine
<1> QED
  BY <1>1, <1>2, ReadEnvFile DEF Next, Ended

(***************************************************************************)
(* The profiles of the file                                                *)
(***************************************************************************)
LEMMA Requests1 ==
    ASSUME NEW n, NEW l, Grown(n, l), arg' = arg
    PROVE  /\ \A i \in 1 .. n - 1 : \A f : (IsRequest(i, f))' <=> IsRequest(i, f)
           /\ \A f : (IsRequest(n, f))' <=> (Own(n))' /\ l.kind = "request" /\ f = arg
           /\ RequestsUpTo(n)' = {j \in 1 .. n - 1 : IsRequest(j, arg)} \cup (IF (Own(n))' /\ l.kind = "request" THEN {n} ELSE {})
<1>1. /\ \A i \in 1 .. n : i \in 1 .. n - 1 \/ i = n
      /\ \A i \in 1 .. n - 1 : i \in 1 .. n
      /\ DOMAIN read = 1 .. n - 1 /\ DOMAIN read' = 1 .. n /\ n \in 1 .. n
      /\ read'[n].file = arg /\ Line(n)' = l
  BY DEF Grown, Line
<1>2. \A i \in 1 .. n - 1 : Line(i)' = Line(i) /\ (Own(i)' <=> Own(i)) /\ read'[i] = read[i]
  BY OldLines DEF Grown
<1>3. \A i \in 1 .. n - 1 : \A f : (IsRequest(i, f))' <=> IsRequest(i, f)
  BY <1>1, <1>2 DEF IsRequest
<1>4. \A f : (IsRequest(n, f))' <=> (Own(n))' /\ l.kind = "request" /\ f = arg
  BY <1>1 DEF IsRequest
<1>5. RequestsUpTo(n)' = {j \in 1 .. n : (Own(j))' /\ (Line(j))'.kind = "request" /\ read'[j].file = arg}
  BY <1>1 DEF RequestsUpTo
<1>6. RequestsUpTo(n)' = {j \in 1 .. n - 1 : IsRequest(j, arg)} \cup (IF (Own(n))' /\ l.kind = "request" THEN {n} ELSE {})
  BY <1>1, <1>2, <1>5 DEF IsRequest
<1> QED
  BY <1>3, <1>4, <1>6

LEMMA OwnerNew ==
    ASSUME TypesInv, ParsedInv, NEW n, NEW l, Reads(n, l), (Own(n))'
    PROVE  /\ l.kind = "request" => (Owner(n))' = n
           /\ l.kind # "request" /\ p = 0 => (Owner(n))' = 0
           /\ l.kind # "request" /\ p # 0 => (Owner(n))' = parsed[p].at
<1> DEFINE R == {j \in 1 .. n - 1 : IsRequest(j, arg)}
<1>1. /\ Grown(n, l) /\ arg' = arg /\ n \in Nat /\ state = "lines"
  BY DEF Reads, Grown
<1>2. RequestsUpTo(n)' = R \cup (IF l.kind = "request" THEN {n} ELSE {})
  BY <1>1, Requests1
<1>3. (Owner(n))' = IF RequestsUpTo(n)' = {} THEN 0 ELSE Max(RequestsUpTo(n)')
  BY DEF Owner
<1>4. \A y \in R : \E k \in DOMAIN parsed : parsed[k].at = y
  BY <1>1 DEF ParsedInv, IsRequest
<1>5. CASE l.kind = "request"
  <2> DEFINE S == RequestsUpTo(n)'
  <2>1. n \in S /\ S \in SUBSET Int /\ \A y \in S : y <= n
    BY <1>1, <1>2, <1>5
  <2> HIDE DEF S
  <2>2. Max(S) = n
    BY <2>1, MaxIs
  <2> QED
    BY <1>3, <1>5, <2>1, <2>2 DEF S
<1>6. CASE l.kind # "request" /\ p = 0
  <2>1. R = {}
    <3>1. parsed \in Seq(ProfileType) /\ Len(parsed) = 0
      BY <1>6 DEF TypesInv
    <3>2. DOMAIN parsed = {}
      BY <3>1
    <3> QED
      BY <1>4, <3>2
  <2> QED
    BY <1>2, <1>3, <1>6, <2>1
<1>7. CASE l.kind # "request" /\ p # 0
  <2> DEFINE m == parsed[p].at
  <2>1. p \in DOMAIN parsed /\ DOMAIN parsed = 1 .. p /\ parsed \in Seq(ProfileType) /\ p \in Nat
    BY <1>7, Current DEF TypesInv
  <2>2. m \in R
    BY <1>1, <2>1 DEF ParsedInv, IsRequest, Grown
  <2>3. ASSUME NEW y \in R PROVE y <= m
    <3>1. PICK k \in DOMAIN parsed : parsed[k].at = y
      BY <1>4
    <3>2. k = p \/ k < p
      BY <2>1
    <3>3. y \in Int /\ m \in Int
      BY <2>2
    <3> QED
      BY <1>1, <2>1, <3>1, <3>2, <3>3 DEF ParsedInv
  <2> HIDE DEF m
  <2>4. Max(R) = m
    <3>1. R \in SUBSET Int
      OBVIOUS
    <3> HIDE DEF R
    <3> QED
      BY <2>2, <2>3, <3>1, MaxIs
  <2> QED
    BY <1>2, <1>3, <1>7, <2>2, <2>4 DEF m
<1> QED
  BY <1>5, <1>6, <1>7

LEMMA ParsedSame ==
    ASSUME TypesInv, ParsedInv, NEW n, NEW l, Reads(n, l), ~((Own(n))' /\ l.kind = "request"),
           DOMAIN parsed' = DOMAIN parsed, \A k \in DOMAIN parsed : parsed'[k].at = parsed[k].at
    PROVE  ParsedInv'
<1>1. Grown(n, l) /\ arg' = arg /\ state = "lines"
  BY DEF Reads
<1>2. /\ DOMAIN read = 1 .. n - 1 /\ DOMAIN read' = 1 .. n /\ \A i \in 1 .. n : i \in 1 .. n - 1 \/ i = n
  BY <1>1, Before DEF Grown
<1>3. \A i : (IsRequest(i, arg))' <=> IsRequest(i, arg)
  <2>1. \A i : (IsRequest(i, arg))' => i \in 1 .. n
    BY <1>2 DEF IsRequest
  <2>2. \A i : IsRequest(i, arg) => i \in 1 .. n - 1
    BY <1>2 DEF IsRequest
  <2>3. \A i \in 1 .. n - 1 : (IsRequest(i, arg))' <=> IsRequest(i, arg)
    BY <1>1, Requests1
  <2>4. ~(IsRequest(n, arg))'
    BY <1>1, Requests1
  <2> QED
    BY <1>2, <2>1, <2>2, <2>3, <2>4
<1>4. /\ \A k \in DOMAIN parsed : IsRequest(parsed[k].at, arg)
      /\ \A j, k \in DOMAIN parsed : j < k => parsed[j].at < parsed[k].at
      /\ \A i \in DOMAIN read : IsRequest(i, arg) => \E k \in DOMAIN parsed : parsed[k].at = i
  BY <1>1 DEF ParsedInv
<1>5. \A i : IsRequest(i, arg) => i \in DOMAIN read
  BY DEF IsRequest
<1>6. \A k \in DOMAIN parsed' : IsRequest(parsed[k].at, arg)'
  BY <1>3, <1>4
<1> QED
  BY <1>1, <1>3, <1>4, <1>5 DEF ParsedInv

LEMMA ParsedNew ==
    ASSUME TypesInv, ParsedInv, NEW n, NEW l, Reads(n, l), Requested(n, l)
    PROVE  ParsedInv'
<1> DEFINE m == Len(parsed)
<1>1. PICK q : q = NewProfile(l, n)
  OBVIOUS
<1>2. /\ Grown(n, l) /\ arg' = arg /\ state = "lines" /\ n \in Nat /\ parsed' = Append(parsed, q)
      /\ (Own(n))' /\ l.kind = "request"
  BY <1>1 DEF Reads, Grown, Requested
<1>3. q.at = n /\ q \in ProfileType
  BY <1>1, <1>2, NewProfileType DEF Reads
<1>4. /\ m \in Nat /\ DOMAIN parsed = 1 .. m /\ DOMAIN parsed' = 1 .. m + 1 /\ parsed'[m + 1] = q
      /\ \A k \in 1 .. m : parsed'[k] = parsed[k]
  BY <1>2 DEF TypesInv
<1>5. \A k \in 1 .. m + 1 : k \in 1 .. m \/ k = m + 1
  BY <1>4
<1> HIDE DEF m
<1>6. /\ \A k \in 1 .. m : IsRequest(parsed[k].at, arg)
      /\ \A j, k \in 1 .. m : j < k => parsed[j].at < parsed[k].at
      /\ \A i \in DOMAIN read : IsRequest(i, arg) => \E k \in 1 .. m : parsed[k].at = i
  BY <1>2, <1>4 DEF ParsedInv
<1>7. /\ DOMAIN read = 1 .. n - 1 /\ DOMAIN read' = 1 .. n /\ \A i \in 1 .. n : i \in 1 .. n - 1 \/ i = n
  BY <1>2, Before DEF Grown
<1>8. /\ \A i \in 1 .. n - 1 : (IsRequest(i, arg))' <=> IsRequest(i, arg)
      /\ (IsRequest(n, arg))'
  BY <1>2, Requests1
<1>9. \A k \in 1 .. m : parsed[k].at \in 1 .. n - 1
  BY <1>6, <1>7 DEF IsRequest
<1>10. ASSUME NEW k \in DOMAIN parsed' PROVE IsRequest(parsed[k].at, arg)'
  <2>1. CASE k \in 1 .. m
    BY <1>4, <1>6, <1>8, <1>9, <2>1
  <2>2. CASE k = m + 1
    BY <1>3, <1>4, <1>8, <2>2
  <2> QED
    BY <1>4, <1>5, <2>1, <2>2
<1>11. ASSUME NEW j \in DOMAIN parsed', NEW k \in DOMAIN parsed', j < k PROVE parsed'[j].at < parsed'[k].at
  <2>1. j \in 1 .. m
    BY <1>4, <1>5, <1>11
  <2>2. CASE k \in 1 .. m
    BY <1>4, <1>6, <1>11, <2>1, <2>2
  <2>3. CASE k = m + 1
    BY <1>2, <1>3, <1>4, <1>9, <2>1, <2>3
  <2> QED
    BY <1>4, <1>5, <2>2, <2>3
<1>12. ASSUME NEW i \in DOMAIN read', (IsRequest(i, arg))' PROVE \E k \in DOMAIN parsed' : parsed'[k].at = i
  <2>1. CASE i = n
    <3>1. m + 1 \in DOMAIN parsed'
      BY <1>4
    <3> QED
      BY <1>3, <1>4, <2>1, <3>1
  <2>2. CASE i # n
    <3>1. i \in 1 .. n - 1 /\ IsRequest(i, arg)
      BY <1>7, <1>8, <1>12, <2>2
    <3>2. PICK k \in 1 .. m : parsed[k].at = i
      BY <1>6, <1>7, <3>1
    <3>3. k \in DOMAIN parsed'
      BY <1>4
    <3> QED
      BY <1>4, <3>2, <3>3
  <2> QED
    BY <2>1, <2>2
<1> QED
  BY <1>10, <1>11, <1>12 DEF ParsedInv

LEMMA ParsedStep ==
    ASSUME TypesInv, ReadInv, ParsedInv, [Next]_vars
    PROVE  ParsedInv'
<1>1. CASE UNCHANGED vars
  BY <1>1 DEF vars, argVars, parserVars, ParsedInv, IsRequest, Own, Line
<1>2. CASE ReadLine
  <2>1. PICK l, n : Reads(n, l)
    BY <1>2, ReadEffect
  <2>2. CASE NotOwned(n)
    <3>1. DOMAIN parsed' = DOMAIN parsed /\ \A k \in DOMAIN parsed : parsed'[k].at = parsed[k].at
      BY <2>2, BecomesParts DEF NotOwned, Same
    <3> QED
      BY <2>1, <2>2, <3>1, ParsedSame DEF NotOwned
  <2>3. CASE Requested(n, l)
    BY <2>1, <2>3, ParsedNew
  <2>4. CASE TakenIn(n, l)
    <3>1. DOMAIN parsed' = DOMAIN parsed /\ \A k \in DOMAIN parsed : parsed'[k].at = parsed[k].at
      BY <2>4, BecomesParts DEF TakenIn, Takes, Same
    <3> QED
      BY <2>1, <2>4, <3>1, ParsedSame DEF TakenIn
  <2>5. CASE Panicked(n, l)
    BY <2>5 DEF Panicked, ParsedInv
  <2> QED
    BY <2>1, <2>2, <2>3, <2>4, <2>5 DEF Reads
<1>3. CASE OpenFile
  <2>1. parsed' = <<>> /\ read' = read /\ arg' = arg + 1 /\ arg \in Nat
    BY <1>3 DEF OpenFile, NextArg, ParseBegin, TypesInv
  <2>2. \A i \in DOMAIN read' : read'[i].file # arg'
    BY <2>1 DEF ReadInv
  <2>3. DOMAIN parsed' = {}
    BY <2>1
  <2> QED
    BY <2>2, <2>3 DEF ParsedInv, IsRequest
<1>4. CASE NewFile \/ EndFile \/ Finish
  <2>1. state' # "lines"
    BY <1>4, EndEffect DEF NewFile, Finish
  <2> QED
    BY <2>1 DEF ParsedInv
<1> QED
  BY <1>1, <1>2, <1>3, <1>4 DEF Next, Ended

(***************************************************************************)
(* What the profiles have of the lines                                     *)
(***************************************************************************)
LEMMA RightOld ==
    ASSUME ReadInv, NEW n, NEW l, Grown(n, l), NEW q, Right(q), ~((Own(n))' /\ (Owner(n))' = q.at)
    PROVE  Right(q)'
<1>1. q.at \in 1 .. n - 1 /\ q.at \in DOMAIN read' /\ q.at \in 0 .. n /\ read'[q.at] = read[q.at]
  BY DEF Right, Grown
<1>2. BelongTo(q.at)' = BelongTo(q.at) /\ Below(q.at)' = Below(q.at)
  BY OtherLine, OwnedLine
<1>3. \A v : LastExport(v[1], read[q.at].file, q.at)' = LastExport(v[1], read[q.at].file, q.at)
  <2>1. \A x, f : LastExport(x, f, q.at)' = LastExport(x, f, q.at)
    BY <1>1, ExportsOld
  <2> QED
    BY <1>1, <2>1
<1> QED
  BY <1>1, <1>2, <1>3 DEF Right, Listed

\* The comments that wait for a profile come after those that are taken.
LEMMA Earlier ==
    ASSUME read \in Seq(Entries), NEW a
    PROVE  \A x \in BelongTo(a), y \in Pending : x < y
<1> SUFFICES ASSUME NEW x \in BelongTo(a), NEW y \in Pending PROVE x < y
  OBVIOUS
<1>1. PICK j \in DOMAIN read : x < j /\ Own(j)
  BY DEF BelongTo
<1>2. DOMAIN read = 1 .. Len(read) /\ Len(read) \in Nat /\ x \in DOMAIN read /\ y \in DOMAIN read
  BY DEF BelongTo, Pending
<1>3. j \notin y + 1 .. Len(read)
  BY <1>1 DEF Pending
<1> QED
  BY <1>1, <1>2, <1>3

LEMMA LinesOf ==
    ASSUME NEW q \in ProfileType
    PROVE  /\ q.comments \in Seq(Comments) /\ q.body \in Seq(Texts) /\ q.at \in Nat
           /\ (\A c \in Comments : c.line \in Nat) /\ (\A e \in Texts : e.line \in Nat)
BY DEF ProfileType, Comments, Texts

LEMMA NoneListed ==
    ASSUME NEW A, NEW s \in Seq(A), NEW S, Listed(s, S)
    PROVE  s = <<>> <=> S = {}
<1>1. Len(s) \in Nat /\ DOMAIN s = 1 .. Len(s) /\ (s = <<>> <=> Len(s) = 0)
  OBVIOUS
<1>2. s = <<>> <=> DOMAIN s = {}
  <2>1. ASSUME NEW m \in Nat PROVE m = 0 <=> 1 .. m = {}
    <3>1. m # 0 => 1 \in 1 .. m
      OBVIOUS
    <3> QED
      BY <3>1
  <2> QED
    BY <1>1, <2>1
<1> QED
  BY <1>2 DEF Listed

LEMMA RightTaken ==
    ASSUME TypesInv, ReadInv, ParsedInv, PendingInv, NEW n, NEW l, Reads(n, l), TakenIn(n, l), Right(parsed[p])
    PROVE  \E r : parsed'[p] = r /\ Right(r)'
<1>1. PICK r : /\ Takes(r)
               /\ \/ l.kind = "item" /\ parsed[p].body = <<>> /\ r.body = <<>>
                  \/ /\ l.kind = "item" => parsed[p].body # <<>>
                     /\ \E e \in Texts : e.line = n /\ r.body = Append(parsed[p].body, e)
  BY DEF TakenIn
<1>2. /\ Grown(n, l) /\ state = "lines" /\ (Own(n))' /\ l.kind \in {"item", "text", "export"} /\ p # 0
      /\ read \in Seq(Entries) /\ lastComments \in Seq(Comments) /\ n \in Nat /\ DOMAIN read = 1 .. n - 1
      /\ DOMAIN read' = 1 .. n /\ l.kind # "request"
  BY DEF Reads, TakenIn, TypesInv, Grown
<1>3. PICK q, a : q = parsed[p] /\ a = parsed[p].at
  OBVIOUS
<1>4. /\ q \in ProfileType /\ r.at = a /\ q.at = a /\ r.addr = q.addr /\ parsed'[p] = r
      /\ r.comments = q.comments \o lastComments /\ r \in ProfileType
  BY <1>1, <1>2, <1>3, Current, BecomesParts DEF Takes, Becomes, Same
<1>5. (Owner(n))' = a
  BY <1>2, <1>3, OwnerNew
<1>6. BelongTo(a)' = BelongTo(a) \cup Pending
      /\ Below(a)' = IF Below(a) # {} \/ l.kind \in {"text", "export"} THEN Below(a) \cup {n} ELSE {}
  BY <1>2, <1>5, OwnedLine
<1>7. a \in 1 .. n - 1 /\ Listed(q.comments, BelongTo(a)) /\ Listed(q.body, Below(a))
      /\ \A v \in q.addr : v[2] = LastExport(v[1], read[a].file, a)
  BY <1>2, <1>3, <1>4 DEF Right
<1>8. Listed(r.comments, BelongTo(a)')
  <2>1. q.comments \in Seq(Comments) /\ lastComments \in Seq(Comments) /\ Listed(lastComments, Pending)
        /\ \A c \in Comments : c.line \in Nat
    BY <1>2, <1>4, LinesOf DEF PendingInv
  <2>2. \A x \in BelongTo(a), y \in Pending : x < y
    BY <1>2, Earlier
  <2>3. Listed(q.comments \o lastComments, BelongTo(a) \cup Pending)
    BY <1>7, <2>1, <2>2, ListedConcat
  <2> QED
    BY <1>4, <1>6, <2>3
<1>9. Listed(r.body, Below(a)')
  <2>1. q.body \in Seq(Texts) /\ \A e \in Texts : e.line \in Nat
    BY <1>4, LinesOf
  <2>2. q.body = <<>> <=> Below(a) = {}
    BY <1>7, <2>1, NoneListed
  <2>3. ASSUME NEW e \in Texts, e.line = n, r.body = Append(q.body, e), l.kind = "item" => q.body # <<>>
        PROVE  Listed(r.body, Below(a)')
    <3>1. \A x \in Below(a) : x < n
      BY <1>2 DEF Below
    <3>2. Listed(Append(q.body, e), Below(a) \cup {e.line})
      BY <1>7, <2>1, <2>3, <3>1, ListedAppend
    <3> QED
      BY <1>2, <1>6, <2>2, <2>3, <3>2
  <2>4. CASE l.kind = "item" /\ q.body = <<>> /\ r.body = <<>>
    <3>1. Below(a)' = {} /\ Below(a) = {} /\ r.body = q.body
      BY <1>6, <2>2, <2>4
    <3> QED
      BY <1>7, <3>1
  <2> QED
    BY <1>1, <1>3, <2>3, <2>4
<1>10. \A v \in r.addr : v[2] = LastExport(v[1], read[a].file, a)'
  <2>1. read'[a] = read[a] /\ a \in 0 .. n
    BY <1>2, <1>7 DEF Grown
  <2>2. \A x : LastExport(x, read[a].file, a)' = LastExport(x, read[a].file, a)
    <3>1. \A x, f : LastExport(x, f, a)' = LastExport(x, f, a)
      BY <1>2, <2>1, ExportsOld
    <3> QED
      BY <2>1, <3>1
  <2> QED
    BY <1>4, <1>7, <2>2
<1>11. a \in DOMAIN read'
  BY <1>2, <1>7
<1>12. Right(r)'
  BY <1>4, <1>8, <1>9, <1>10, <1>11 DEF Right, Listed
<1> QED
  BY <1>4, <1>12

\* A profile of a request has the comments before it, and the values of its URL.
LEMMA RightNew ==
    ASSUME TypesInv, ReadInv, EnvInv, ParsedInv, PendingInv, NEW n, NEW l, Reads(n, l), Requested(n, l)
    PROVE  \E q \in ProfileType : parsed' = Append(parsed, q) /\ q.at = n /\ Right(q)'
<1>1. PICK q : q = NewProfile(l, n)
  OBVIOUS
<1>2. /\ Grown(n, l) /\ state = "lines" /\ (Own(n))' /\ l.kind = "request" /\ parsed' = Append(parsed, q)
      /\ read \in Seq(Entries) /\ n \in Nat /\ DOMAIN read = 1 .. n - 1 /\ DOMAIN read' = 1 .. n /\ n = Now
      /\ read'[n].file = arg
  BY <1>1 DEF Reads, Requested, TypesInv, Grown
<1>3. /\ q \in ProfileType /\ q.at = n /\ q.body = <<>> /\ q.comments = lastComments
      /\ \A v \in q.addr : v[1] \in Names /\ v[2] = envVars[v[1]]
  <2>1. l \in Lines
    BY DEF Reads
  <2> QED
    BY <1>1, <1>2, <2>1, NewProfileType
<1>4. (Owner(n))' = n
  BY <1>2, OwnerNew
<1>5. BelongTo(n)' = BelongTo(n) \cup Pending
      /\ Below(n)' = IF Below(n) # {} THEN Below(n) \cup {n} ELSE {}
  BY <1>2, <1>4, OwnedLine
<1>6. BelongTo(n) = {} /\ Below(n) = {}
  <2>1. \A j \in DOMAIN read : Owner(j) # n
    <3> SUFFICES ASSUME NEW j \in 1 .. n - 1, Owner(j) = n PROVE FALSE
      BY <1>2
    <3>1. Owner(j) \in 0 .. j
      BY <1>2, OwnerIn
    <3> QED
      BY <1>2, <3>1
  <2>2. \A j \in 1 .. n - 1 : \A i \in 1 .. j : i \in DOMAIN read
    BY <1>2
  <2> QED
    BY <1>2, <2>1, <2>2 DEF BelongTo, Below
<1>7. Listed(q.comments, BelongTo(n)') /\ Listed(q.body, Below(n)')
  <2>1. Listed(lastComments, Pending)
    BY <1>2 DEF PendingInv
  <2>2. Listed(<<>>, {})
    <3>1. DOMAIN <<>> = {}
      OBVIOUS
    <3> QED
      BY <3>1 DEF Listed
  <2> QED
    BY <1>3, <1>5, <1>6, <2>1, <2>2
<1>8. \A v \in q.addr : v[2] = LastExport(v[1], arg, n)'
  <2>1. \A x \in Names : envVars[x] = LastExport(x, arg, n)
    BY <1>2 DEF EnvInv
  <2>2. ASSUME NEW f, NEW x PROVE LastExport(x, f, n)' = LastExport(x, f, n)
    <3>1. n \in 0 .. n
      BY <1>2
    <3> QED
      BY <1>2, <3>1, ExportsOld
  <2>3. arg' = arg
    BY DEF Reads
  <2> QED
    BY <1>3, <2>1, <2>2, <2>3
<1>9. n \in DOMAIN read' /\ arg' = arg
  BY <1>2 DEF Reads, Grown
<1>10. \A v \in q.addr : v[2] = LastExport(v[1], read[n].file, n)'
  BY <1>2, <1>8, <1>9
<1>11. Right(q)'
  BY <1>3, <1>7, <1>9, <1>10 DEF Right, Listed
<1> QED
  BY <1>2, <1>3, <1>11

LEMMA PendingStep ==
    ASSUME TypesInv, ReadInv, PendingInv, [Next]_vars
    PROVE  PendingInv'
<1>1. CASE UNCHANGED vars
  BY <1>1 DEF vars, argVars, parserVars, PendingInv, Listed, Pending, IsComment, Own, Line
<1>2. CASE ReadLine
  <2>1. PICK l, n : Reads(n, l)
    BY <1>2, ReadEffect
  <2>2. Grown(n, l) /\ state = "lines" /\ n \in Nat /\ DOMAIN read = 1 .. n - 1
    BY <2>1 DEF Reads, Grown
  <2>3. CASE NotOwned(n)
    <3>1. Pending' = Pending \cup (IF (IsComment(n))' THEN {n} ELSE {})
      BY <2>2, <2>3, OtherLine DEF NotOwned
    <3>2. lastComments \in Seq(Comments) /\ Listed(lastComments, Pending) /\ \A c \in Comments : c.line \in Nat
      BY <2>2 DEF TypesInv, PendingInv, Comments
    <3>3. \A x \in Pending : x < n
      BY <2>2 DEF Pending
    <3>4. CASE (IsComment(n))'
      <4>1. PICK c \in Comments : c.line = n /\ lastComments' = Append(lastComments, c)
        BY <2>3, <3>4 DEF NotOwned
      <4>2. Listed(Append(lastComments, c), Pending \cup {c.line})
        BY <3>2, <3>3, <4>1, ListedAppend
      <4> QED
        BY <3>1, <3>4, <4>1, <4>2 DEF PendingInv, Listed
    <3>5. CASE ~(IsComment(n))'
      BY <2>3, <3>1, <3>2, <3>5 DEF NotOwned, PendingInv, Listed
    <3> QED
      BY <3>4, <3>5
  <2>4. CASE Requested(n, l) \/ TakenIn(n, l)
    <3>1. (Own(n))' /\ lastComments' = <<>>
      BY <2>4 DEF Requested, TakenIn, Takes
    <3>2. Pending' = {}
      BY <2>2, <3>1, OwnedLine
    <3>3. DOMAIN lastComments' = {}
      BY <3>1
    <3> QED
      BY <3>2, <3>3 DEF PendingInv, Listed
  <2>5. CASE Panicked(n, l)
    BY <2>5 DEF Panicked, PendingInv
  <2> QED
    BY <2>1, <2>3, <2>4, <2>5 DEF Reads
<1>3. CASE NewFile \/ OpenFile \/ EndFile
  <2>1. read' = read /\ lastComments' = lastComments /\ state \in {"arg", "lines"}
    BY <1>3, EndEffect DEF NewFile, OpenFile, NextArg, ParseBegin, parserVars
  <2> QED
    BY <2>1 DEF PendingInv, Listed, Pending, IsComment, Own, Line
<1>4. CASE Finish
  BY <1>4 DEF Finish, PendingInv
<1> QED
  BY <1>1, <1>2, <1>3, <1>4 DEF Next, Ended

LEMMA RightSame ==
    ASSUME NEW q, NEW r, Right(q), Same(r, q), r.comments = q.comments, r.body = q.body
    PROVE  Right(r)
BY DEF Right, Same

LEMMA RightRead ==
    ASSUME read' = read, NEW q
    PROVE  Right(q)' <=> Right(q)
<1>1. \A i : /\ Line(i)' = Line(i) /\ (Own(i)' <=> Own(i)) /\ (IsComment(i)' <=> IsComment(i))
             /\ RequestsUpTo(i)' = RequestsUpTo(i) /\ (Counts(i)' <=> Counts(i))
  BY DEF Line, Own, IsComment, RequestsUpTo, Counts, SectionOf
<1>2. \A i : Owner(i)' = Owner(i)
  BY <1>1 DEF Owner
<1>3. \A a : BelongTo(a)' = BelongTo(a) /\ Below(a)' = Below(a)
  BY <1>1, <1>2 DEF BelongTo, Below
<1>4. \A x, f, m : LastExport(x, f, m)' = LastExport(x, f, m)
  BY <1>1 DEF LastExport
<1> QED
  BY <1>3, <1>4 DEF Right, Listed

\* The profiles that a line does not belong to.
LEMMA OthersRight ==
    ASSUME TypesInv, ReadInv, ParsedInv, FoundInv, RightInv, NEW n, NEW l, Reads(n, l)
    PROVE  /\ \A i \in DOMAIN found : Right(found[i].profile)'
           /\ \A k \in DOMAIN parsed : Right(parsed[k])
           /\ (Own(n))' /\ (l.kind = "request" \/ p # 0)
                => \A k \in DOMAIN parsed : l.kind = "request" \/ k # p => \E q : q = parsed[k] /\ Right(q)'
<1>1. Grown(n, l) /\ state = "lines" /\ n \in Nat /\ DOMAIN read = 1 .. n - 1 /\ found' = found
  BY DEF Reads, Grown
<1>2. \A k \in DOMAIN parsed : Right(parsed[k])
  BY <1>1 DEF RightInv, AllProfiles, ToSet
<1>3. ASSUME NEW q, Right(q), (Own(n))', (Owner(n))' = q.at PROVE l.kind # "request" /\ p # 0 /\ q.at = parsed[p].at
  <2>1. q.at \in 1 .. n - 1
    BY <1>1, <1>3 DEF Right
  <2>2. q.at # n /\ q.at # 0
    BY <1>1, <2>1
  <2> QED
    BY <1>3, <2>2, OwnerNew
<1>4. ASSUME NEW i \in DOMAIN found PROVE Right(found[i].profile)'
  <2>1. PICK q : q = found[i].profile
    OBVIOUS
  <2>2. Right(q)
    BY <2>1 DEF RightInv, AllProfiles
  <2>3. IsRequest(q.at, found[i].file) /\ found[i].file < arg
    BY <1>1, <2>1 DEF FoundInv
  <2>4. ASSUME (Own(n))', (Owner(n))' = q.at PROVE FALSE
    <3>1. p # 0 /\ q.at = parsed[p].at
      BY <1>3, <2>2, <2>4
    <3>2. IsRequest(q.at, arg)
      BY <1>1, <3>1, Current DEF ParsedInv
    <3>3. found[i].file = arg /\ arg \in Nat
      BY <2>3, <3>2 DEF IsRequest, TypesInv
    <3> QED
      BY <2>3, <3>3
  <2>5. Right(q)'
    BY <1>1, <2>2, <2>4, RightOld
  <2> QED
    BY <1>1, <2>1, <2>5
<1>5. ASSUME (Own(n))', l.kind = "request" \/ p # 0, NEW k \in DOMAIN parsed, l.kind = "request" \/ k # p
      PROVE  \E q : q = parsed[k] /\ Right(q)'
  <2>1. PICK q : q = parsed[k]
    OBVIOUS
  <2>2. ASSUME (Owner(n))' = q.at PROVE FALSE
    <3>1. l.kind # "request" /\ p # 0 /\ parsed[k].at = parsed[p].at
      BY <1>2, <1>3, <1>5, <2>1, <2>2
    <3>2. k < p /\ p \in DOMAIN parsed
      <4>1. p = Len(parsed) /\ parsed \in Seq(ProfileType) /\ k # p
        BY <1>5, <3>1 DEF TypesInv
      <4> QED
        BY <3>1, <4>1, Current
    <3>3. parsed[k].at < parsed[p].at /\ parsed[k].at \in 1 .. n - 1
      BY <1>1, <1>2, <3>2 DEF ParsedInv, Right
    <3> QED
      BY <3>1, <3>3
  <2>3. Right(q)'
    BY <1>1, <1>2, <2>1, <2>2, RightOld
  <2> QED
    BY <2>1, <2>3
<1> QED
  BY <1>2, <1>4, <1>5

LEMMA RightLine ==
    ASSUME TypesInv, ReadInv, EnvInv, ParsedInv, PendingInv, FoundInv, RightInv, NEW n, NEW l, Reads(n, l)
    PROVE  RightInv'
<1>1. Grown(n, l) /\ state = "lines" /\ found' = found
  BY DEF Reads
<1> SUFFICES ASSUME state' = "lines", NEW k \in DOMAIN parsed' PROVE \E q : q = parsed'[k] /\ Right(q)'
  <2>1. \A i \in DOMAIN found' : Right(found[i].profile)'
    BY <1>1, OthersRight
  <2> QED
    BY <2>1 DEF RightInv, AllProfiles, ToSet
<1>2. CASE NotOwned(n)
  <2>1. ~(Own(n))'
    BY <1>2 DEF NotOwned
  <2>2. CASE parsed' = parsed
    <3>1. PICK q : q = parsed[k]
      OBVIOUS
    <3>2. Right(q)
      BY <2>2, <3>1, OthersRight
    <3> QED
      BY <1>1, <2>1, <2>2, <3>1, <3>2, RightOld
  <2>3. ASSUME NEW r, Becomes(r), r.comments = parsed[p].comments, r.body = parsed[p].body
        PROVE  \E q : q = parsed'[k] /\ Right(q)'
    <3>1. k \in DOMAIN parsed /\ parsed'[k] = (IF k = p THEN r ELSE parsed[k]) /\ p \in DOMAIN parsed /\ Same(r, parsed[p])
      BY <2>3, BecomesParts DEF Becomes
    <3>2. PICK q : q = parsed'[k]
      OBVIOUS
    <3>3. Right(parsed[k]) /\ Right(parsed[p])
      BY <3>1, OthersRight
    <3>4. Right(q)
      BY <2>3, <3>1, <3>2, <3>3, RightSame
    <3> QED
      BY <1>1, <2>1, <3>2, <3>4, RightOld
  <2> QED
    BY <1>2, <2>2, <2>3 DEF NotOwned
<1>3. CASE Requested(n, l)
  <2>1. PICK r \in ProfileType : parsed' = Append(parsed, r) /\ r.at = n /\ Right(r)'
    BY <1>3, RightNew
  <2>2. (Own(n))' /\ l.kind = "request"
    BY <1>3 DEF Requested
  <2>3. parsed \in Seq(ProfileType)
    BY DEF TypesInv
  <2>4. (k \in DOMAIN parsed /\ parsed'[k] = parsed[k]) \/ parsed'[k] = r
    BY <2>1, <2>3
  <2>5. CASE parsed'[k] = r
    BY <2>1, <2>5
  <2>6. CASE k \in DOMAIN parsed /\ parsed'[k] = parsed[k]
    <3>1. \E q : q = parsed[k] /\ Right(q)'
      BY <2>2, <2>6, OthersRight
    <3> QED
      BY <2>6, <3>1
  <2> QED
    BY <2>4, <2>5, <2>6
<1>4. CASE TakenIn(n, l)
  <2>1. PICK r : Becomes(r)
    BY <1>4 DEF TakenIn, Takes
  <2>2. k \in DOMAIN parsed /\ (k # p => parsed'[k] = parsed[k]) /\ (Own(n))' /\ p # 0 /\ p \in DOMAIN parsed
    BY <1>4, <2>1, BecomesParts DEF TakenIn, Becomes
  <2>3. CASE k = p
    <3>1. Right(parsed[p])
      BY <2>2, OthersRight
    <3> QED
      BY <1>4, <2>3, <3>1, RightTaken
  <2>4. CASE k # p
    <3>1. \E q : q = parsed[k] /\ Right(q)'
      BY <2>2, <2>4, OthersRight
    <3> QED
      BY <2>2, <2>4, <3>1
  <2> QED
    BY <2>3, <2>4
<1>5. CASE Panicked(n, l)
  BY <1>5 DEF Panicked
<1> QED
  BY <1>2, <1>3, <1>4, <1>5 DEF Reads

LEMMA RightEnd ==
    ASSUME TypesInv, RightInv, EndFile
    PROVE  RightInv'
<1>1. PICK done, sel, at : Closes(done, sel, at)
  BY EndEffect
<1>2. read' = read /\ state = "lines" /\ state' = "arg"
  BY EndEffect
<1> SUFFICES ASSUME NEW i \in DOMAIN found' PROVE \E q : q = found'[i].profile /\ Right(q)'
  BY <1>2 DEF RightInv, AllProfiles
<1>3. i \in 1 .. Len(found) + Len(parsed)
  BY <1>1, EndFound
<1>4. CASE i \in 1 .. Len(found)
  <2>1. found'[i] = found[i] /\ i \in DOMAIN found
    BY <1>1, <1>4, EndFound
  <2>2. PICK q : q = found[i].profile
    OBVIOUS
  <2>3. Right(q)
    BY <2>1, <2>2 DEF RightInv, AllProfiles
  <2> QED
    BY <1>2, <2>1, <2>2, <2>3, RightRead
<1>5. ASSUME NEW j \in 1 .. Len(parsed), i = Len(found) + j PROVE \E q : q = found'[i].profile /\ Right(q)'
  <2>1. found'[i].profile = done[j] /\ j \in DOMAIN parsed
    BY <1>1, <1>5, EndFound
  <2>2. Right(parsed[j])
    BY <1>2, <2>1 DEF RightInv, AllProfiles, ToSet
  <2>3. Same(done[j], parsed[j]) /\ done[j].comments = parsed[j].comments /\ done[j].body = parsed[j].body
    BY <1>1 DEF Closes
  <2>4. Right(done[j])
    BY <2>2, <2>3, RightSame
  <2> QED
    BY <1>2, <2>1, <2>4, RightRead
<1> QED
  BY <1>1, <1>3, <1>4, <1>5, EndFound

LEMMA RightStep ==
    ASSUME TypesInv, ReadInv, EnvInv, ParsedInv, PendingInv, FoundInv, RightInv, [Next]_vars
    PROVE  RightInv'
<1>1. ASSUME read' = read, \A q : q \in AllProfiles' => q \in AllProfiles PROVE RightInv'
  <2> SUFFICES ASSUME NEW q \in AllProfiles' PROVE Right(q)'
    BY DEF RightInv
  <2>1. Right(q)
    BY <1>1 DEF RightInv
  <2> QED
    BY <1>1, <2>1, RightRead
<1>2. CASE UNCHANGED vars
  BY <1>1, <1>2 DEF vars, argVars, parserVars, AllProfiles
<1>3. CASE ReadLine
  BY <1>3, ReadEffect, RightLine
<1>4. CASE OpenFile
  <2>1. read' = read /\ found' = found /\ parsed' = <<>>
    BY <1>4 DEF OpenFile, NextArg, ParseBegin
  <2>2. ToSet(parsed)' = {}
    <3>1. DOMAIN parsed' = {}
      BY <2>1
    <3> QED
      BY <3>1 DEF ToSet
  <2> QED
    BY <1>1, <2>1, <2>2 DEF AllProfiles
<1>5. CASE NewFile \/ Finish
  <2>1. read' = read /\ found' = found /\ state' # "lines"
    BY <1>5 DEF NewFile, Finish, NextArg, argVars
  <2> QED
    BY <1>1, <2>1 DEF AllProfiles
<1> QED
  BY <1>2, <1>3, <1>4, <1>5, RightEnd DEF Next, Ended

(***************************************************************************)
(* The profiles of the files before                                        *)
(***************************************************************************)
LEMMA FoundLine ==
    ASSUME TypesInv, ReadInv, FoundInv, NEW n, NEW l, Reads(n, l)
    PROVE  FoundInv'
<1>1. /\ Grown(n, l) /\ state = "lines" /\ found' = found /\ arg' = arg /\ DOMAIN read = 1 .. n - 1
      /\ Now = n /\ Now' = n + 1 /\ n \in Nat /\ arg \in Nat
  BY DEF Reads, Grown, Now, TypesInv
<1>2. ASSUME NEW i \in DOMAIN found
      PROVE  /\ IsRequest(found[i].profile.at, found[i].file)'
             /\ found[i].file < arg
             /\ \A x \in Names : found[i].profile.vars[x] = LastExport(x, found[i].file, Now)'
  <2>1. PICK a, f : a = found[i].profile.at /\ f = found[i].file
    OBVIOUS
  <2>2. IsRequest(a, f) /\ f < arg /\ \A x \in Names : found[i].profile.vars[x] = LastExport(x, f, n)
    BY <1>1, <2>1 DEF FoundInv
  <2>3. a \in 1 .. n - 1
    BY <1>1, <2>2 DEF IsRequest
  <2>4. IsRequest(a, f)'
    BY <1>1, <2>2, <2>3, Requests1
  <2>5. f # arg
    BY <1>1, <2>2
  <2>6. \A x : LastExport(x, f, n + 1)' = LastExport(x, f, n)
    BY <1>1, <2>5, ExportsNew
  <2>7. \A x : LastExport(x, f, Now)' = LastExport(x, f, n)
    BY <1>1, <2>6
  <2> QED
    BY <1>1, <2>1, <2>2, <2>4, <2>7
<1>3. \A i, j \in DOMAIN found : i < j => found[i].profile.at < found[j].profile.at
  BY DEF FoundInv
<1> QED
  BY <1>1, <1>2, <1>3 DEF FoundInv

LEMMA FoundRead ==
    ASSUME read' = read
    PROVE  /\ \A i, f : (IsRequest(i, f))' <=> IsRequest(i, f)
           /\ \A x, f : LastExport(x, f, Now)' = LastExport(x, f, Now)
<1>1. \A i : Line(i)' = Line(i) /\ (Own(i)' <=> Own(i)) /\ (Counts(i)' <=> Counts(i))
  BY DEF Line, Own, Counts, SectionOf
<1>2. Now' = Now
  BY DEF Now
<1> QED
  BY <1>1, <1>2 DEF IsRequest, LastExport

\* The lines of a file come after those of the files before it.
LEMMA AfterFound ==
    ASSUME TypesInv, ReadInv, FoundInv, state = "lines", NEW i \in DOMAIN found, NEW b, IsRequest(b, arg)
    PROVE  found[i].profile.at < b
<1>1. PICK a, f : a = found[i].profile.at /\ f = found[i].file
  OBVIOUS
<1>2. IsRequest(a, f) /\ f < arg
  BY <1>1 DEF FoundInv
<1>3. a \in DOMAIN read /\ b \in DOMAIN read /\ read[a].file = f /\ read[b].file = arg
  BY <1>2 DEF IsRequest
<1>4. a \in Nat /\ b \in Nat /\ f \in Nat /\ arg \in Nat
  <2>1. read \in Seq(Entries) /\ read[a] \in Entries
    BY <1>3 DEF TypesInv
  <2> QED
    BY <1>3, <2>1 DEF TypesInv, Entries
<1>5. ASSUME b <= a PROVE FALSE
  <2>1. read[b].file <= read[a].file
    BY <1>3, <1>5 DEF ReadInv
  <2> QED
    BY <1>2, <1>3, <1>4, <2>1
<1> QED
  BY <1>1, <1>4, <1>5

LEMMA FoundEnd ==
    ASSUME TypesInv, ReadInv, EnvInv, ParsedInv, FoundInv, EndFile
    PROVE  FoundInv'
<1>1. PICK done, sel, at : Closes(done, sel, at)
  BY EndEffect
<1>2. /\ read' = read /\ state = "lines" /\ state' = "arg" /\ arg' = arg
  BY EndEffect
<1> DEFINE m == Len(parsed)
           n == Len(found)
<1>3. /\ m \in Nat /\ n \in Nat /\ DOMAIN parsed = 1 .. m /\ DOMAIN found = 1 .. n /\ DOMAIN found' = 1 .. n + m
      /\ \A i \in 1 .. n : found'[i] = found[i]
      /\ \A j \in 1 .. m : found'[n + j].file = arg /\ found'[n + j].profile = done[j]
      /\ \A i \in 1 .. n + m : i \in 1 .. n \/ \E j \in 1 .. m : i = n + j
  BY <1>1, EndFound
<1>4. \A j \in 1 .. m : done[j].at = parsed[j].at /\ done[j].vars = envVars
  BY <1>1 DEF Closes, Same
<1> HIDE DEF m, n
<1>5. \A j \in 1 .. m : IsRequest(done[j].at, arg)
  BY <1>2, <1>3, <1>4 DEF ParsedInv
<1>6. \A x \in Names : envVars[x] = LastExport(x, arg, Now)
  BY <1>2 DEF EnvInv
<1>7. ASSUME NEW i \in DOMAIN found'
      PROVE  /\ IsRequest(found[i].profile.at, found[i].file)'
             /\ \A x \in Names : found'[i].profile.vars[x] = LastExport(x, found[i].file, Now)'
  <2>1. PICK a, f, v : a = found'[i].profile.at /\ f = found'[i].file /\ v = found'[i].profile.vars
    OBVIOUS
  <2>2. IsRequest(a, f) /\ \A x \in Names : v[x] = LastExport(x, f, Now)
    <3>1. CASE i \in 1 .. n
      BY <1>3, <2>1, <3>1 DEF FoundInv
    <3>2. ASSUME NEW j \in 1 .. m, i = n + j PROVE IsRequest(a, f) /\ \A x \in Names : v[x] = LastExport(x, f, Now)
      <4>1. f = arg /\ a = done[j].at /\ v = done[j].vars
        BY <1>3, <2>1, <3>2
      <4> QED
        BY <1>4, <1>5, <1>6, <4>1
    <3> QED
      BY <1>3, <3>1, <3>2
  <2> QED
    BY <1>2, <2>1, <2>2, FoundRead
<1>8. ASSUME NEW i \in DOMAIN found', NEW j \in DOMAIN found', i < j PROVE found'[i].profile.at < found'[j].profile.at
  <2>1. CASE i \in 1 .. n /\ j \in 1 .. n
    BY <1>3, <1>8, <2>1 DEF FoundInv
  <2>2. ASSUME i \in 1 .. n, NEW k \in 1 .. m, j = n + k PROVE found'[i].profile.at < found'[j].profile.at
    <3>1. found[i].profile.at < done[k].at
      BY <1>2, <1>3, <1>5, <2>2, AfterFound
    <3> QED
      BY <1>3, <2>2, <3>1
  <2>3. ASSUME NEW h \in 1 .. m, i = n + h, NEW k \in 1 .. m, j = n + k PROVE found'[i].profile.at < found'[j].profile.at
    <3>1. h < k
      BY <1>3, <1>8, <2>3
    <3>2. done[h].at < done[k].at
      BY <1>2, <1>3, <1>4, <3>1 DEF ParsedInv
    <3> QED
      BY <1>3, <2>3, <3>2
  <2>4. ASSUME NEW h \in 1 .. m, i = n + h, j \in 1 .. n PROVE FALSE
    BY <1>3, <1>8, <2>4
  <2> QED
    BY <1>3, <2>1, <2>2, <2>3, <2>4
<1> QED
  BY <1>2, <1>7, <1>8 DEF FoundInv

LEMMA FoundStep ==
    ASSUME TypesInv, ReadInv, EnvInv, ParsedInv, FoundInv, SelectedInv, [Next]_vars
    PROVE  FoundInv'
<1>1. ASSUME read' = read, found' = found, state' = "lines" => \A i \in DOMAIN found : found[i].file < arg' PROVE FoundInv'
  BY <1>1, FoundRead DEF FoundInv
<1>2. CASE UNCHANGED vars
  <2>1. state' = "lines" => \A i \in DOMAIN found : found[i].file < arg'
    BY <1>2 DEF vars, argVars, FoundInv
  <2> QED
    BY <1>1, <1>2, <2>1 DEF vars, argVars
<1>3. CASE ReadLine
  BY <1>3, ReadEffect, FoundLine
<1>4. CASE OpenFile
  <2>1. read' = read /\ found' = found /\ arg' = arg + 1 /\ arg \in Nat
    BY <1>4 DEF OpenFile, NextArg, TypesInv
  <2>2. \A i \in DOMAIN found : found[i].file < arg'
    BY <2>1 DEF SelectedInv
  <2> QED
    BY <1>1, <2>1, <2>2
<1>5. CASE NewFile \/ Finish
  BY <1>1, <1>5 DEF NewFile, Finish, NextArg, argVars
<1> QED
  BY <1>2, <1>3, <1>4, <1>5, FoundEnd DEF Next, Ended

(***************************************************************************)
(* The selected profiles                                                   *)
(***************************************************************************)
LEMMA TagNext ==
    ASSUME NEW n \in Nat
    PROVE  TagOf(n + 1) = IF ~args[n + 1].new /\ args[n + 1].tagged THEN <<ParseTag(args[n + 1].values)>> ELSE TagOf(n)
<1>1. /\ \A i \in 1 .. n + 1 : i \in 1 .. n \/ i = n + 1
      /\ \A i \in 1 .. n : i \in 1 .. n + 1 /\ i <= n + 1
      /\ n + 1 \in 1 .. n + 1
  OBVIOUS
<1>2. TaggedUpTo(n + 1) = TaggedUpTo(n) \cup (IF ~args[n + 1].new /\ args[n + 1].tagged THEN {n + 1} ELSE {})
  BY <1>1 DEF TaggedUpTo
<1>3. CASE ~args[n + 1].new /\ args[n + 1].tagged
  <2> DEFINE S == TaggedUpTo(n + 1)
  <2>1. n + 1 \in S /\ S \in SUBSET Int /\ \A y \in S : y <= n + 1
    BY <1>1, <1>3 DEF TaggedUpTo
  <2> HIDE DEF S
  <2>2. Max(S) = n + 1
    BY <2>1, MaxIs
  <2>3. S # {}
    BY <2>1
  <2> QED
    BY <1>3, <2>2, <2>3 DEF TagOf, S
<1>4. CASE ~(~args[n + 1].new /\ args[n + 1].tagged)
  <2>1. TaggedUpTo(n + 1) = TaggedUpTo(n)
    BY <1>2, <1>4
  <2> QED
    BY <1>4, <2>1 DEF TagOf
<1> QED
  BY <1>3, <1>4

LEMMA ChosenSame ==
    ASSUME args' = args
    PROVE  (\A n : TagOf(n)' = TagOf(n)) /\ \A f : Chosen(f)' <=> Chosen(f)
<1>1. \A n : TaggedUpTo(n)' = TaggedUpTo(n)
  BY DEF TaggedUpTo
<1>2. \A n : TagOf(n)' = TagOf(n)
  BY <1>1 DEF TagOf
<1> QED
  BY <1>2 DEF Chosen

LEMMA SelectedFile ==
    ASSUME TypesInv, SelectedInv, NewFile \/ OpenFile
    PROVE  SelectedInv'
<1>1. /\ args' = args /\ arg' = arg + 1 /\ profiles' = profiles /\ found' = found /\ arg \in Nat
      /\ tag' = IF ~args[arg + 1].new /\ args[arg + 1].tagged THEN <<ParseTag(args[arg + 1].values)>> ELSE tag
  BY DEF NewFile, OpenFile, NextArg, TypesInv
<1>2. (\A n : TagOf(n)' = TagOf(n)) /\ \A f : Chosen(f)' <=> Chosen(f)
  BY <1>1, ChosenSame
<1>3. tag' = TagOf(arg)'
  <2>1. PICK a : a = arg
    OBVIOUS
  <2>2. tag' = TagOf(a + 1)
    BY <1>1, <2>1, TagNext DEF SelectedInv
  <2>3. TagOf(arg)' = TagOf(a + 1)'
    BY <1>1, <2>1
  <2> QED
    BY <1>2, <2>2, <2>3
<1>4. \A i \in DOMAIN found : found[i].file \in 0 .. arg + 1
  BY <1>1 DEF SelectedInv
<1> QED
  BY <1>1, <1>2, <1>3, <1>4 DEF SelectedInv

LEMMA SelectedEnd ==
    ASSUME TypesInv, ReadInv, ParsedInv, FoundInv, SelectedInv, EndFile
    PROVE  SelectedInv'
<1>1. PICK done, sel, at : Closes(done, sel, at)
  BY EndEffect
<1>2. /\ read' = read /\ state = "lines" /\ arg' = arg /\ args' = args /\ tag' = tag /\ arg \in Nat
  BY EndEffect DEF TypesInv
<1> DEFINE m == Len(parsed)
           n == Len(found)
           b == Len(profiles)
           c == Len(at)
<1>3. /\ m \in Nat /\ n \in Nat /\ DOMAIN parsed = 1 .. m /\ DOMAIN found = 1 .. n /\ DOMAIN found' = 1 .. n + m
      /\ \A i \in 1 .. n : found'[i] = found[i]
      /\ \A j \in 1 .. m : found'[n + j].file = arg /\ found'[n + j].profile = done[j]
      /\ \A i \in 1 .. n + m : i \in 1 .. n \/ \E j \in 1 .. m : i = n + j
  BY <1>1, EndFound
<1>4. /\ b \in Nat /\ c \in Nat /\ DOMAIN profiles = 1 .. b /\ DOMAIN profiles' = 1 .. b + c
      /\ \A k \in 1 .. b : profiles'[k] = profiles[k]
      /\ \A k \in 1 .. c : profiles'[b + k] = sel[k]
      /\ \A k \in 1 .. b + c : k \in 1 .. b \/ \E j \in 1 .. c : k = b + j
  <2>1. profiles \in Seq(ProfileType) /\ sel \in Seq(ProfileType)
    BY <1>1 DEF TypesInv, Closes
  <2>2. /\ Len(profiles) \in Nat /\ Len(sel) \in Nat /\ DOMAIN profiles = 1 .. Len(profiles)
        /\ DOMAIN (profiles \o sel) = 1 .. Len(profiles) + Len(sel)
        /\ \A k \in 1 .. Len(profiles) : (profiles \o sel)[k] = profiles[k]
    BY <2>1, Concat
  <2>3. /\ \A k \in 1 .. Len(sel) : (profiles \o sel)[Len(profiles) + k] = sel[k]
        /\ \A k \in 1 .. Len(profiles) + Len(sel) : k \in 1 .. Len(profiles) \/ \E j \in 1 .. Len(sel) : k = Len(profiles) + j
    BY <2>1, Concat
  <2>4. profiles' = profiles \o sel /\ Len(sel) = Len(at)
    BY <1>1 DEF Closes
  <2> QED
    BY <2>2, <2>3, <2>4, Zenon
<1>5. /\ \A j \in 1 .. m : done[j].at = parsed[j].at
      /\ Len(done) = m /\ DOMAIN done = 1 .. m
      /\ \A k \in 1 .. c : at[k] \in 1 .. m /\ sel[k] = done[at[k]] /\ Selects(done[at[k]])
      /\ \A j, k \in 1 .. c : j < k => at[j] < at[k]
      /\ \A j \in 1 .. m : Selects(done[j]) => \E k \in 1 .. c : at[k] = j
  <2>1. /\ done \in Seq(ProfileType) /\ Len(done) = m /\ Places(done, {q \in ToSet(done) : Selects(q)}, at)
        /\ \A k \in 1 .. c : sel[k] = done[at[k]]
        /\ \A j \in 1 .. m : done[j].at = parsed[j].at
    BY <1>1 DEF Closes, Same
  <2>2. DOMAIN done = 1 .. m /\ at \in Seq(1 .. m)
    BY <2>1 DEF Places
  <2>3. \A k \in 1 .. c : at[k] \in 1 .. m
    BY <2>2
  <2>4. \A k \in 1 .. c : Selects(done[at[k]])
    BY <2>1 DEF Places
  <2>5. \A j \in 1 .. m : done[j] \in ToSet(done)
    BY <2>2 DEF ToSet
  <2>6. \A j \in 1 .. m : Selects(done[j]) => \E k \in 1 .. c : at[k] = j
    BY <2>1, <2>5 DEF Places
  <2>7. \A j, k \in 1 .. c : j < k => at[j] < at[k]
    BY <2>1 DEF Places
  <2> QED
    BY <2>1, <2>2, <2>3, <2>4, <2>6, <2>7
<1> HIDE DEF m, n, b, c
<1>6. /\ tag = TagOf(arg)
      /\ \A i \in 1 .. n : found[i].file \in 0 .. arg
      /\ \A k \in 1 .. b : \E i \in 1 .. n : Chosen(found[i]) /\ profiles[k] = found[i].profile
      /\ \A i \in 1 .. n : Chosen(found[i]) => \E k \in 1 .. b : profiles[k] = found[i].profile
      /\ \A j, k \in 1 .. b : j < k => profiles[j].at < profiles[k].at
  BY <1>3, <1>4 DEF SelectedInv
<1>7. (\A x : TagOf(x)' = TagOf(x)) /\ \A f : Chosen(f)' <=> Chosen(f)
  BY <1>2, ChosenSame
<1>8. \A j \in 1 .. m : n + j \in 1 .. n + m /\ (Chosen(found'[n + j]) <=> Selects(done[j]))
  <2>1. \A j \in 1 .. m : n + j \in 1 .. n + m
    BY <1>3
  <2>2. \A j \in 1 .. m : Chosen(found'[n + j]) <=> Selects(done[j])
    BY <1>3, <1>6 DEF Chosen, Selects
  <2> QED
    BY <2>1, <2>2
<1>9. \A i \in 1 .. n : i \in 1 .. n + m
  BY <1>3
<1>10. \A k \in 1 .. b : k \in 1 .. b + c
  BY <1>4
<1>11. \A k \in 1 .. c : b + k \in 1 .. b + c
  BY <1>4
<1>12. tag' = TagOf(arg)'
  <2>1. PICK a : a = arg
    OBVIOUS
  <2>2. tag' = TagOf(a) /\ TagOf(arg)' = TagOf(a)'
    BY <1>2, <1>6, <2>1
  <2> QED
    BY <1>7, <2>2
<1>13. ASSUME NEW i \in DOMAIN found' PROVE found'[i].file \in 0 .. arg
  <2>1. arg \in 0 .. arg
    BY <1>2
  <2>2. CASE i \in 1 .. n
    BY <1>3, <1>6, <2>2
  <2>3. ASSUME NEW j \in 1 .. m, i = n + j PROVE found'[i].file = arg
    BY <1>3, <2>3
  <2> QED
    BY <1>3, <2>1, <2>2, <2>3
<1>14. ASSUME NEW k \in 1 .. b + c PROVE \E i \in 1 .. n + m : \E f : f = found'[i] /\ Chosen(f) /\ profiles'[k] = f.profile
  <2>1. CASE k \in 1 .. b
    <3>1. PICK i \in 1 .. n : Chosen(found[i]) /\ profiles[k] = found[i].profile
      BY <1>6, <2>1
    <3>2. i \in 1 .. n + m /\ found'[i] = found[i] /\ profiles'[k] = profiles[k]
      BY <1>3, <1>4, <1>9, <2>1, <3>1
    <3> QED
      BY <3>1, <3>2
  <2>2. ASSUME NEW j \in 1 .. c, k = b + j PROVE \E i \in 1 .. n + m : \E f : f = found'[i] /\ Chosen(f) /\ profiles'[k] = f.profile
    <3>1. at[j] \in 1 .. m /\ Selects(done[at[j]]) /\ profiles'[k] = done[at[j]]
      BY <1>4, <1>5, <2>2
    <3>2. n + at[j] \in 1 .. n + m /\ Chosen(found'[n + at[j]]) /\ found'[n + at[j]].profile = done[at[j]]
      BY <1>3, <1>8, <3>1
    <3> QED
      BY <3>1, <3>2
  <2> QED
    BY <1>4, <2>1, <2>2
<1>15. ASSUME NEW i \in 1 .. n + m, NEW f, f = found'[i], Chosen(f) PROVE \E k \in 1 .. b + c : profiles'[k] = f.profile
  <2>1. CASE i \in 1 .. n
    <3>1. PICK k \in 1 .. b : profiles[k] = found[i].profile
      BY <1>3, <1>6, <1>15, <2>1
    <3> QED
      BY <1>3, <1>4, <1>10, <1>15, <2>1, <3>1
  <2>2. ASSUME NEW j \in 1 .. m, i = n + j PROVE \E k \in 1 .. b + c : profiles'[k] = f.profile
    <3>1. Selects(done[j]) /\ f.profile = done[j]
      BY <1>3, <1>8, <1>15, <2>2
    <3>2. PICK k \in 1 .. c : at[k] = j
      BY <1>5, <3>1
    <3>3. profiles'[b + k] = done[j]
      BY <1>4, <1>5, <3>2
    <3> QED
      BY <1>11, <3>1, <3>3
  <2> QED
    BY <1>3, <2>1, <2>2
<1>16. \A j \in 1 .. m : IsRequest(done[j].at, arg)
  BY <1>2, <1>3, <1>5 DEF ParsedInv
<1>17. ASSUME NEW j \in 1 .. b + c, NEW k \in 1 .. b + c, j < k PROVE profiles'[j].at < profiles'[k].at
  <2>1. CASE j \in 1 .. b /\ k \in 1 .. b
    BY <1>4, <1>6, <1>17, <2>1
  <2>2. ASSUME j \in 1 .. b, NEW i \in 1 .. c, k = b + i PROVE profiles'[j].at < profiles'[k].at
    <3>1. PICK h \in DOMAIN found : profiles[j] = found[h].profile
      BY <1>3, <1>6, <2>2
    <3>2. at[i] \in 1 .. m /\ profiles'[k] = done[at[i]]
      BY <1>4, <1>5, <2>2
    <3>3. IsRequest(done[at[i]].at, arg)
      BY <1>16, <3>2
    <3>4. found[h].profile.at < done[at[i]].at
      BY <1>2, <3>3, AfterFound
    <3> QED
      BY <1>4, <2>2, <3>1, <3>2, <3>4
  <2>3. ASSUME NEW h \in 1 .. c, j = b + h, NEW i \in 1 .. c, k = b + i PROVE profiles'[j].at < profiles'[k].at
    <3>1. h < i
      BY <1>4, <1>17, <2>3
    <3>2. at[h] \in 1 .. m /\ at[i] \in 1 .. m /\ at[h] < at[i] /\ profiles'[j] = done[at[h]] /\ profiles'[k] = done[at[i]]
      BY <1>4, <1>5, <2>3, <3>1
    <3>3. parsed[at[h]].at < parsed[at[i]].at
      BY <1>2, <1>3, <3>2 DEF ParsedInv
    <3> QED
      BY <1>5, <3>2, <3>3
  <2>4. ASSUME NEW h \in 1 .. c, j = b + h, k \in 1 .. b PROVE FALSE
    BY <1>4, <1>17, <2>4
  <2> QED
    BY <1>4, <2>1, <2>2, <2>3, <2>4
<1>18. ASSUME NEW k \in DOMAIN profiles' PROVE \E i \in DOMAIN found' : Chosen(found[i])' /\ profiles'[k] = found'[i].profile
  <2>1. PICK i \in 1 .. n + m : \E f : f = found'[i] /\ Chosen(f) /\ profiles'[k] = f.profile
    BY <1>4, <1>14
  <2>2. PICK f : f = found'[i] /\ Chosen(f) /\ profiles'[k] = f.profile
    BY <2>1
  <2>3. Chosen(f)'
    BY <1>7, <2>2
  <2>4. Chosen(found[i])'
    BY <2>2, <2>3
  <2> QED
    BY <1>3, <2>2, <2>4
<1>19. \A i \in DOMAIN found' : Chosen(found[i])' => \E k \in DOMAIN profiles' : profiles'[k] = found'[i].profile
  <2> SUFFICES ASSUME NEW i \in DOMAIN found', Chosen(found[i])' PROVE \E k \in DOMAIN profiles' : profiles'[k] = found'[i].profile
    OBVIOUS
  <2>1. PICK f : f = found'[i]
    OBVIOUS
  <2>2. Chosen(f)
    BY <1>7, <2>1
  <2> QED
    BY <1>3, <1>4, <1>15, <2>1, <2>2
<1>20. \A j, k \in DOMAIN profiles' : j < k => profiles'[j].at < profiles'[k].at
  BY <1>4, <1>17
<1>21. \A i \in DOMAIN found' : found'[i].file \in 0 .. arg'
  BY <1>2, <1>13
<1> QED
  BY <1>12, <1>18, <1>19, <1>20, <1>21 DEF SelectedInv

LEMMA SelectedStep ==
    ASSUME TypesInv, ReadInv, ParsedInv, FoundInv, SelectedInv, [Next]_vars
    PROVE  SelectedInv'
<1>1. ASSUME UNCHANGED <<args, arg, tag, profiles, found>> PROVE SelectedInv'
  <2>1. (\A n : TagOf(n)' = TagOf(n)) /\ \A f : Chosen(f)' <=> Chosen(f)
    BY <1>1, ChosenSame
  <2> QED
    BY <1>1, <2>1 DEF SelectedInv
<1>2. CASE UNCHANGED vars
  BY <1>1, <1>2 DEF vars, argVars
<1>3. CASE ReadLine
  <2>1. PICK l, n : Reads(n, l)
    BY <1>3, ReadEffect
  <2> QED
    BY <1>1, <2>1 DEF Reads
<1>4. CASE Finish
  BY <1>1, <1>4 DEF Finish, argVars
<1> QED
  BY <1>2, <1>3, <1>4, SelectedFile, SelectedEnd DEF Next, Ended

(***************************************************************************)
(* The invariant                                                           *)
(***************************************************************************)
Inv ==
    /\ TypesInv /\ ReadInv /\ EnvInv /\ ParsedInv
    /\ PendingInv /\ RightInv /\ FoundInv /\ SelectedInv

LEMMA InvInit ==
    ASSUME Init
    PROVE  Inv
<1>1. TypesInv /\ ReadInv /\ EnvInv
  BY TypesInit, ReadEnvInit
<1>2. state = "arg" /\ arg = 0 /\ tag = <<>> /\ found = <<>> /\ profiles = <<>> /\ read = <<>> /\ lastComments = <<>>
  BY DEF Init
<1>3. DOMAIN found = {} /\ DOMAIN profiles = {} /\ DOMAIN read = {} /\ DOMAIN lastComments = {}
  BY <1>2
<1>4. PendingInv
  BY <1>3 DEF PendingInv, Listed, Pending
<1>5. ParsedInv /\ RightInv /\ FoundInv
  BY <1>2, <1>3 DEF ParsedInv, RightInv, AllProfiles, FoundInv
<1>6. TagOf(0) = <<>>
  BY DEF TagOf, TaggedUpTo
<1>7. SelectedInv
  BY <1>2, <1>3, <1>6 DEF SelectedInv
<1> QED
  BY <1>1, <1>4, <1>5, <1>7 DEF Inv

LEMMA InvStep ==
    ASSUME Inv, [Next]_vars
    PROVE  Inv'
<1>1. TypesInv' /\ ReadInv' /\ EnvInv' /\ ParsedInv' /\ PendingInv'
  BY TypesStep, ReadEnvStep, ParsedStep, PendingStep DEF Inv
<1>2. RightInv' /\ FoundInv' /\ SelectedInv'
  BY RightStep, FoundStep, SelectedStep DEF Inv
<1> QED
  BY <1>1, <1>2 DEF Inv

LEMMA InvAlways == Spec => []Inv
<1>1. Init => Inv
  BY InvInit
<1>2. Inv /\ [Next]_vars => Inv'
  BY InvStep
<1> QED
  BY <1>1, <1>2, PTL DEF Spec

(***************************************************************************)
(* Theorems                                                                *)
(***************************************************************************)
\* The variables have their types: at most one tag counts, the values of variables are from
\* lines that were read, the current profile is the last one, and no more profiles run than
\* there are in the files.
THEOREM ProfilesTypeCorrect == Spec => []TypeOK
<1>1. ASSUME Inv PROVE TypeOK
  <2>1. TypesInv /\ tag = TagOf(arg)
    BY <1>1 DEF Inv, SelectedInv
  <2>2. Len(tag) <= 1
    <3>1. tag = <<>> \/ \E x : tag = <<x>>
      BY <2>1 DEF TagOf
    <3>2. Len(<<>>) = 0 /\ \A x : Len(<<x>>) = 1
      OBVIOUS
    <3>3. Len(tag) = 0 \/ Len(tag) = 1
      BY <3>1, <3>2, Zenon
    <3> QED
      BY <3>3
  <2> QED
    BY <2>1, <2>2 DEF TypesInv, TypeOK
<1> QED
  BY <1>1, InvAlways, PTL

LEMMA AllTyped ==
    ASSUME TypesInv
    PROVE  AllProfiles \subseteq ProfileType
<1>1. found \in Seq([file : Nat, profile : ProfileType]) /\ parsed \in Seq(ProfileType)
  BY DEF TypesInv
<1>2. ASSUME NEW i \in DOMAIN found PROVE found[i].profile \in ProfileType
  <2> DEFINE E == [file : Nat, profile : ProfileType]
  <2>1. found[i] \in E
    <3>1. found \in Seq(E)
      BY <1>1
    <3> HIDE DEF E
    <3> QED
      BY <3>1
  <2> QED
    BY <2>1
<1>3. ToSet(parsed) \subseteq ProfileType
  BY <1>1 DEF ToSet
<1> QED
  BY <1>2, <1>3 DEF AllProfiles

\* A line is in a sequence once if it is listed, and not at all if it is not.
LEMMA ListedOnce ==
    ASSUME NEW A, NEW s \in Seq(A), NEW S, Listed(s, S), NEW i \in Nat
    PROVE  Cardinality({k \in DOMAIN s : s[k].line = i}) = IF i \in S THEN 1 ELSE 0
<1> DEFINE K == {k \in DOMAIN s : s[k].line = i}
<1>1. CASE i \notin S
  <2>1. K = {}
    BY <1>1 DEF Listed
  <2> QED
    BY <1>1, <2>1, FS_EmptySet
<1>2. CASE i \in S
  <2>1. PICK k \in DOMAIN s : s[k].line = i
    BY <1>2 DEF Listed
  <2>2. ASSUME NEW j \in K PROVE j = k
    <3>1. j \in Nat /\ k \in Nat /\ j \in DOMAIN s
      OBVIOUS
    <3>2. j < k => s[j].line < s[k].line
      BY <2>1, <3>1 DEF Listed
    <3>3. k < j => s[k].line < s[j].line
      BY <2>1, <3>1 DEF Listed
    <3>4. s[j].line = i /\ s[k].line = i
      BY <2>1
    <3> QED
      BY <3>1, <3>2, <3>3, <3>4
  <2>3. K = {k}
    BY <2>1, <2>2
  <2> QED
    BY <1>2, <2>3, FS_Singleton
<1> QED
  BY <1>1, <1>2

\* Every comment goes to one profile, and to the right one: that of the next line of a
\* profile, even if this line is in the next file, and never to two of them (lastComments).
THEOREM CommentsKept == Spec => []CommentsBelong
<1>1. ASSUME Inv PROVE CommentsBelong
  <2> SUFFICES ASSUME NEW q \in AllProfiles, NEW i \in DOMAIN read
               PROVE  Cardinality({k \in DOMAIN q.comments : q.comments[k].line = i}) = IF i \in BelongTo(q.at) THEN 1 ELSE 0
    BY DEF CommentsBelong, BelongTo
  <2>1. q.comments \in Seq(Comments)
    BY <1>1, AllTyped, LinesOf DEF Inv
  <2>2. Listed(q.comments, BelongTo(q.at))
    BY <1>1 DEF Inv, RightInv, Right
  <2>3. i \in Nat
    BY <1>1 DEF Inv, TypesInv
  <2> QED
    BY <2>1, <2>2, <2>3, ListedOnce
<1> QED
  BY <1>1, InvAlways, PTL

\* The values that a request is made with are those of the last exports that count: before
\* its request line for the URL, and in the whole file for the body.
THEOREM ExportsScoped == Spec => []ExportsInScope
<1>1. ASSUME Inv PROVE ExportsInScope
  <2>1. \A q \in AllProfiles : \A v \in q.addr : v[2] = LastExport(v[1], read[q.at].file, q.at)
    BY <1>1 DEF Inv, RightInv, Right
  <2>2. ASSUME NEW i \in DOMAIN found, NEW r \in Requests(found[i].profile), NEW v \in r.values
        PROVE  v[2] = LastExport(v[1], found[i].file, Len(read) + 1)
    <3>1. PICK q : q = found[i].profile
      OBVIOUS
    <3> DEFINE U == UNION {q.body[k].uses : k \in DOMAIN q.body}
    <3>2. q \in ProfileType
      BY <1>1, <3>1, AllTyped DEF Inv, AllProfiles
    <3>3. U \subseteq Names
      <4>1. q.body \in Seq(Texts)
        BY <3>2, LinesOf
      <4>2. \A k \in DOMAIN q.body : q.body[k] \in Texts
        BY <4>1
      <4> QED
        BY <4>2 DEF Texts
    <3>4. r.values = Eval(q.vars, U)
      <4> DEFINE base == [method |-> q.method, addr |-> q.addr, query |-> MakeQuery(q),
                          contentType |-> q.contentType, body |-> q.body, file |-> {},
                          values |-> Eval(q.vars, U)]
      <4>1. r = base \/ \E f : r = [base EXCEPT !.file = {f}]
        BY <3>1 DEF Requests
      <4>2. base.values = Eval(q.vars, U) /\ \A f : [base EXCEPT !.file = {f}].values = Eval(q.vars, U)
        OBVIOUS
      <4> QED
        BY <4>1, <4>2
    <3> HIDE DEF U
    <3>5. PICK x \in U : v = <<x, q.vars[x]>>
      BY <3>4 DEF Eval
    <3>6. \A n \in Names : q.vars[n] = LastExport(n, found[i].file, Now)
      BY <1>1, <3>1 DEF Inv, FoundInv
    <3> QED
      BY <3>3, <3>5, <3>6 DEF Now
  <2> QED
    BY <2>1, <2>2 DEF ExportsInScope
<1> QED
  BY <1>1, InvAlways, PTL

\* The body of a profile is, in their order, just the lines of the file that stand below its
\* items, up to the next request line.
THEOREM BodiesWhole == Spec => []BodyWhole
<1>1. ASSUME Inv PROVE BodyWhole
  <2> SUFFICES ASSUME NEW f \in ToSet(found) PROVE Listed(f.profile.body, Below(f.profile.at))
    BY DEF BodyWhole, Listed, Below
  <2>1. f.profile \in AllProfiles
    BY DEF ToSet, AllProfiles
  <2> QED
    BY <1>1, <2>1 DEF Inv, RightInv, Right
<1> QED
  BY <1>1, InvAlways, PTL

LEMMA DigitOrders ==
    ASSUME NEW n \in Nat
    PROVE  DigitOrder(n) \in Nat /\ (n <= 999 => DigitOrder(n) < 2000)
<1>1. n \div 100 \in Nat /\ n \div 10 \in Nat /\ n % 10 \in 0 .. 9 /\ (n \div 10) % 10 \in 0 .. 9
  OBVIOUS
<1>2. n <= 999 => n \div 100 <= 9
  OBVIOUS
<1>3. n < 100 => n \div 10 <= 9
  OBVIOUS
<1> QED
  BY <1>1, <1>2, <1>3 DEF DigitOrder

Between(a, b, t) == (a <= t /\ t <= b) \/ (b <= t /\ t <= a)

Numbers    == 0 .. 999
ShortWords == 1000 .. 1009
NoLonger(t) == t <= 1009

\* A range of two numbers has just the numbers between them, whichever comes first.
LEMMA RangeExact ==
    ASSUME NEW a \in Numbers, NEW b \in Numbers, EmptyIsDigits => 0 \notin {a, b}, NEW t \in Int, t >= -1
    PROVE  RangeContains(NewRangeValue(a, b), t) <=> Between(a, b, t)
<1> USE DEF Numbers
<1>1. PICK r : r = NewRangeValue(a, b)
  OBVIOUS
<1>2. a # NoTag /\ b # NoTag /\ a \in Nat /\ b \in Nat /\ a < 1000 /\ b < 1000
  BY DEF NoTag
<1>3. ParseInt(a) = a /\ ParseInt(b) = b /\ IsDigits(a) /\ IsDigits(b)
  BY <1>2 DEF ParseInt, IsDigits
<1>4. /\ r.isInt /\ r.from \in {a, b} /\ r.to \in {a, b}
      /\ r.fromInt = (IF a > b THEN b ELSE a) /\ r.toInt = (IF a > b THEN a ELSE b)
  <2>1. r = [single  |-> FALSE,
             from    |-> IF Order(a) > Order(b) THEN b ELSE a,
             to      |-> IF Order(a) > Order(b) THEN a ELSE b,
             isInt   |-> TRUE,
             fromInt |-> IF a > b THEN b ELSE a,
             toInt   |-> IF a > b THEN a ELSE b]
    BY <1>1, <1>3 DEF NewRangeValue
  <2> QED
    BY <2>1
<1>5. \A x \in {a, b} : Order(x) = DigitOrder(x) /\ DigitOrder(x) \in Nat /\ DigitOrder(x) < 2000
  BY <1>2, DigitOrders DEF Order
<1>6. CASE t \in 0 .. 999
  <2>1. t # NoTag /\ IsDigits(t) /\ ParseInt(t) = t
    BY <1>6 DEF NoTag, IsDigits, ParseInt
  <2>2. RangeContains(r, t) <=> r.fromInt <= t /\ t <= r.toInt
    BY <1>2, <1>4, <2>1 DEF RangeContains, ContainsInt
  <2> QED
    BY <1>1, <1>2, <1>4, <1>6, <2>2 DEF Between
<1>7. CASE t = NoTag
  <2>1. Order(t) = -1 /\ ParseInt(t) = 0 /\ (IsDigits(t) => a > 0 /\ b > 0)
    <3>1. IsDigits(t) => EmptyIsDigits
      BY <1>7 DEF IsDigits
    <3> QED
      BY <1>2, <1>7, <3>1 DEF Order, ParseInt, NoTag
  <2>2. r.from # NoTag /\ ~(Order(r.from) <= Order(t))
    BY <1>2, <1>4, <1>5, <2>1
  <2>3. IsDigits(t) => ~(r.fromInt <= ParseInt(t))
    BY <1>2, <1>4, <2>1
  <2>4. ~RangeContains(r, t)
    BY <2>2, <2>3 DEF RangeContains, ContainsString, ContainsInt
  <2> QED
    BY <1>1, <1>7, <2>4 DEF NoTag, Between
<1>8. CASE t \in Nat /\ t >= 1000
  <2>1. t # NoTag /\ ~IsDigits(t) /\ Order(t) = 2000 + DigitOrder(t - 1000)
    BY <1>8 DEF NoTag, IsDigits, Order
  <2>2. t - 1000 \in Nat
    BY <1>8
  <2>3. Order(t) >= 2000 /\ Order(t) \in Nat
    BY <2>1, <2>2, DigitOrders
  <2>4. r.to # NoTag /\ ~(Order(t) <= Order(r.to))
    BY <1>2, <1>4, <1>5, <2>3
  <2>5. ~RangeContains(r, t)
    BY <2>1, <2>4 DEF RangeContains, ContainsString
  <2> QED
    BY <1>1, <1>8, <2>5, SMTT(40) DEF Between
<1> QED
  BY <1>6, <1>7, <1>8 DEF NoTag

\* A range of two words with one digit has just the words between them.
LEMMA WordsExact ==
    ASSUME NEW a \in ShortWords, NEW b \in ShortWords, NEW t \in Int, t >= -1, NoLonger(t)
    PROVE  RangeContains(NewRangeValue(a, b), t) <=> Between(a, b, t)
<1> USE DEF ShortWords, NoLonger
<1>1. PICK r : r = NewRangeValue(a, b)
  OBVIOUS
<1>2. a # NoTag /\ b # NoTag /\ a \in Nat /\ b \in Nat /\ ~(a < 1000) /\ ~(b < 1000)
  BY DEF NoTag
<1>3. ~IsDigits(a) /\ ~IsDigits(b)
  BY <1>2 DEF IsDigits
<1>4. \A x \in ShortWords : Order(x) = 2000 + (x - 1000) * 121 /\ x # NoTag
  <2>1. ASSUME NEW x \in ShortWords PROVE Order(x) = 2000 + (x - 1000) * 121 /\ x # NoTag
    <3>1. x \in Int /\ x # NoTag /\ ~(x < 1000) /\ x - 1000 < 10
      BY DEF NoTag
    <3> QED
      BY <3>1 DEF Order, DigitOrder
  <2> QED
    BY <2>1
<1>5. /\ ~r.isInt
      /\ r.from = (IF Order(a) > Order(b) THEN b ELSE a) /\ r.to = (IF Order(a) > Order(b) THEN a ELSE b)
  <2> HIDE DEF ShortWords, NoLonger
  <2>1. ((a = NoTag \/ IsDigits(a)) /\ (b = NoTag \/ IsDigits(b))) = FALSE
    BY <1>2, <1>3, ZenonT(40)
  <2>2. r.from = IF Order(a) > Order(b) THEN b ELSE a
    BY <1>1, SMTT(40) DEF NewRangeValue
  <2>3. r.to = IF Order(a) > Order(b) THEN a ELSE b
    BY <1>1, SMTT(40) DEF NewRangeValue
  <2>4. r.isInt = ((a = NoTag \/ IsDigits(a)) /\ (b = NoTag \/ IsDigits(b)))
    BY <1>1, SMTT(40) DEF NewRangeValue
  <2>5. r.isInt = FALSE
    BY <2>1, <2>4, ZenonT(40)
  <2> QED
    BY <2>2, <2>3, <2>5, Zenon
<1>6. r.from = (IF a > b THEN b ELSE a) /\ r.to = (IF a > b THEN a ELSE b)
  <2>1. Order(a) > Order(b) <=> a > b
    BY <1>4
  <2> QED
    BY <1>5, <2>1
<1>7. r.from \in ShortWords /\ r.to \in ShortWords /\ r.from # NoTag /\ r.to # NoTag
  BY <1>2, <1>6
<1>8. RangeContains(r, t) <=> Order(r.from) <= Order(t) /\ Order(t) <= Order(r.to)
  BY <1>5, <1>7 DEF RangeContains, ContainsString
<1>9. CASE t \in ShortWords
  <2>1. Order(r.from) <= Order(t) <=> r.from <= t
    BY <1>4, <1>7, <1>9
  <2>2. Order(t) <= Order(r.to) <=> t <= r.to
    BY <1>4, <1>7, <1>9
  <2> QED
    BY <1>1, <1>6, <1>8, <2>1, <2>2 DEF Between
<1>10. CASE t < 1000
  <2>1. Order(t) \in Int /\ Order(t) < 2000
    <3>1. CASE t = NoTag
      BY <3>1 DEF Order
    <3>2. CASE t # NoTag
      <4>1. t \in Nat /\ t <= 999
        BY <1>10, <3>2 DEF NoTag
      <4>2. DigitOrder(t) \in Nat /\ DigitOrder(t) < 2000
        BY <4>1, DigitOrders
      <4> QED
        BY <1>10, <3>2, <4>2 DEF Order
    <3> QED
      BY <3>1, <3>2
  <2>2. Order(r.from) \in Int /\ Order(r.from) >= 2000
    BY <1>4, <1>7
  <2>3. ~RangeContains(r, t)
    BY <1>8, <2>1, <2>2
  <2>4. ~Between(a, b, t)
    BY <1>10 DEF Between
  <2> QED
    BY <1>1, <2>3, <2>4
<1> QED
  BY <1>9, <1>10

LEMMA TagExact ==
    ASSUME NEW list \in SUBSET Values, NEW t \in Int, t >= -1, \A v \in list : Clear(v, t)
    PROVE  TagContains(ParseTag(list), t) <=> \E v \in list : Within(v, t)
<1> DEFINE Of(v) == IF v.range THEN NewRangeValue(v.from, v.to) ELSE SingleValue(v.from)
           In(r) == IF r.single THEN r.from = t ELSE RangeContains(r, t)
<1>1. ASSUME NEW v \in list PROVE In(Of(v)) <=> Within(v, t)
  <2>1. CASE v.range
    <3>1. Of(v) = NewRangeValue(v.from, v.to) /\ NewRangeValue(v.from, v.to).single = FALSE
      BY <2>1 DEF NewRangeValue
    <3> HIDE DEF Of
    <3>2. In(Of(v)) <=> RangeContains(NewRangeValue(v.from, v.to), t)
      BY <3>1
    <3>3. RangeContains(NewRangeValue(v.from, v.to), t) <=> Between(v.from, v.to, t)
      <4>1. PICK a, b : a = v.from /\ b = v.to
        OBVIOUS
      <4>2. \/ a \in Numbers /\ b \in Numbers /\ (EmptyIsDigits => 0 \notin {a, b})
            \/ a \in ShortWords /\ b \in ShortWords /\ NoLonger(t)
        <5>1. \/ {v.from, v.to} \subseteq Numbers /\ (EmptyIsDigits => 0 \notin {v.from, v.to})
              \/ {v.from, v.to} \subseteq ShortWords /\ NoLonger(t)
          <6>1. Clear(v, t)
            OBVIOUS
          <6> QED
            BY <2>1, <6>1, ZenonT(40) DEF Clear, Numbers, ShortWords, NoLonger
        <5> QED
          BY <4>1, <5>1, ZenonT(40)
      <4>3. CASE a \in Numbers /\ b \in Numbers /\ (EmptyIsDigits => 0 \notin {a, b})
        BY <4>1, <4>3, RangeExact, ZenonT(40)
      <4>4. CASE a \in ShortWords /\ b \in ShortWords /\ NoLonger(t)
        BY <4>1, <4>4, WordsExact, ZenonT(40)
      <4> QED
        BY <4>2, <4>3, <4>4
    <3>4. Within(v, t) <=> Between(v.from, v.to, t)
      BY <2>1 DEF Within, Between
    <3> QED
      BY <3>2, <3>3, <3>4
  <2>2. CASE ~v.range
    <3>1. Of(v) = SingleValue(v.from) /\ SingleValue(v.from).single = TRUE /\ SingleValue(v.from).from = v.from
      BY <2>2 DEF SingleValue
    <3> HIDE DEF Of
    <3> QED
      BY <2>2, <3>1 DEF Within
  <2> QED
    BY <2>1, <2>2
<1>2. TagContains(ParseTag(list), t) <=> \E r \in {Of(v) : v \in list} : In(r)
  BY DEF TagContains, ParseTag
<1> HIDE DEF Of, In
<1> QED
  BY <1>1, <1>2

\* With lists of tags, of ranges of numbers and of ranges of words with one digit, the
\* profiles that run are just those whose tag the last list names, in the order of their
\* lines.  (ParseTag, NewRangeValue, Contains)
THEOREM SelectedExactly == Spec => []SelectionExact
<1>1. ASSUME Inv PROVE SelectionExact
  <2> SUFFICES ASSUME \A i \in DOMAIN args : \A v \in args[i].values : \A k \in DOMAIN found :
                          Clear(v, found[k].profile.tag)
               PROVE  /\ ToSet(profiles) = {f.profile : f \in {g \in ToSet(found) : Wanted(g)}}
                      /\ \A i, j \in DOMAIN profiles : i < j => profiles[i].at < profiles[j].at
    BY DEF SelectionExact
  <2>1. TypesInv /\ SelectedInv
    BY <1>1 DEF Inv
  <2>2. ASSUME NEW i \in DOMAIN found PROVE Chosen(found[i]) <=> Wanted(found[i])
    <3>1. PICK f : f = found[i]
      OBVIOUS
    <3> DEFINE S == TaggedUpTo(f.file)
               m == Max(S)
    <3>2. f.file \in 0 .. arg /\ arg \in 0 .. Len(args) /\ args \in Seq(Args) /\ f.profile.tag \in Tags
      <4>1. found[i].profile \in ProfileType
        BY <2>1, AllTyped DEF AllProfiles
      <4> QED
        BY <2>1, <3>1, <4>1 DEF SelectedInv, TypesInv, ProfileType
    <3>3. CASE S = {}
      BY <3>1, <3>3 DEF Chosen, Wanted, TagOf
    <3>4. CASE S # {}
      <4>1. S \in SUBSET (0 .. f.file) /\ f.file \in Nat /\ S \subseteq 1 .. f.file
        BY <3>2 DEF TaggedUpTo
      <4> HIDE DEF S
      <4>2. m \in S
        BY <3>4, <4>1, MaxOf
      <4> HIDE DEF m
      <4>3. m \in DOMAIN args
        <5>1. m \in 1 .. f.file
          BY <4>1, <4>2
        <5>2. f.file <= Len(args) /\ Len(args) \in Nat /\ DOMAIN args = 1 .. Len(args)
          BY <3>2
        <5> QED
          BY <4>1, <5>1, <5>2
      <4>4. args[m].values \in SUBSET Values /\ \A v \in args[m].values : Clear(v, f.profile.tag)
        <5>1. args[m] \in Args
          BY <3>2, <4>3
        <5> QED
          BY <3>1, <4>3, <5>1 DEF Args
      <4>5. TagContains(ParseTag(args[m].values), f.profile.tag) <=> \E v \in args[m].values : Within(v, f.profile.tag)
        <5>1. f.profile.tag \in Int /\ f.profile.tag >= -1
          BY <3>2 DEF Tags, NoTag
        <5> QED
          BY <4>4, <5>1, TagExact
      <4>6. TagOf(f.file) = <<ParseTag(args[m].values)>>
        BY <3>4 DEF TagOf, S, m
      <4>7. TagOf(f.file) # <<>> /\ TagOf(f.file)[1] = ParseTag(args[m].values)
        BY <4>6
      <4> QED
        BY <3>1, <3>4, <4>5, <4>7 DEF Chosen, Wanted, S, m
    <3> QED
      BY <3>3, <3>4
  <2>3. /\ \A k \in DOMAIN profiles : \E i \in DOMAIN found : Wanted(found[i]) /\ profiles[k] = found[i].profile
        /\ \A i \in DOMAIN found : Wanted(found[i]) => \E k \in DOMAIN profiles : profiles[k] = found[i].profile
    BY <2>1, <2>2 DEF SelectedInv
  <2>4. ToSet(profiles) = {f.profile : f \in {g \in ToSet(found) : Wanted(g)}}
    BY <2>3 DEF ToSet
  <2> QED
    BY <2>1, <2>4 DEF SelectedInv
<1> QED
  BY <1>1, InvAlways, PTL
=============================================================================

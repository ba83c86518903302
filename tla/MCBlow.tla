------------------------------- MODULE MCBlow -------------------------------
(***************************************************************************)
(* Small command lines for Blow.  Each is berf -n 0 <url>, changed in what *)
(* the comment before it says; the constants are in the .cfg files.        *)
(***************************************************************************)
EXTENDS Blow, TLC

CONSTANTS f1, f2, f3, hid    \* f3 is in a second directory

NoArg == [at |-> FALSE, exists |-> FALSE, tail |-> "", nested |-> FALSE, text |-> FALSE]

Plain == [urls |-> 1, hosts |-> 0, https |-> FALSE, tlcp |-> FALSE, proxy |-> Unset, httpProxy |-> {},
          method |-> Unset, arg |-> NoArg, lines |-> 0, items |-> {}, parts |-> <<>>,
          cacheTag |-> FALSE, exit |-> FALSE, ant |-> FALSE, uploadIndex |-> FALSE,
          profiles |-> <<>>, letters |-> {}, sampled |-> TRUE, verbose |-> 0, n |-> 0,
          noKeepalive |-> FALSE, refusing |-> FALSE, vanishing |-> FALSE]

File(f)   == [word |-> "path", stat |-> "file", files |-> {f}]
Dir(fs)   == [word |-> "path", stat |-> "dir", files |-> fs]
Match(fs) == [word |-> "path", stat |-> "none", files |-> fs]
Rand(w)   == [word |-> w, stat |-> "none", files |-> {}]

Uploading(ps)       == [Plain EXCEPT !.parts = ps]
UploadingToEnd(ps)  == [Plain EXCEPT !.parts = ps, !.exit = TRUE]
Profile(i, s, u)    == [init |-> i, sets |-> s, uses |-> u, file |-> FALSE]

Login   == Profile(TRUE, {"token"}, {})
Fetch   == Profile(FALSE, {}, {"token"})
Status  == Profile(FALSE, {}, {})

RequestSetups ==
    { \* three hosts, for the plain requests after an init profile, and two URLs
      [Plain EXCEPT !.urls = 0, !.hosts = 3, !.profiles = <<Login>>, !.n = 3],
      [Plain EXCEPT !.urls = 2, !.items = {":=", "=="}, !.n = 4],
      \* bodies: a file line by line, a text, a file that is streamed
      [Plain EXCEPT !.arg = [NoArg EXCEPT !.at = TRUE, !.exists = TRUE, !.tail = "line"], !.lines = 2],
      [Plain EXCEPT !.arg = [NoArg EXCEPT !.text = TRUE], !.refusing = TRUE, !.n = 2],
      [Plain EXCEPT !.arg = [NoArg EXCEPT !.at = TRUE, !.exists = TRUE, !.tail = "stream", !.nested = TRUE],
                    !.vanishing = TRUE, !.n = 1],
      \* request items that make a multipart body, and ones that -m GET leaves out
      [Plain EXCEPT !.items = {"@", "="}, !.n = 2],
      [Plain EXCEPT !.items = {"="}, !.method = "GET", !.n = 1],
      [Plain EXCEPT !.items = {"==", ":"}, !.httpProxy = {"http"}, !.proxy = "off", !.n = 1],
      \* everything is printed, or a sample of it; details are logged
      [Plain EXCEPT !.letters = {"a", "c"}, !.n = 2],
      [Plain EXCEPT !.letters = {"R", "b"}, !.sampled = FALSE, !.verbose = 2, !.refusing = TRUE, !.n = 1],
      [Plain EXCEPT !.verbose = 2, !.refusing = TRUE, !.n = 2],
      \* -n 1
      [Plain EXCEPT !.n = 1, !.refusing = TRUE],
      [Plain EXCEPT !.profiles = <<Login, Fetch, Status>>, !.n = 1, !.refusing = TRUE],
      \* connections: a tunnel, TLCP, and no keep-alive
      [Plain EXCEPT !.https = TRUE, !.httpProxy = {"https"}, !.refusing = TRUE, !.n = 2],
      [Plain EXCEPT !.https = TRUE, !.tlcp = TRUE, !.httpProxy = {"http"}, !.refusing = TRUE,
                    !.noKeepalive = TRUE, !.n = 2] }

ProfileSetups ==
    { [Plain EXCEPT !.profiles = <<Status, Login, Fetch>>, !.verbose = 2, !.n = 2],
      [Plain EXCEPT !.profiles = <<Login, [Status EXCEPT !.file = TRUE]>>, !.n = 2, !.vanishing = TRUE],
      [Plain EXCEPT !.profiles = <<Login>>, !.n = 2] }

UploadSetups ==
    { [Uploading(<<Rand("rand.png"), Dir({f1, hid})>>) EXCEPT !.n = 2],
      [Uploading(<<Match({f1, f2}), File(f2)>>) EXCEPT !.cacheTag = TRUE, !.uploadIndex = TRUE],
      [Uploading(<<Rand("rand.art"), Rand("rand.png"), Rand("rand.json")>>)
          EXCEPT !.cacheTag = TRUE, !.uploadIndex = TRUE],
      UploadingToEnd(<<Match({f1, f2, hid})>>),
      UploadingToEnd(<<Match({f1, f2}), Match({f3})>>),
      [UploadingToEnd(<<File(f2), Match({f1, f2})>>) EXCEPT !.cacheTag = TRUE],
      [UploadingToEnd(<<Match({f1}), Dir({f3})>>) EXCEPT !.ant = TRUE],
      [UploadingToEnd(<<Dir({f1}), File(f3)>>) EXCEPT !.vanishing = TRUE, !.n = 2],
      [Uploading(<<Dir({f1, f2})>>) EXCEPT !.n = 2],
      \* nothing to upload
      Uploading(<<Dir({hid})>>),
      Uploading(<<Match({hid})>>) }

\* -P with a login and a profile that uses its token, nothing printed or logged
InitSetups == { [Plain EXCEPT !.profiles = <<Login, Fetch>>, !.n = 2] }

\* UPLOAD_EXIT with two patterns, and with a directory
ExitSetups == { UploadingToEnd(<<Match({f1, f2}), Match({f3})>>), UploadingToEnd(<<Dir({f1, f2})>>) }

AllSetups == RequestSetups \cup ProfileSetups \cup UploadSetups
=============================================================================

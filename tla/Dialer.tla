------------------------------- MODULE Dialer -------------------------------
(***************************************************************************)
(* The connections of the HTTP bench: the chain of dialers that            *)
(* buildRequestClient puts together (pkg/blow/proxy.go, tlcp.go and        *)
(* internal/dial.go).  The client that keeps idle connections and closes   *)
(* those of failed requests is fasthttp, which is not part of berf.        *)
(***************************************************************************)
EXTENDS BlowOptions

CONSTANTS Workers,  \* the workers of the bench
          Starter   \* the goroutine of StartBench, which makes the initial Run

ASSUME StarterAssumption == Starter \notin Workers
ASSUME WorkersAssumption == IsFiniteSet(Workers)

Callers == Workers \cup {Starter}

VARIABLES dialing,   \* per caller: where its connection is
          idle,      \* how many connections are kept for later requests
          opened,    \* how many connections are open
          leaked     \* history: those left open by a failed CONNECT

dialVars == <<dialing, idle, opened, leaked>>

DialInit ==
    /\ dialing = [w \in Callers |-> "none"]
    /\ idle = 0 /\ opened = 0 /\ leaked = 0

\* fasthttp takes an idle connection if there is one.
Acquire(w) ==
    /\ dialing[w] = "none"
    /\ IF idle > 0
       THEN idle' = idle - 1 /\ dialing' = [dialing EXCEPT ![w] = "ready"]
       ELSE dialing' = [dialing EXCEPT ![w] = "dial"] /\ UNCHANGED idle
    /\ UNCHANGED <<opened, leaked>>

Through(w, next) == dialing' = [dialing EXCEPT ![w] = next]

\* The end of the chain, which closes what it had opened.
Refuse(w) == Through(w, "refused") /\ opened' = opened - 1 /\ UNCHANGED <<idle, leaked>>

\* createTlcpDialer comes last; TLS is left to fasthttp.
Last == IF opt.usingTLCP THEN "handshake" ELSE "ready"

\* dialer.Dial of the server or of the proxy.  Only for https is a tunnel asked for.
Dial(w) ==
    /\ dialing[w] = "dial"
    /\ \/ opt.refusing /\ Through(w, "refused") /\ UNCHANGED opened
       \/ Through(w, IF opt.proxied /\ opt.isTLS THEN "connect" ELSE Last) /\ opened' = opened + 1
    /\ UNCHANGED <<idle, leaked>>

\* conn.Write of the CONNECT, whose failure leaves the connection open.
ConnectWrite(w) ==
    /\ dialing[w] = "connect"
    /\ \/ Through(w, "connected") /\ UNCHANGED leaked
       \/ opt.refusing /\ Through(w, "refused") /\ leaked' = leaked + 1
    /\ UNCHANGED <<idle, opened>>

\* No answer, or another status than 200.
ConnectRead(w) ==
    /\ dialing[w] = "connected"
    /\ \/ Through(w, Last) /\ UNCHANGED <<idle, opened, leaked>>
       \/ opt.refusing /\ Refuse(w)

\* Mutant: the raw connection stays open when the handshake fails.
HandshakeKeeps(w) ==
    /\ dialing[w] = "handshake"
    /\ Through(w, "ready") \/ (opt.refusing /\ Through(w, "refused"))
    /\ UNCHANGED <<idle, opened, leaked>>

\* dial of tlcp.go
Handshake(w) ==
    /\ dialing[w] = "handshake"
    /\ \/ Through(w, "ready") /\ UNCHANGED <<idle, opened, leaked>>
       \/ opt.refusing /\ Refuse(w)

Dialing(w) == Dial(w) \/ ConnectWrite(w) \/ ConnectRead(w) \/ Handshake(w)

\* The connection of a request that was answered is kept, others are closed.
Release(w, answered) ==
    /\ dialing' = [dialing EXCEPT ![w] = "none"]
    /\ IF answered /\ ~opt.noKeepalive
       THEN idle' = idle + 1 /\ UNCHANGED opened
       ELSE opened' = opened - 1 /\ UNCHANGED idle
    /\ UNCHANGED leaked

\* A refused request has no connection to give back.
Forget(w) == Through(w, "none") /\ UNCHANGED <<idle, opened, leaked>>

Connected == {w \in Callers : dialing[w] \in {"connect", "connected", "handshake", "ready"}}
=============================================================================

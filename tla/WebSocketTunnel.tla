--------------------------- MODULE WebSocketTunnel ---------------------------
(***************************************************************************)
(* ProxyHandler.ServeWebSocket (internal/gateway/proxy.go): dial the        *)
(* backend, replay the handshake, hijack the client's connection, and let   *)
(* two pumps copy until both are done.                                      *)
(*                                                                          *)
(* Bytes are chunks, counted.  The stream of a peer is known by the peer    *)
(* that sends it; its pump copies it to the other.  TCP is modelled by what *)
(* the code sees of it: reads that end or fail, a first write to a peer     *)
(* that is gone succeeding and the next one failing, writes that block on a *)
(* full window.                                                             *)
(***************************************************************************)
EXTENDS Naturals

CONSTANTS
  MaxChunks,   \* chunks each peer may send, a bound
  Window       \* chunks in flight to a peer that does not read

ASSUME TunnelAssumption == MaxChunks \in Nat /\ Window \in Nat \ {0}

Peers == {"client", "backend"}

Other(p) == CHOOSE q \in Peers : q # p

VARIABLES
  scheme,   \* how the backend is reached: "tcp", "tls", or "invalid", fixed
  pc,       \* where ServeWebSocket is
  answer,   \* the status http.Error has written, 0 for none
  ctx,      \* the request context: "live" or "canceled"
  peer,     \* "open", "fin" (write side closed), "closed", or "reset"
  sent,     \* chunks each peer has sent ...
  taken,    \* ... of those, read by the gateway ...
  lost,     \* ... (the client's, by net/http before the hijack) ...
  passed,   \* ... written to the other peer's connection ...
  got,      \* ... and received by the other peer
  pump,     \* the goroutine that copies the stream of each peer
  ended,    \* peers the gateway has sent a FIN
  closed    \* the gateway has closed its connections

peers == <<peer, sent, got>>
tunnel == <<pump, taken, passed, ended>>
vars == <<scheme, pc, answer, ctx, lost, closed, peers, tunnel>>

TypeOK ==
  /\ scheme \in {"tcp", "tls", "invalid"}
  /\ pc \in {"dial", "handshake", "hijack", "pump", "done"}
  /\ answer \in {0, 500, 502}
  /\ ctx \in {"live", "canceled"}
  /\ peer \in [Peers -> {"open", "fin", "closed", "reset"}]
  /\ pump \in [Peers -> {"off", "read", "write", "shut", "done"}]
  /\ lost \in 0..MaxChunks
  /\ ended \in SUBSET Peers
  /\ closed \in BOOLEAN
  /\ sent \in [Peers -> 0..MaxChunks] /\ taken \in [Peers -> 0..MaxChunks]
  /\ passed \in [Peers -> 0..MaxChunks] /\ got \in [Peers -> 0..MaxChunks]
  /\ \A p \in Peers :
       /\ taken[p] \in 0..sent[p]
       /\ passed[p] \in 0..taken[p]
       /\ got[p] \in 0..passed[p]

Init ==
  /\ scheme \in {"tcp", "tls", "invalid"}
  /\ pc = "dial"
  /\ answer = 0
  /\ ctx = "live"
  /\ peer = [p \in Peers |-> "open"]
  /\ sent = [p \in Peers |-> 0]
  /\ taken = [p \in Peers |-> 0]
  /\ lost = 0
  /\ passed = [p \in Peers |-> 0]
  /\ got = [p \in Peers |-> 0]
  /\ pump = [p \in Peers |-> "off"]
  /\ ended = {}
  /\ closed = FALSE

-----------------------------------------------------------------------------
(* The handler.                                                             *)

\* http.Error and return; a backend connection there is gets closed.
Fail(status) ==
  /\ answer' = status
  /\ pc' = "done"
  /\ closed' = TRUE
  /\ UNCHANGED <<scheme, ctx, lost, peers, tunnel>>

InvalidBackendURL == pc = "dial" /\ scheme = "invalid" /\ Fail(500)

Dial ==
  /\ pc = "dial" /\ scheme # "invalid"
  /\ pc' = "handshake"
  /\ UNCHANGED <<scheme, answer, ctx, lost, closed, peers, tunnel>>

DialFails == pc = "dial" /\ scheme # "invalid" /\ Fail(502)

WriteHandshake ==
  /\ pc = "handshake" /\ peer["backend"] # "reset"
  /\ pc' = "hijack"
  /\ UNCHANGED <<scheme, answer, ctx, lost, closed, peers, tunnel>>

HandshakeFails == pc = "handshake" /\ peer["backend"] = "reset" /\ Fail(502)

(***************************************************************************)
(* What net/http has read of the client's stream by then is in the          *)
(* bufio.ReadWriter that Hijack returns and the handler drops.              *)
(***************************************************************************)
Hijack ==
  /\ pc = "hijack"
  /\ lost' \in 0..sent["client"]
  /\ taken' = [taken EXCEPT !["client"] = lost']
  /\ pump' = [p \in Peers |-> "read"]
  /\ pc' = "pump"
  /\ UNCHANGED <<scheme, answer, ctx, closed, peers, passed, ended>>

HijackFails == pc = "hijack" /\ Fail(500)

\* Mutant: wait for one of the pumps.
HandlerReturnsAfterOne ==
  /\ pc = "pump"
  /\ \E p \in Peers : pump[p] = "done"
  /\ pc' = "done"
  /\ closed' = TRUE
  /\ UNCHANGED <<scheme, answer, ctx, lost, peers, tunnel>>

\* wg.Wait, then the deferred calls of Close.
HandlerReturns ==
  /\ pc = "pump"
  /\ \A p \in Peers : pump[p] = "done"
  /\ pc' = "done"
  /\ closed' = TRUE
  /\ UNCHANGED <<scheme, answer, ctx, lost, peers, tunnel>>

ServeWebSocket ==
  \/ InvalidBackendURL \/ Dial \/ DialFails
  \/ WriteHandshake \/ HandshakeFails
  \/ Hijack \/ HijackFails
  \/ HandlerReturns

-----------------------------------------------------------------------------
(* The pumps: copyUntilDone, then CloseWrite.                               *)

Pumping(p, from, to) == pump[p] = from /\ pump' = [pump EXCEPT ![p] = to]

Read(p) ==
  /\ Pumping(p, "read", "write")
  /\ ~closed
  /\ taken[p] < sent[p]
  /\ taken' = [taken EXCEPT ![p] = @ + 1]
  /\ UNCHANGED <<scheme, pc, answer, ctx, lost, closed, peers, passed, ended>>

ReadEnds(p) ==
  /\ Pumping(p, "read", "shut")
  /\ \/ closed
     \/ peer[p] = "reset"
     \/ peer[p] \in {"fin", "closed"} /\ taken[p] = sent[p]
  /\ UNCHANGED <<scheme, pc, answer, ctx, lost, closed, peers, taken, passed, ended>>

\* Mutant: after a write, write the same chunk again.
WriteTwice(p) ==
  /\ pump[p] = "write" /\ pump' \in {pump, [pump EXCEPT ![p] = "read"]}
  /\ ~closed
  /\ peer[Other(p)] \in {"open", "fin"} /\ passed[p] - got[p] < Window
  /\ passed' = [passed EXCEPT ![p] = @ + 1]
  /\ UNCHANGED <<scheme, pc, answer, ctx, lost, closed, peers, taken, ended>>

Write(p) ==
  /\ Pumping(p, "write", "read")
  /\ ~closed
  /\ peer[Other(p)] \in {"open", "fin"} /\ passed[p] - got[p] < Window
  /\ passed' = [passed EXCEPT ![p] = @ + 1]
  /\ UNCHANGED <<scheme, pc, answer, ctx, lost, closed, peers, taken, ended>>

\* The kernel takes the chunk; the peer's answers with a reset.
WriteToClosed(p) ==
  /\ Pumping(p, "write", "read")
  /\ ~closed
  /\ peer[Other(p)] = "closed"
  /\ peer' = [peer EXCEPT ![Other(p)] = "reset"]
  /\ passed' = [passed EXCEPT ![p] = @ + 1]
  /\ UNCHANGED <<scheme, pc, answer, ctx, lost, closed, sent, got, taken, ended>>

WriteFails(p) ==
  /\ Pumping(p, "write", "shut")
  /\ closed \/ peer[Other(p)] = "reset"
  /\ UNCHANGED <<scheme, pc, answer, ctx, lost, closed, peers, taken, passed, ended>>

\* The client's connection is a *net.TCPConn always, the backend's a
\* *tls.Conn where the scheme says so.
HalfCloses(p) == p = "client" \/ scheme = "tcp"

\* Mutant: no half-close of the backend's side.
ShutSilently(p) ==
  /\ Pumping(p, "shut", "done")
  /\ ended' = IF Other(p) = "client" /\ ~closed THEN ended \cup {"client"} ELSE ended
  /\ UNCHANGED <<scheme, pc, answer, ctx, lost, closed, peers, taken, passed>>

\* Mutant: wg.Done only where there is a half-close.
ShutTCPOnly(p) ==
  /\ HalfCloses(Other(p))
  /\ Pumping(p, "shut", "done")
  /\ ended' = IF ~closed THEN ended \cup {Other(p)} ELSE ended
  /\ UNCHANGED <<scheme, pc, answer, ctx, lost, closed, peers, taken, passed>>

Shut(p) ==
  /\ Pumping(p, "shut", "done")
  /\ ended' = IF HalfCloses(Other(p)) /\ ~closed THEN ended \cup {Other(p)} ELSE ended
  /\ UNCHANGED <<scheme, pc, answer, ctx, lost, closed, peers, taken, passed>>

\* The other branch of copyUntilDone's select.
Abort(p) ==
  /\ pump[p] \in {"read", "write"}
  /\ ctx = "canceled" /\ ~closed
  /\ closed' = TRUE
  /\ UNCHANGED <<scheme, pc, answer, ctx, lost, peers, tunnel>>

copyUntilDone(p) ==
  \/ Read(p) \/ ReadEnds(p)
  \/ Write(p) \/ WriteToClosed(p) \/ WriteFails(p)
  \/ Shut(p) \/ Abort(p)

-----------------------------------------------------------------------------
(* The peers, and net/http until the hijack.                                *)

\* The backend takes part once it has been dialled, and speaks when spoken to.
Connected(p) == pc # "done" /\ (p = "backend" => pc # "dial")

Send(p) ==
  /\ Connected(p) /\ (p = "backend" => pc # "handshake")
  /\ peer[p] = "open" /\ ~closed
  /\ sent[p] < MaxChunks
  /\ sent' = [sent EXCEPT ![p] = @ + 1]
  /\ UNCHANGED <<scheme, pc, answer, ctx, lost, closed, peer, got, tunnel>>

Receive(p) ==
  /\ Connected(p)
  /\ peer[p] \in {"open", "fin"}
  /\ got[Other(p)] < passed[Other(p)]
  /\ got' = [got EXCEPT ![Other(p)] = @ + 1]
  /\ UNCHANGED <<scheme, pc, answer, ctx, lost, closed, peer, sent, tunnel>>

HalfClose(p) ==
  /\ Connected(p)
  /\ peer[p] = "open"
  /\ peer' = [peer EXCEPT ![p] = "fin"]
  /\ UNCHANGED <<scheme, pc, answer, ctx, lost, closed, sent, got, tunnel>>

\* Closing with chunks unread is a reset.
Close(p) ==
  /\ Connected(p)
  /\ peer[p] \in {"open", "fin"}
  /\ peer' = [peer EXCEPT ![p] = IF got[Other(p)] < passed[Other(p)] THEN "reset" ELSE "closed"]
  /\ UNCHANGED <<scheme, pc, answer, ctx, lost, closed, sent, got, tunnel>>

Reset(p) ==
  /\ Connected(p)
  /\ peer[p] # "reset"
  /\ peer' = [peer EXCEPT ![p] = "reset"]
  /\ UNCHANGED <<scheme, pc, answer, ctx, lost, closed, sent, got, tunnel>>

\* A peer that has received the end of the other's stream closes its own.
CloseAtEnd(p) ==
  /\ p \in ended /\ got[Other(p)] = passed[Other(p)]
  /\ Close(p)

(***************************************************************************)
(* Until the hijack net/http reads the client's connection in the           *)
(* background, up to the first byte, and cancels the request context when   *)
(* that read fails.  Nothing cancels it afterwards: the server has no       *)
(* shutdown of its own.                                                     *)
(***************************************************************************)
ClientGone ==
  /\ pc \in {"dial", "handshake", "hijack"}
  /\ ctx = "live"
  /\ \/ peer["client"] = "reset"
     \/ peer["client"] \in {"fin", "closed"} /\ sent["client"] = 0
  /\ ctx' = "canceled"
  /\ UNCHANGED <<scheme, pc, answer, lost, closed, peers, tunnel>>

Environment ==
  \/ ClientGone
  \/ \E p \in Peers : Send(p) \/ Receive(p) \/ HalfClose(p) \/ Close(p) \/ Reset(p)

Done == pc = "done" /\ UNCHANGED vars

Next == ServeWebSocket \/ (\E p \in Peers : copyUntilDone(p)) \/ Environment \/ Done

(***************************************************************************)
(* Goroutines run on, but a TLS dial, which has no timeout, need not return.*)
(* Peers read on, and close when they have received the end of the stream:  *)
(* nothing else bounds the life of a tunnel.                                *)
(***************************************************************************)
Fairness ==
  /\ WF_vars(ServeWebSocket /\ (pc = "dial" => scheme # "tls"))
  /\ \A p \in Peers :
       WF_vars(copyUntilDone(p)) /\ WF_vars(Receive(p)) /\ WF_vars(CloseAtEnd(p))

Spec == Init /\ [][Next]_vars /\ Fairness

-----------------------------------------------------------------------------

Gone(p) == peer[p] \in {"closed", "reset"}

\* Of the stream of p, the chunks that net/http had read before the hijack.
Lost(p) == IF p = "client" THEN lost ELSE 0

(***************************************************************************)
(* A peer is told that the other's stream is over, by a half-close or       *)
(* because the tunnel is closed, only when the other has closed its side    *)
(* and everything it sent has been written, except what net/http had read   *)
(* before the hijack.  A connection that broke, or a context canceled       *)
(* before the hijack, excuses a cut (wg.Wait, CloseWrite, copyUntilDone).   *)
(***************************************************************************)
EndOnlyAfterAll ==
  \A p \in Peers :
    LET q == Other(p) IN
    /\ q \in ended \/ (pc = "done" /\ answer = 0)
    /\ peer[p] # "reset" /\ ~Gone(q) /\ ctx = "live"
    => /\ peer[p] \in {"fin", "closed"}
       /\ passed[p] + Lost(p) = sent[p]

(***************************************************************************)
(* Over TCP, once either peer has closed its connection or only its write   *)
(* side, before or after the hijack, ServeWebSocket returns, given peers    *)
(* that read on and close at the end of the stream: each half-close reaches *)
(* the other peer, and no pump is left behind blocked.  Over TLS this would *)
(* not hold, whatever "until either side closes" (ServeWebSocket) says: a   *)
(* *tls.Conn is not half-closed, so its peer need not hear of the end.      *)
(***************************************************************************)
EndsWithEitherSide ==
  (scheme # "tls" /\ \E p \in Peers : peer[p] # "open") ~> pc = "done"

(***************************************************************************)
(* Whatever the transport, a tunnel whose peers are both gone ends: two     *)
(* goroutines and two connections are not kept for ever.                    *)
(***************************************************************************)
EndsWhenBothGone ==
  (pc = "pump" /\ \A p \in Peers : Gone(p)) ~> pc = "done"

=============================================================================

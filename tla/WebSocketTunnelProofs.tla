------------------------ MODULE WebSocketTunnelProofs ------------------------
(***************************************************************************)
(* Proofs about WebSocketTunnel, for any number of chunks and any window.   *)
(***************************************************************************)
EXTENDS WebSocketTunnel, TLAPS

\* Either end of a stream is gone, or the request is: what excuses a cut.
Excused(p) == peer[p] = "reset" \/ Gone(Other(p)) \/ ctx = "canceled"

\* The stream of p is over and has been copied.
Copied(p) ==
  /\ peer[p] \in {"fin", "closed"}
  /\ taken[p] = sent[p]
  /\ passed[p] + Lost(p) = taken[p]

\* The pumps run between the hijack and the return, which waits for both.
HandlerInv ==
  /\ pc \in {"dial", "handshake", "hijack"} =>
       /\ lost = 0
       /\ \A p \in Peers : pump[p] = "off" /\ taken[p] = 0 /\ passed[p] = 0
  /\ pc # "done" => answer = 0
  /\ pc = "pump" => \A p \in Peers : pump[p] # "off"
  /\ pc = "done" => \A p \in Peers : pump[p] = IF answer = 0 THEN "done" ELSE "off"
  /\ closed => pc = "done" \/ ctx = "canceled"

\* What a pump holds at each of its points.
PumpInv ==
  \A p \in Peers :
    /\ pump[p] = "off" => taken[p] = 0 /\ passed[p] = 0
    /\ pump[p] = "read" => passed[p] + Lost(p) = taken[p]
    /\ pump[p] = "write" => passed[p] + Lost(p) + 1 = taken[p]
    /\ pump[p] \in {"shut", "done"} => Excused(p) \/ Copied(p)
    /\ Other(p) \in ended => pump[p] = "done"

Inv == TypeOK /\ HandlerInv /\ PumpInv

\* There are two peers, each the other of the other.
LEMMA Others ==
  \A p \in Peers : Other(p) \in Peers \ {p} /\ Other(Other(p)) = p
                   /\ Peers = {p, Other(p)}
BY DEF Peers, Other

-----------------------------------------------------------------------------
(* Each part of the invariant is kept by every step.                        *)

\* No count overtakes the one before it: what a pump writes it has read
\* (Read, Write), what it reads has been sent.
LEMMA TypeStep ==
  ASSUME TypeOK, HandlerInv, PumpInv, [Next]_vars
  PROVE  TypeOK'
PROOF
  <1> USE TunnelAssumption, Others DEF TypeOK, HandlerInv, PumpInv, Lost
  <1>1. CASE InvalidBackendURL
    BY <1>1 DEF InvalidBackendURL, Fail, peers, tunnel
  <1>2. CASE Dial
    BY <1>2 DEF Dial, peers, tunnel
  <1>3. CASE DialFails
    BY <1>3 DEF DialFails, Fail, peers, tunnel
  <1>4. CASE WriteHandshake
    BY <1>4 DEF WriteHandshake, peers, tunnel
  <1>5. CASE HandshakeFails
    BY <1>5 DEF HandshakeFails, Fail, peers, tunnel
  <1>6. CASE Hijack
    BY <1>6 DEF Hijack, peers, tunnel, Peers
  <1>7. CASE HijackFails
    BY <1>7 DEF HijackFails, Fail, peers, tunnel
  <1>8. CASE HandlerReturns
    BY <1>8 DEF HandlerReturns, peers, tunnel
  <1>9. ASSUME NEW p \in Peers, Read(p)  PROVE  TypeOK'
    BY <1>9 DEF Read, Pumping, peers, tunnel
  <1>10. ASSUME NEW p \in Peers, ReadEnds(p)  PROVE  TypeOK'
    BY <1>10 DEF ReadEnds, Pumping, peers, tunnel
  <1>11. ASSUME NEW p \in Peers, Write(p)  PROVE  TypeOK'
    BY <1>11 DEF Write, Pumping, peers, tunnel
  <1>12. ASSUME NEW p \in Peers, WriteToClosed(p)  PROVE  TypeOK'
    BY <1>12 DEF WriteToClosed, Pumping, peers, tunnel
  <1>13. ASSUME NEW p \in Peers, WriteFails(p)  PROVE  TypeOK'
    BY <1>13 DEF WriteFails, Pumping, peers, tunnel
  <1>14. ASSUME NEW p \in Peers, Shut(p)  PROVE  TypeOK'
    BY <1>14 DEF Shut, Pumping, peers, tunnel
  <1>15. ASSUME NEW p \in Peers, Abort(p)  PROVE  TypeOK'
    BY <1>15 DEF Abort, peers, tunnel
  <1>16. CASE ClientGone
    BY <1>16 DEF ClientGone, peers, tunnel
  <1>17. ASSUME NEW p \in Peers, Send(p)  PROVE  TypeOK'
    BY <1>17 DEF Send, Connected, peers, tunnel
  <1>18. ASSUME NEW p \in Peers, Receive(p)  PROVE  TypeOK'
    BY <1>18 DEF Receive, Connected, peers, tunnel
  <1>19. ASSUME NEW p \in Peers, HalfClose(p)  PROVE  TypeOK'
    BY <1>19 DEF HalfClose, Connected, peers, tunnel
  <1>20. ASSUME NEW p \in Peers, Close(p)  PROVE  TypeOK'
    BY <1>20 DEF Close, Connected, peers, tunnel
  <1>21. ASSUME NEW p \in Peers, Reset(p)  PROVE  TypeOK'
    BY <1>21 DEF Reset, Connected, peers, tunnel
  <1>22. CASE UNCHANGED vars
    BY <1>22 DEF vars, peers, tunnel
  <1> QED
    BY <1>1, <1>2, <1>3, <1>4, <1>5, <1>6, <1>7, <1>8, <1>9, <1>10, <1>11,
       <1>12, <1>13, <1>14, <1>15, <1>16, <1>17, <1>18, <1>19, <1>20,
       <1>21, <1>22
       DEF Next, ServeWebSocket, copyUntilDone, Environment, Done

\* ServeWebSocket starts both pumps at the hijack and waits for both.
LEMMA HandlerStep ==
  ASSUME TypeOK, HandlerInv, PumpInv, [Next]_vars
  PROVE  HandlerInv'
PROOF
  <1> USE TunnelAssumption, Others DEF TypeOK, HandlerInv
  <1>1. CASE InvalidBackendURL
    BY <1>1 DEF InvalidBackendURL, Fail, peers, tunnel
  <1>2. CASE Dial
    BY <1>2 DEF Dial, peers, tunnel
  <1>3. CASE DialFails
    BY <1>3 DEF DialFails, Fail, peers, tunnel
  <1>4. CASE WriteHandshake
    BY <1>4 DEF WriteHandshake, peers, tunnel
  <1>5. CASE HandshakeFails
    BY <1>5 DEF HandshakeFails, Fail, peers, tunnel
  <1>6. CASE Hijack
    BY <1>6 DEF Hijack, peers, tunnel
  <1>7. CASE HijackFails
    BY <1>7 DEF HijackFails, Fail, peers, tunnel
  <1>8. CASE HandlerReturns
    BY <1>8 DEF HandlerReturns, peers, tunnel
  <1>9. ASSUME NEW p \in Peers, Read(p)  PROVE  HandlerInv'
    BY <1>9 DEF Read, Pumping, peers, tunnel
  <1>10. ASSUME NEW p \in Peers, ReadEnds(p)  PROVE  HandlerInv'
    BY <1>10 DEF ReadEnds, Pumping, peers, tunnel
  <1>11. ASSUME NEW p \in Peers, Write(p)  PROVE  HandlerInv'
    BY <1>11 DEF Write, Pumping, peers, tunnel
  <1>12. ASSUME NEW p \in Peers, WriteToClosed(p)  PROVE  HandlerInv'
    BY <1>12 DEF WriteToClosed, Pumping, peers, tunnel
  <1>13. ASSUME NEW p \in Peers, WriteFails(p)  PROVE  HandlerInv'
    BY <1>13 DEF WriteFails, Pumping, peers, tunnel
  <1>14. ASSUME NEW p \in Peers, Shut(p)  PROVE  HandlerInv'
    BY <1>14 DEF Shut, Pumping, peers, tunnel
  <1>15. ASSUME NEW p \in Peers, Abort(p)  PROVE  HandlerInv'
    BY <1>15 DEF Abort, peers, tunnel
  <1>16. CASE ClientGone
    BY <1>16 DEF ClientGone, peers, tunnel
  <1>17. ASSUME NEW p \in Peers, Send(p)  PROVE  HandlerInv'
    BY <1>17 DEF Send, Connected, peers, tunnel
  <1>18. ASSUME NEW p \in Peers, Receive(p)  PROVE  HandlerInv'
    BY <1>18 DEF Receive, Connected, peers, tunnel
  <1>19. ASSUME NEW p \in Peers, HalfClose(p)  PROVE  HandlerInv'
    BY <1>19 DEF HalfClose, Connected, peers, tunnel
  <1>20. ASSUME NEW p \in Peers, Close(p)  PROVE  HandlerInv'
    BY <1>20 DEF Close, Connected, peers, tunnel
  <1>21. ASSUME NEW p \in Peers, Reset(p)  PROVE  HandlerInv'
    BY <1>21 DEF Reset, Connected, peers, tunnel
  <1>22. CASE UNCHANGED vars
    BY <1>22 DEF vars, peers, tunnel
  <1> QED
    BY <1>1, <1>2, <1>3, <1>4, <1>5, <1>6, <1>7, <1>8, <1>9, <1>10, <1>11,
       <1>12, <1>13, <1>14, <1>15, <1>16, <1>17, <1>18, <1>19, <1>20,
       <1>21, <1>22
       DEF Next, ServeWebSocket, copyUntilDone, Environment, Done

\* The step of one pump, or of a peer, leaves what the other pump holds.
LEMMA PumpStep ==
  ASSUME TypeOK, HandlerInv, PumpInv, [Next]_vars
  PROVE  PumpInv'
PROOF
  <1> USE TunnelAssumption, Others DEF TypeOK, HandlerInv, PumpInv, Lost, Excused, Gone, Copied
  <1>1. CASE InvalidBackendURL
    BY <1>1 DEF InvalidBackendURL, Fail, peers, tunnel
  <1>2. CASE Dial
    BY <1>2 DEF Dial, peers, tunnel
  <1>3. CASE DialFails
    BY <1>3 DEF DialFails, Fail, peers, tunnel
  <1>4. CASE WriteHandshake
    BY <1>4 DEF WriteHandshake, peers, tunnel
  <1>5. CASE HandshakeFails
    BY <1>5 DEF HandshakeFails, Fail, peers, tunnel
  <1>6. CASE Hijack
    BY <1>6 DEF Hijack, peers, tunnel
  <1>7. CASE HijackFails
    BY <1>7 DEF HijackFails, Fail, peers, tunnel
  <1>8. CASE HandlerReturns
    BY <1>8 DEF HandlerReturns, peers, tunnel
  <1>9. ASSUME NEW p \in Peers, Read(p)  PROVE  PumpInv'
    BY <1>9 DEF Read, Pumping, peers, tunnel
  <1>10. ASSUME NEW p \in Peers, ReadEnds(p)  PROVE  PumpInv'
    BY <1>10 DEF ReadEnds, Pumping, peers, tunnel
  <1>11. ASSUME NEW p \in Peers, Write(p)  PROVE  PumpInv'
    BY <1>11 DEF Write, Pumping, peers, tunnel
  <1>12. ASSUME NEW p \in Peers, WriteToClosed(p)  PROVE  PumpInv'
    BY <1>12 DEF WriteToClosed, Pumping, peers, tunnel
  <1>13. ASSUME NEW p \in Peers, WriteFails(p)  PROVE  PumpInv'
    BY <1>13 DEF WriteFails, Pumping, peers, tunnel
  <1>14. ASSUME NEW p \in Peers, Shut(p)  PROVE  PumpInv'
    BY <1>14 DEF Shut, Pumping, peers, tunnel
  <1>15. ASSUME NEW p \in Peers, Abort(p)  PROVE  PumpInv'
    BY <1>15 DEF Abort, peers, tunnel
  <1>16. CASE ClientGone
    BY <1>16 DEF ClientGone, peers, tunnel
  <1>17. ASSUME NEW p \in Peers, Send(p)  PROVE  PumpInv'
    BY <1>17 DEF Send, Connected, peers, tunnel
  <1>18. ASSUME NEW p \in Peers, Receive(p)  PROVE  PumpInv'
    BY <1>18 DEF Receive, Connected, peers, tunnel
  <1>19. ASSUME NEW p \in Peers, HalfClose(p)  PROVE  PumpInv'
    BY <1>19 DEF HalfClose, Connected, peers, tunnel
  <1>20. ASSUME NEW p \in Peers, Close(p)  PROVE  PumpInv'
    BY <1>20 DEF Close, Connected, peers, tunnel
  <1>21. ASSUME NEW p \in Peers, Reset(p)  PROVE  PumpInv'
    BY <1>21 DEF Reset, Connected, peers, tunnel
  <1>22. CASE UNCHANGED vars
    BY <1>22 DEF vars, peers, tunnel
  <1> QED
    BY <1>1, <1>2, <1>3, <1>4, <1>5, <1>6, <1>7, <1>8, <1>9, <1>10, <1>11,
       <1>12, <1>13, <1>14, <1>15, <1>16, <1>17, <1>18, <1>19, <1>20,
       <1>21, <1>22
       DEF Next, ServeWebSocket, copyUntilDone, Environment, Done

-----------------------------------------------------------------------------

\* The invariant holds of ServeWebSocket, its pumps and the peers together.
THEOREM Invariance == Spec => []Inv
PROOF
  <1>1. Init => Inv
    <2> SUFFICES ASSUME Init  PROVE  Inv
      OBVIOUS
    <2>1. TypeOK
      <3>1. \A f : f = [p \in Peers |-> 0] => f \in [Peers -> 0..MaxChunks]
        BY TunnelAssumption
      <3>2. peer \in [Peers -> {"open", "fin", "closed", "reset"}]
            /\ pump \in [Peers -> {"off", "read", "write", "shut", "done"}]
        BY DEF Init
      <3>3. \A p \in Peers : /\ taken[p] \in 0..sent[p]
                             /\ passed[p] \in 0..taken[p]
                             /\ got[p] \in 0..passed[p]
        BY DEF Init
      <3>4. sent \in [Peers -> 0..MaxChunks] /\ taken \in [Peers -> 0..MaxChunks]
            /\ passed \in [Peers -> 0..MaxChunks] /\ got \in [Peers -> 0..MaxChunks]
        BY <3>1 DEF Init
      <3>5. lost \in 0..MaxChunks
        BY TunnelAssumption DEF Init
      <3> QED
        BY <3>2, <3>3, <3>4, <3>5 DEF Init, TypeOK
    <2>2. HandlerInv
      BY DEF Init, HandlerInv
    <2>3. PumpInv
      BY Others DEF Init, PumpInv
    <2> QED
      BY <2>1, <2>2, <2>3 DEF Inv
  <1>2. Inv /\ [Next]_vars => Inv'
    BY TypeStep, HandlerStep, PumpStep DEF Inv
  <1> QED
    BY <1>1, <1>2, PTL DEF Spec

\* At every moment each peer has received at most what was written to it, of
\* what was read, of what the other peer has sent (copyUntilDone).
THEOREM TypeCorrect == Spec => []TypeOK
BY Invariance, PTL DEF Inv

(***************************************************************************)
(* Nobody is told of the end of a stream that has not been copied to the    *)
(* end, whatever the peers send, close and reset, and whenever: by the      *)
(* invariant the pump of that stream is done, so it copied all or there is  *)
(* an excuse (wg.Wait, CloseWrite, copyUntilDone).                          *)
(***************************************************************************)
THEOREM EndsAfterAll == Spec => []EndOnlyAfterAll
PROOF
  <1>1. Inv => EndOnlyAfterAll
    <2> SUFFICES ASSUME Inv, NEW p \in Peers,
                        Other(p) \in ended \/ (pc = "done" /\ answer = 0),
                        ~Excused(p), ctx = "live"
                 PROVE  Copied(p)
      BY DEF EndOnlyAfterAll, Excused, Copied
    <2>1. pump[p] = "done"
      BY DEF Inv, HandlerInv, PumpInv
    <2> QED
      BY <2>1 DEF Inv, PumpInv
  <1> QED
    BY <1>1, Invariance, PTL

=============================================================================

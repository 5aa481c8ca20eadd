--------------------------- MODULE IpcClientProofs ---------------------------
(***************************************************************************)
(* Proofs about IpcClient, for any number of sessions and messages: its    *)
(* types, and, as long as no send fails inside a receive callback of its   *)
(* own session, the life of a session and the deferred close.              *)
(***************************************************************************)
EXTENDS IpcClient, TLAPS

(* The handler works on some session; no more is waiting than was sent *)
TypeInv ==
    /\ TypeOK
    /\ loop = Idle \/ (loop.at # "idle" /\ loop.sess \in Sessions)
    /\ \A s \in Sessions : inbox[s] <= sent[s]

(* The session the handler works on is not freed *)
LoopInv == loop.at # "idle" => mem[loop.sess] = "live"

(* Socket and event live as long as the session, which is told once *)
LifeInv ==
    \A s \in Sessions :
        /\ mem[s] = "live" <=> fd[s] = "open"
        /\ mem[s] = "live" <=> evt[s]
        /\ mem[s] = "freed" <=> fd[s] = "closed"
        /\ closes[s] = IF mem[s] = "freed" THEN 1 ELSE 0

(* FLAGS_IN_RECEIVE is set while the handler has a buffer in hand; a close *)
(* was made, or it is marked and the handler will see the mark.            *)
FlagInv ==
    \A s \in Sessions :
        /\ inReceive[s] <=> loop.sess = s /\ loop.at \in {"handle", "receive_cb"}
        /\ marked[s] => mem[s] = "freed" \/ inReceive[s]
        /\ s \in asked => mem[s] = "freed" \/ (mem[s] = "live" /\ marked[s])

ClientInv == TypeInv /\ LoopInv /\ LifeInv /\ FlagInv /\ NoUseAfterFree

-----------------------------------------------------------------------------
LEMMA TypeInvInit == Init => TypeInv
BY ClientConstants DEF Init, TypeInv, TypeOK, Idle

LEMMA TypeInvNext == TypeInv /\ [Next]_vars => TypeInv'
<1> SUFFICES ASSUME TypeInv, [Next]_vars PROVE TypeInv'
  OBVIOUS
<1> USE ClientConstants DEF TypeInv, TypeOK, Idle, Set, flags, sock, seen
<1>1. ASSUME NEW s \in Sessions, PeerSends(s) PROVE TypeInv'
  BY <1>1 DEF PeerSends
<1>2. ASSUME NEW s \in Sessions, PeerCloses(s) PROVE TypeInv'
  BY <1>2 DEF PeerCloses
<1>3. ASSUME NEW s \in Sessions, Open(s) PROVE TypeInv'
  BY <1>3 DEF Open
<1>4. ASSUME NEW s \in Sessions, OpenFails(s) PROVE TypeInv'
  BY <1>4 DEF OpenFails
<1>5. ASSUME NEW s \in Sessions, OnRecv(s) PROVE TypeInv'
  BY <1>5 DEF OnRecv, At
<1>6. ASSUME NEW s \in Sessions, Close(s) PROVE TypeInv'
  <2>1. CASE inReceive[s]
    <3>1. /\ asked' = asked \cup {s} /\ marked' = Set(marked, s, TRUE)
          /\ UNCHANGED <<mem, fd, evt, inReceive, loop, sent, inbox, gone, edge, closes, misuse>>
      BY <1>6, <2>1, Zenon DEF Close
    <3> QED BY <3>1
  <2>2. CASE ~inReceive[s]
    <3>1. /\ asked' = asked \cup {s} /\ CloseAndFree(s)
          /\ UNCHANGED <<marked, inReceive, loop, sock>>
      BY <1>6, <2>2, Zenon DEF Close
    <3> QED BY <3>1 DEF CloseAndFree, Use
  <2> QED BY <2>1, <2>2
<1>7. ASSUME NEW s \in Sessions, SendFails(s) PROVE TypeInv'
  BY <1>7 DEF SendFails, CloseAndFree, Use
<1>8. CASE RecvMessages
  BY <1>8 DEF RecvMessages, At, Use
<1>9. CASE RecvNothing
  BY <1>9 DEF RecvNothing
<1>10. CASE RecvEnds
  BY <1>10 DEF RecvEnds, CloseAndFree, Use
<1>11. CASE HandleMessage
  BY <1>11 DEF HandleMessage, At, Use
<1>12. CASE CallbackReturns
  BY <1>12 DEF CallbackReturns, At
<1>13. CASE HandleDone
  <2>1. CASE marked[loop.sess]
    <3>1. /\ loop.at = "handle" /\ inReceive' = Set(inReceive, loop.sess, FALSE)
          /\ CloseAndFree(loop.sess) /\ loop' = Idle
          /\ UNCHANGED <<marked, sock, asked>>
      BY <1>13, <2>1, Zenon DEF HandleDone
    <3> QED BY <3>1 DEF CloseAndFree, Use
  <2>2. CASE ~marked[loop.sess]
    BY <1>13, <2>2 DEF HandleDone, Use, At
  <2> QED BY <2>1, <2>2
<1>14. CASE UNCHANGED vars
  BY <1>14 DEF vars
<1> QED BY <1>1, <1>2, <1>3, <1>4, <1>5, <1>6, <1>7, <1>8, <1>9, <1>10, <1>11, <1>12, <1>13, <1>14
        DEF Next, LoopStep, Ended

(* The variables keep their types, whatever the sends and callbacks do: no *)
(* buffer holds more messages than the peer has sent.                      *)
THEOREM TypeCorrect == Spec => []TypeOK
<1>1. TypeInv => TypeOK
  BY DEF TypeInv
<1> QED BY <1>1, TypeInvInit, TypeInvNext, PTL DEF Spec

-----------------------------------------------------------------------------
LEMMA ClientInvInit == Init => ClientInv
BY ClientConstants, TypeInvInit
   DEF Init, ClientInv, LoopInv, LifeInv, FlagInv, NoUseAfterFree, Idle

(* A session other than the one the handler works on, or the one it is     *)
(* done with, is freed.                                                    *)
LEMMA ClientInvNext ==
    ASSUME ~SendFailsInside
    PROVE  ClientInv /\ [Next]_vars => ClientInv'
<1> SUFFICES ASSUME ClientInv, [Next]_vars PROVE ClientInv'
  OBVIOUS
<1> DEFINE Rest == LoopInv /\ LifeInv /\ FlagInv /\ NoUseAfterFree
<1>0. TypeInv /\ TypeInv'
  BY TypeInvNext DEF ClientInv
<1>a. Rest
  BY DEF ClientInv
<1> SUFFICES Rest'
  BY <1>0 DEF ClientInv
<1> USE <1>0, <1>a, ClientConstants
    DEF TypeInv, TypeOK, LoopInv, LifeInv, FlagInv, NoUseAfterFree, Idle, Set, flags, sock, seen
<1>1. ASSUME NEW s \in Sessions, PeerSends(s) PROVE Rest'
  BY <1>1 DEF PeerSends
<1>2. ASSUME NEW s \in Sessions, PeerCloses(s) PROVE Rest'
  BY <1>2 DEF PeerCloses
<1>3. ASSUME NEW s \in Sessions, Open(s) PROVE Rest'
  BY <1>3 DEF Open
<1>4. ASSUME NEW s \in Sessions, OpenFails(s) PROVE Rest'
  BY <1>4 DEF OpenFails
<1>5. ASSUME NEW s \in Sessions, OnRecv(s) PROVE Rest'
  BY <1>5 DEF OnRecv, At
<1>6. ASSUME NEW s \in Sessions, Close(s) PROVE Rest'
  <2>1. CASE inReceive[s]
    BY <1>6, <2>1 DEF Close
  <2>2. CASE ~inReceive[s]
    BY <1>6, <2>2 DEF Close, CloseAndFree, Use, AppRuns
  <2> QED BY <2>1, <2>2
<1>7. ASSUME NEW s \in Sessions, SendFails(s) PROVE Rest'
  BY <1>7 DEF SendFails, CloseAndFree, Use, AppRuns
<1>8. CASE RecvMessages
  BY <1>8 DEF RecvMessages, At, Use
<1>9. CASE RecvNothing
  BY <1>9 DEF RecvNothing
<1>10. CASE RecvEnds
  BY <1>10 DEF RecvEnds, CloseAndFree, Use
<1>11. CASE HandleMessage
  BY <1>11 DEF HandleMessage, At, Use
<1>12. CASE CallbackReturns
  BY <1>12 DEF CallbackReturns, At
<1>13. CASE HandleDone
  <2>1. CASE marked[loop.sess]
    BY <1>13, <2>1 DEF HandleDone, CloseAndFree, Use
  <2>2. CASE ~marked[loop.sess]
    BY <1>13, <2>2 DEF HandleDone, Use, At
  <2> QED BY <2>1, <2>2
<1>14. CASE UNCHANGED vars
  BY <1>14 DEF vars
<1> QED BY <1>1, <1>2, <1>3, <1>4, <1>5, <1>6, <1>7, <1>8, <1>9, <1>10, <1>11, <1>12, <1>13, <1>14
        DEF Next, LoopStep, Ended

LEMMA ClientInvariance ==
    ASSUME ~SendFailsInside
    PROVE  Spec => []ClientInv
BY ClientInvInit, ClientInvNext, PTL DEF Spec

(* The close callback of a session is called exactly once, when it is      *)
(* freed.                                                                  *)
THEOREM ClosedSessionToldOnce ==
    ASSUME ~SendFailsInside
    PROVE  Spec => []CloseToldOnce
<1>1. ClientInv => CloseToldOnce
  BY DEF ClientInv, LifeInv, CloseToldOnce
<1> QED BY <1>1, ClientInvariance, PTL

(* af_ipcc_client_on_recv and close_and_free_server meet no freed session  *)
THEOREM FreedSessionUnused ==
    ASSUME ~SendFailsInside
    PROVE  Spec => []NoUseAfterFree
<1>1. ClientInv => NoUseAfterFree
  BY DEF ClientInv
<1> QED BY <1>1, ClientInvariance, PTL

(* A close that was put off is always ahead of the handler that makes it *)
THEOREM MarkIsSeen ==
    ASSUME ~SendFailsInside
    PROVE  Spec => []MarkedIsAttended
<1>1. ClientInv => MarkedIsAttended
  BY DEF ClientInv, FlagInv, MarkedIsAttended
<1> QED BY <1>1, ClientInvariance, PTL

(* After af_ipcc_close nothing is read from the session's socket *)
THEOREM ClosedSessionUnread ==
    ASSUME ~SendFailsInside
    PROVE  Spec => NothingReadAfterClose
<1> DEFINE Unread == \A s \in Sessions : inbox'[s] < inbox[s] => s \notin asked
<1>1. ClientInv /\ [Next]_vars => [Unread]_vars
  <2> SUFFICES ASSUME ClientInv, Next, NEW s \in Sessions, inbox'[s] < inbox[s]
               PROVE  s \notin asked
    BY DEF Unread
  <2> USE DEF ClientInv, TypeInv, TypeOK, Set, sock
  <2>1. CASE RecvMessages
    <3>1. s = loop.sess
      BY <2>1 DEF RecvMessages
    <3> QED BY <2>1, <3>1 DEF RecvMessages, LoopInv, LifeInv, FlagInv
  <2>2. CASE \E x \in Sessions : PeerSends(x)
    BY <2>2 DEF PeerSends
  <2>3. CASE UNCHANGED inbox
    BY <2>3
  <2> QED BY <2>1, <2>2, <2>3
       DEF Next, LoopStep, Ended, PeerCloses, Open, OpenFails, OnRecv, Close, SendFails,
           RecvNothing, RecvEnds, HandleMessage, CallbackReturns, HandleDone, vars
<1> QED BY <1>1, ClientInvariance, PTL DEF Spec, NothingReadAfterClose

=============================================================================

--------------------------- MODULE IpcServerProofs ---------------------------
(***************************************************************************)
(* Proofs about IpcServer, for any number of connections, threads and      *)
(* messages: its types and, as long as a client is closed neither by       *)
(* another thread nor inside its own callbacks, that a client on the list  *)
(* can be used, that nobody uses a freed client, and that answers go home. *)
(***************************************************************************)
EXTENDS IpcServer, NatLemmas, FunctionTheorems

(* The handlers and the closers work on some client; no more is waiting    *)
(* than was sent.                                                          *)
TypeInv ==
    /\ TypeOK
    /\ loop = Idle \/ (loop.at # "idle" /\ loop.conn \in Conns)
    /\ \A a \in Actors : closing[a].at # "no" => closing[a].conn \in Conns
    /\ \A c \in Conns : inbox[c] <= sent[c]

(* What has been accepted and not closed: close_client closes the socket   *)
(* of a client that it has taken off the list.                             *)
Accepted(c) == fd[c] \in {"open", "closed"}
ListInv ==
    /\ \A c \in clients : fd[c] = "open" /\ (open => mem[c] = "live")
    /\ \A c \in clients : cid[c] \in 1..MaxCid
    /\ \A c, d \in clients : cid[c] = cid[d] => c = d
    /\ \A c \in Conns : evt[c] # "null" => Accepted(c)
    /\ loop.at # "idle" => Accepted(loop.conn)
    /\ \A a \in Actors : closing[a].at # "no" => Accepted(closing[a].conn)
    /\ \A a \in Actors : closing[a].at \in {"free", "notify"} => closing[a].conn \notin clients

BaseInv == TypeInv /\ ListInv

(* Only the event loop closes clients, and not the one it works on *)
CloserInv ==
    LET k == closing[Loop] IN
    /\ \A a \in Threads : closing[a].at = "no"
    /\ loop.at # "idle" => loop.conn \in clients
    /\ k.at # "no" => loop.conn # k.conn
    /\ k.at \in {"begin", "unlink"} => k.conn \in clients
    /\ k.at = "free" /\ open => mem[k.conn] = "live"
    /\ k.at \in {"unlink", "free", "notify"} => evt[k.conn] = "null"
    /\ \A c \in Conns : evt[c] # "null" => c \in clients

(* A client is told of until it is closed, and its end is told once *)
ToldInv ==
    LET k == closing[Loop] IN
    /\ \A c \in Conns : fd[c] \in {"none", "queued"} => closes[c] = 0
    /\ \A c \in clients : closes[c] = 0
    /\ \A c \in clients : accepts[c] > 0 \/ (k.at # "no" /\ k.conn = c /\ ~k.tell)
    /\ k.at # "no" => closes[k.conn] = 0 /\ (k.tell => accepts[k.conn] > 0)

ServerInv == BaseInv /\ CloserInv /\ ToldInv /\ NoUseAfterFree /\ ClosedOnce

(* No client has the id of a request that another client has sent *)
HeldInv == \A d \in held, c \in clients : cid[c] = cid[d] => c = d

AnswerInv == ServerInv /\ HeldInv /\ AnswersGoHome

-----------------------------------------------------------------------------
(* get_next_cid finds an id, when there is one to find *)
LEMMA NextCidIsFree ==
    ASSUME NEW last \in 0..MaxCid, NEW used, (1..MaxCid) \ used # {}
    PROVE  NextCid(last, used) \in (1..MaxCid) \ used
<1> USE ServerConstants
<1> DEFINE free == (1..MaxCid) \ used
           dist(k) == IF k > last THEN k - last ELSE k + MaxCid - last
           T == {dist(k) : k \in free}
<1>1. T \in SUBSET Nat /\ T # {}
  OBVIOUS
<1>2. PICK x \in T : \A y \in T : x <= y
  BY <1>1, NatSetMin
<1>3. PICK k \in free : x = dist(k)
  OBVIOUS
<1>4. \A j \in free : dist(k) <= dist(j)
  BY <1>2, <1>3
<1>5. \E i \in free : \A j \in free : dist(i) <= dist(j)
  BY <1>4
<1> HIDE DEF free, dist
<1>6. (CHOOSE i \in free : \A j \in free : dist(i) <= dist(j)) \in free
  BY <1>5
<1> QED BY <1>6 DEF free, dist, NextCid

(* As long as a socket is below FD_SETSIZE, an id is free: the clients on  *)
(* the list have one socket each.                                          *)
LEMMA FreeCidExists ==
    ASSUME clients \subseteq OpenFds, Cardinality(OpenFds) < MaxFds
    PROVE  (1..MaxCid) \ UsedCids # {}
<1> USE ServerConstants
<1>1. IsFiniteSet(OpenFds)
  BY FS_Subset DEF OpenFds
<1>2. /\ IsFiniteSet(clients)
      /\ Cardinality(clients) <= Cardinality(OpenFds)
  BY <1>1, FS_Subset
<1> DEFINE f == [c \in clients |-> cid[c]]
<1>3. f \in Surjection(clients, UsedCids)
  BY DEF Surjection, UsedCids
<1>4. /\ IsFiniteSet(UsedCids)
      /\ Cardinality(UsedCids) <= Cardinality(clients)
  <2> HIDE DEF f
  <2> QED BY <1>2, <1>3, FS_Surjection
<1>5. IsFiniteSet(1..MaxCid) /\ Cardinality(1..MaxCid) = MaxCid
  <2>1. 1 \in Int /\ MaxCid \in Int /\ ~(1 > MaxCid)
    OBVIOUS
  <2> QED BY <2>1, FS_Interval
<1>6. SUFFICES ASSUME 1..MaxCid \subseteq UsedCids PROVE FALSE
  OBVIOUS
<1>7. MaxCid <= Cardinality(UsedCids)
  BY <1>4, <1>5, <1>6, FS_Subset
<1>8. /\ Cardinality(OpenFds) \in Nat /\ Cardinality(clients) \in Nat
      /\ Cardinality(UsedCids) \in Nat
  BY <1>1, <1>2, <1>4, FS_CardinalityType
<1> QED BY <1>2, <1>4, <1>7, <1>8

(* An id that is given to a new client is one that no client has *)
LEMMA CidGiven ==
    ASSUME BaseInv, Cardinality(OpenFds) < MaxFds
    PROVE  /\ NextCid(lastCid, UsedCids) \in 1..MaxCid
           /\ \A c \in clients : cid[c] # NextCid(lastCid, UsedCids)
<1>1. clients \subseteq OpenFds
  BY DEF BaseInv, TypeInv, TypeOK, ListInv, OpenFds
<1>2. NextCid(lastCid, UsedCids) \in (1..MaxCid) \ UsedCids
  BY <1>1, FreeCidExists, NextCidIsFree DEF BaseInv, TypeInv, TypeOK
<1> QED BY <1>2 DEF UsedCids

LEMMA BaseInvInit == Init => BaseInv
BY ServerConstants DEF Init, BaseInv, TypeInv, TypeOK, ListInv, Accepted, Idle, NotClosing, Actors

LEMMA BaseInvNext == BaseInv /\ [Next]_vars => BaseInv'
<1> SUFFICES ASSUME BaseInv, [Next]_vars PROVE BaseInv'
  OBVIOUS
<1> USE ServerConstants
    DEF BaseInv, TypeInv, TypeOK, ListInv, Accepted, Actors, Idle, NotClosing, Set,
        LoopAt, LoopFree, list, sock, app, calls
<1>1. ASSUME NEW c \in Conns, PeerConnects(c) PROVE BaseInv'
  BY <1>1 DEF PeerConnects
<1>2. ASSUME NEW c \in Conns, PeerSends(c) PROVE BaseInv'
  BY <1>2 DEF PeerSends
<1>3. ASSUME NEW c \in Conns, PeerCloses(c) PROVE BaseInv'
  BY <1>3 DEF PeerCloses
<1>4. ASSUME NEW c \in Conns, AcceptRefused(c) PROVE BaseInv'
  BY <1>4 DEF AcceptRefused
<1>5. ASSUME NEW c \in Conns, AcceptNoRequests(c) PROVE BaseInv'
  BY <1>5, CidGiven DEF AcceptNoRequests
<1>6. ASSUME NEW c \in Conns, AcceptClient(c) PROVE BaseInv'
  BY <1>6, CidGiven DEF AcceptClient, NewClient, At
<1>7. ASSUME NEW c \in Conns, AcceptNoEvent(c) PROVE BaseInv'
  BY <1>7, CidGiven DEF AcceptNoEvent, NewClient, StartClose
<1>8. ASSUME NEW c \in Conns, OnRecv(c) PROVE BaseInv'
  BY <1>8 DEF OnRecv, At
<1>9. CASE AcceptDone
  BY <1>9 DEF AcceptDone, Use
<1>10. CASE RecvMessages
  BY <1>10 DEF RecvMessages, At, Use
<1>11. CASE RecvNothing
  BY <1>11 DEF RecvNothing
<1>12. CASE RecvEnds
  BY <1>12 DEF RecvEnds, StartClose
<1>13. CASE HandleMessage
  BY <1>13 DEF HandleMessage, At, Use
<1>14. CASE CallbackReturns
  BY <1>14 DEF CallbackReturns, At
<1>15. CASE HandleDone
  BY <1>15 DEF HandleDone, At, Use
<1>16. ASSUME NEW a \in Actors, NEW c \in Conns, SendResponse(a, c) PROVE BaseInv'
  BY <1>16 DEF SendResponse
<1>17. ASSUME NEW a \in Actors, NEW c \in Conns, SendFails(a, c) PROVE BaseInv'
  BY <1>17 DEF SendFails, StartClose
<1>18. ASSUME NEW a \in Actors, NEW c \in Conns, CloseByCid(a, c) PROVE BaseInv'
  BY <1>18 DEF CloseByCid, StartClose
<1>19. ASSUME NEW a \in Actors, CloseBegin(a) PROVE BaseInv'
  BY <1>19 DEF CloseBegin, Use, Advance
<1>20. ASSUME NEW a \in Actors, CloseUnlink(a) PROVE BaseInv'
  BY <1>20 DEF CloseUnlink, Advance
<1>21. ASSUME NEW a \in Actors, CloseFree(a) PROVE BaseInv'
  BY <1>21 DEF CloseFree, Use, Advance
<1>22. ASSUME NEW a \in Actors, CloseNotify(a) PROVE BaseInv'
  BY <1>22 DEF CloseNotify
<1>23. CASE ServerClose
  <2>1. mem' \in [Conns -> {"none", "live", "freed"}]
    BY <1>23 DEF ServerClose
  <2>2. /\ open' = FALSE
        /\ UNCHANGED <<lastCid, clients, cid, fd, evt, mutex, loop, closing>>
        /\ UNCHANGED <<sent, inbox, gone, edge, held, answered, accepts, closes, misuse>>
    BY <1>23 DEF ServerClose
  <2>3. TypeOK'
    BY <2>1, <2>2
  <2>4. TypeInv'
    BY <2>2, <2>3
  <2>5. ListInv'
    BY <2>2
  <2> QED BY <2>4, <2>5
<1>24. CASE UNCHANGED vars
  BY <1>24 DEF vars
<1> QED BY <1>1, <1>2, <1>3, <1>4, <1>5, <1>6, <1>7, <1>8, <1>9, <1>10, <1>11, <1>12, <1>13, <1>14, <1>15, <1>16, <1>17, <1>18, <1>19, <1>20, <1>21, <1>22, <1>23, <1>24
        DEF Next, LoopStep, CloseStep, Ended

(* The variables keep their types for every choice of the switches; above  *)
(* all, get_next_cid, which loops until it finds a free id, finds one.     *)
THEOREM TypeCorrect == Spec => []TypeOK
<1>1. BaseInv => TypeOK
  BY DEF BaseInv, TypeInv
<1> QED BY <1>1, BaseInvInit, BaseInvNext, PTL DEF Spec

(* Whoever finds a client on the list may use it, even when threads and    *)
(* callbacks close clients as they like: unlinking comes before freeing.   *)
THEOREM ListIsUsable == Spec => []ListedClientUsable
<1>1. BaseInv => ListedClientUsable
  BY DEF BaseInv, TypeInv, TypeOK, ListInv, ListedClientUsable
<1> QED BY <1>1, BaseInvInit, BaseInvNext, PTL DEF Spec

-----------------------------------------------------------------------------
LEMMA ServerInvInit == Init => ServerInv
BY ServerConstants, BaseInvInit
   DEF Init, ServerInv, CloserInv, ToldInv, NoUseAfterFree, ClosedOnce, Idle, NotClosing, Actors

(* The client that close_client frees is not the one that on_recv or       *)
(* on_accept goes on with, and nobody else closes it.                      *)
LEMMA ServerInvNext ==
    ASSUME CloseIn = {}, ~ThreadsClose
    PROVE  ServerInv /\ [Next]_vars => ServerInv'
<1> SUFFICES ASSUME ServerInv, [Next]_vars PROVE ServerInv'
  OBVIOUS
<1> DEFINE Rest == CloserInv /\ ToldInv /\ NoUseAfterFree /\ ClosedOnce
<1>0. BaseInv /\ BaseInv'
  BY BaseInvNext DEF ServerInv
<1>a. Rest
  BY DEF ServerInv
<1> SUFFICES Rest'
  BY <1>0 DEF ServerInv
<1> USE <1>0, <1>a, ServerConstants
    DEF BaseInv, TypeInv, TypeOK, ListInv, Accepted, CloserInv, ToldInv, NoUseAfterFree, ClosedOnce,
        Actors, Idle, NotClosing, Set, LoopAt, LoopFree, list, sock, app, calls
<1>1. ASSUME NEW c \in Conns, PeerConnects(c) PROVE Rest'
  BY <1>1 DEF PeerConnects
<1>2. ASSUME NEW c \in Conns, PeerSends(c) PROVE Rest'
  BY <1>2 DEF PeerSends
<1>3. ASSUME NEW c \in Conns, PeerCloses(c) PROVE Rest'
  BY <1>3 DEF PeerCloses
<1>4. ASSUME NEW c \in Conns, AcceptRefused(c) PROVE Rest'
  BY <1>4 DEF AcceptRefused
<1>5. ASSUME NEW c \in Conns, AcceptNoRequests(c) PROVE Rest'
  BY <1>5, CidGiven DEF AcceptNoRequests
<1>6. ASSUME NEW c \in Conns, AcceptClient(c) PROVE Rest'
  BY <1>6, CidGiven DEF AcceptClient, NewClient, At
<1>7. ASSUME NEW c \in Conns, AcceptNoEvent(c) PROVE Rest'
  BY <1>7, CidGiven DEF AcceptNoEvent, NewClient, StartClose
<1>8. ASSUME NEW c \in Conns, OnRecv(c) PROVE Rest'
  BY <1>8 DEF OnRecv, At
<1>9. CASE AcceptDone
  BY <1>9 DEF AcceptDone, Use
<1>10. CASE RecvMessages
  BY <1>10 DEF RecvMessages, At, Use
<1>11. CASE RecvNothing
  BY <1>11 DEF RecvNothing
<1>12. CASE RecvEnds
  BY <1>12 DEF RecvEnds, StartClose
<1>13. CASE HandleMessage
  BY <1>13 DEF HandleMessage, At, Use
<1>14. CASE CallbackReturns
  BY <1>14 DEF CallbackReturns, At
<1>15. CASE HandleDone
  BY <1>15 DEF HandleDone, At, Use
<1>16. ASSUME NEW a \in Actors, NEW c \in Conns, SendResponse(a, c) PROVE Rest'
  BY <1>16 DEF SendResponse
<1>17. ASSUME NEW a \in Actors, NEW c \in Conns, SendFails(a, c) PROVE Rest'
  BY <1>17 DEF SendFails, StartClose, MayCall, MayEnd
<1>18. ASSUME NEW a \in Actors, NEW c \in Conns, CloseByCid(a, c) PROVE Rest'
  BY <1>18 DEF CloseByCid, StartClose, MayCall, MayEnd
<1>19. ASSUME NEW a \in Actors, CloseBegin(a) PROVE Rest'
  BY <1>19 DEF CloseBegin, Use, Advance
<1>20. ASSUME NEW a \in Actors, CloseUnlink(a) PROVE Rest'
  BY <1>20 DEF CloseUnlink, Advance
<1>21. ASSUME NEW a \in Actors, CloseFree(a) PROVE Rest'
  BY <1>21 DEF CloseFree, Use, Advance
<1>22. ASSUME NEW a \in Actors, CloseNotify(a) PROVE Rest'
  BY <1>22 DEF CloseNotify
<1>23. CASE ServerClose
  BY <1>23 DEF ServerClose
<1>24. CASE UNCHANGED vars
  BY <1>24 DEF vars
<1> QED BY <1>1, <1>2, <1>3, <1>4, <1>5, <1>6, <1>7, <1>8, <1>9, <1>10, <1>11, <1>12, <1>13, <1>14, <1>15, <1>16, <1>17, <1>18, <1>19, <1>20, <1>21, <1>22, <1>23, <1>24
        DEF Next, LoopStep, CloseStep, Ended

(* No code of an open server uses a client that close_client has freed, if *)
(* clients are not closed in their own callbacks or by other threads.      *)
THEOREM FreedClientUnused ==
    ASSUME CloseIn = {}, ~ThreadsClose
    PROVE  Spec => []NoUseAfterFree
<1>1. ServerInv => NoUseAfterFree
  BY DEF ServerInv
<1> QED BY <1>1, ServerInvInit, ServerInvNext, PTL DEF Spec

(* The close callback comes at most once for a client, and never without   *)
(* the accept callback, under the same assumption.                         *)
THEOREM ClientToldOnce ==
    ASSUME CloseIn = {}, ~ThreadsClose
    PROVE  Spec => []ClosedOnce
<1>1. ServerInv => ClosedOnce
  BY DEF ServerInv
<1> QED BY <1>1, ServerInvInit, ServerInvNext, PTL DEF Spec

-----------------------------------------------------------------------------
(* A request the application holds keeps its client's id for that client:  *)
(* the id of a new client is neither that of a listed client nor, under    *)
(* KeepCids, that of a client that is gone and owed an answer.             *)
LEMMA HeldInvNext ==
    ASSUME CloseIn = {}, ~ThreadsClose, KeepCids
    PROVE  ServerInv /\ HeldInv /\ AnswersGoHome /\ [Next]_vars => (HeldInv /\ AnswersGoHome)'
<1> SUFFICES ASSUME ServerInv, HeldInv, AnswersGoHome, [Next]_vars
             PROVE  (HeldInv /\ AnswersGoHome)'
  OBVIOUS
<1> DEFINE Goal == HeldInv' /\ AnswersGoHome'
<1>a. BaseInv /\ CloserInv
  BY DEF ServerInv
<1> USE <1>a, ServerConstants
    DEF BaseInv, TypeInv, TypeOK, ListInv, CloserInv, HeldInv, AnswersGoHome, Actors,
        Set, LoopAt, LoopFree, list, app
<1>1. ASSUME NEW c \in Conns, NewClient(c), UNCHANGED <<held, answered>> PROVE Goal
  <2>1. \A d \in held \cup clients : cid[d] # NextCid(lastCid, UsedCids)
    BY <1>1, CidGiven DEF NewClient, CidForgotten
  <2> QED BY <1>1, <2>1 DEF NewClient
<1>2. CASE HandleMessage
  BY <1>2 DEF HandleMessage
<1>3. ASSUME NEW a \in Actors, NEW d \in Conns, SendResponse(a, d) PROVE Goal
  BY <1>3 DEF SendResponse
<1>4. ASSUME NEW a \in Actors, CloseUnlink(a) PROVE Goal
  BY <1>4 DEF CloseUnlink
<1>5. CASE UNCHANGED <<clients, cid, held, answered>>
  BY <1>5
<1> QED
  BY <1>1, <1>2, <1>3, <1>4, <1>5
  DEF Next, LoopStep, CloseStep, Ended, vars, PeerConnects, PeerSends, PeerCloses, AcceptRefused,
      AcceptNoRequests, AcceptClient, AcceptNoEvent, OnRecv, AcceptDone, RecvMessages,
      RecvNothing, RecvEnds, CallbackReturns, HandleDone, SendFails, CloseByCid, CloseBegin,
      CloseFree, CloseNotify, ServerClose

(* An answer reaches the client that asked or nobody, for any number of    *)
(* connections that come and go and share the ids, as long as no id is     *)
(* given again while a request of its last owner is held.                  *)
THEOREM AnswersFindHome ==
    ASSUME CloseIn = {}, ~ThreadsClose, KeepCids
    PROVE  Spec => []AnswersGoHome
<1>1. Init => AnswerInv
  BY ServerInvInit DEF Init, AnswerInv, HeldInv, AnswersGoHome
<1>2. AnswerInv /\ [Next]_vars => AnswerInv'
  BY ServerInvNext, HeldInvNext DEF AnswerInv
<1>3. AnswerInv => AnswersGoHome
  BY DEF AnswerInv
<1> QED BY <1>1, <1>2, <1>3, PTL DEF Spec

=============================================================================

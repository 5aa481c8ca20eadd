-------------------------- MODULE TestProgramsProofs --------------------------
(***************************************************************************)
(* Proofs about TestPrograms, for any number of client programs and        *)
(* requests: when a client program closes a session that was freed, that   *)
(* no program counts a failure, and when the server is killed.  They rest  *)
(* on the layout of the sequence number (IpcSeqNum), which comes first.    *)
(***************************************************************************)
EXTENDS TestPrograms, FiniteSetTheorems, SequenceTheorems, TLAPS

-----------------------------------------------------------------------------
(* The layout, for all ids: client ids of 16 bits, request ids of 15 bits *)
IsClientId(n) == n \in Nat /\ n < 65536
IsRequestId(n) == n \in Nat /\ 0 < n /\ n < 32768

(* The two halves of a number *)
LEMMA Halves ==
    ASSUME NEW hi \in Nat, NEW lo \in Nat, lo < 65536
    PROVE  /\ AF_IPC_GET_CLIENT_ID(lo + hi * 65536) = hi
           /\ AF_IPC_GET_SEQ_ID(lo + hi * 65536) = lo
BY SMT DEF AF_IPC_GET_CLIENT_ID, AF_IPC_GET_SEQ_ID

(* The NEW bit of a number, and the number without it *)
LEMMA NewBit ==
    ASSUME NEW hi \in Nat, NEW id \in Nat, id < 32768
    PROVE  /\ IsNewRequest(id + 32768 + hi * 65536)
           /\ ~IsNewRequest(id + hi * 65536)
           /\ ClearNew(id + 32768 + hi * 65536) = id + hi * 65536
<1>1. (id + 32768 + hi * 65536) \div 32768 = 1 + hi * 2
  BY SMT
<1>2. (id + hi * 65536) \div 32768 = hi * 2
  BY SMT
<1>3. (1 + hi * 2) % 2 = 1 /\ (hi * 2) % 2 = 0
  BY SMT
<1>4. IsNewRequest(id + 32768 + hi * 65536) /\ ~IsNewRequest(id + hi * 65536)
  BY <1>1, <1>2, <1>3 DEF IsNewRequest
<1>5. (id + 32768 + hi * 65536) - 32768 = id + hi * 65536
  BY SMT
<1> QED BY <1>4, <1>5 DEF ClearNew

(* What af_ipc_send marks as a request is handled as a command at the      *)
(* other end, whose application is given a number from which the client    *)
(* and the request can be told; and when it answers with that number, the  *)
(* answer is no command there, and states the id the request was           *)
(* registered under.                                                       *)
THEOREM AnswerComesHome ==
    ASSUME NEW clientId, IsClientId(clientId), NEW id, IsRequestId(id)
    PROVE  /\ IsCommand(NewRequest(id))
           /\ AF_IPC_GET_CLIENT_ID(ToApplication(clientId, NewRequest(id))) = clientId
           /\ ~IsCommand(ToApplication(clientId, NewRequest(id)))
           /\ AF_IPC_GET_SEQ_ID(ToApplication(clientId, NewRequest(id))) = id
<1>1. /\ clientId \in Nat
      /\ id \in Nat /\ id # 0 /\ id < 32768 /\ id < 65536
      /\ id + 32768 \in Nat /\ id + 32768 < 65536 /\ id + 32768 # 0
  BY SMT DEF IsRequestId, IsClientId
<1>2. id + 32768 = id + 32768 + 0 * 65536 /\ id = id + 0 * 65536 /\ 0 \in Nat
  BY <1>1, SMT
<1>3. AF_IPC_GET_SEQ_ID(id + 32768) = id + 32768
  BY <1>1, SMT DEF AF_IPC_GET_SEQ_ID
<1>4. AF_IPC_GET_SEQ_ID(NewRequest(id)) = id + 32768
  BY <1>3 DEF NewRequest
<1>5. ToApplication(clientId, NewRequest(id)) = id + clientId * 65536
  BY <1>1, <1>4, NewBit DEF ToApplication
<1>6. IsCommand(NewRequest(id))
  BY <1>1, <1>2, <1>4, NewBit DEF IsCommand
<1>7. /\ AF_IPC_GET_CLIENT_ID(id + clientId * 65536) = clientId
      /\ AF_IPC_GET_SEQ_ID(id + clientId * 65536) = id
  BY <1>1, Halves
<1>8. ~IsNewRequest(id)
  BY <1>1, <1>2, NewBit
<1>9. ~IsCommand(id + clientId * 65536)
  BY <1>1, <1>7, <1>8 DEF IsCommand
<1> QED BY <1>5, <1>6, <1>7, <1>9

(* The requests of two clients, or two requests of one, never carry the    *)
(* same number to the server's application.                                *)
THEOREM NumbersTellApart ==
    ASSUME NEW c1, NEW c2, IsClientId(c1), IsClientId(c2),
           NEW id1, NEW id2, IsRequestId(id1), IsRequestId(id2),
           ToApplication(c1, NewRequest(id1)) = ToApplication(c2, NewRequest(id2))
    PROVE  c1 = c2 /\ id1 = id2
<1>1. /\ AF_IPC_GET_CLIENT_ID(ToApplication(c1, NewRequest(id1))) = c1
      /\ AF_IPC_GET_SEQ_ID(ToApplication(c1, NewRequest(id1))) = id1
  BY AnswerComesHome
<1>2. /\ AF_IPC_GET_CLIENT_ID(ToApplication(c2, NewRequest(id2))) = c2
      /\ AF_IPC_GET_SEQ_ID(ToApplication(c2, NewRequest(id2))) = id2
  BY AnswerComesHome
<1> QED BY <1>1, <1>2

-----------------------------------------------------------------------------
(* A client program that waits for messages has its session.  One that has *)
(* left its loop may have lost it, but then the server program has ended.  *)
SessionInv ==
    /\ client \in [Clients -> {"off", "loop", "breaking", "done", "killed"}]
    /\ session \in [Clients -> {"none", "live", "freed"}]
    /\ \A c \in Clients : client[c] = "loop" => session[c] = "live"
    /\ \A c \in Clients : client[c] = "breaking" /\ session[c] = "freed" => ~ServerRuns
    /\ FreedOnlyAfterServer

LEMMA SessionInvInit == Init => SessionInv
BY DEF Init, SessionInv, FreedOnlyAfterServer

(* A server program that has ended does not run again *)
LEMMA ServerStaysGone ==
    ASSUME [Next]_vars, ServerRuns'
    PROVE  ServerRuns
BY DEF Next, ClientStep, ServerStep, Ended, vars, life, process, ServerRuns, ClientStarts, ClientTimesOut,
       OnBroadcast, OnServerCommand, OnUnsolicited, OnServerReply, OnServerGone, ClientEnds,
       ServerAccepts, ServerOnRecv, ServerTimesOut, CommandIs, ServerReads, OnTestBroadcast,
       OnTestServerCommands, OnTestUnsolicited, OnServerExit, OnClientCommand, OnClientReply,
       ServerReadsNothing, ServerClosesClient, ServerEnds, ServerSends, ServerFails

LEMMA SessionInvNext == SessionInv /\ [Next]_vars => SessionInv'
<1> SUFFICES ASSUME SessionInv, [Next]_vars PROVE SessionInv'
  OBVIOUS
<1>0. ServerRuns' => ServerRuns
  BY ServerStaysGone
<1> USE <1>0 DEF SessionInv, FreedOnlyAfterServer, Set
<1>1. ASSUME NEW c \in Clients, ClientStarts(c) PROVE SessionInv'
  BY <1>1 DEF ClientStarts
<1>2. ASSUME NEW c \in Clients, OnBroadcast(c) PROVE SessionInv'
  BY <1>2 DEF OnBroadcast, ClientKilled
<1>3. ASSUME NEW c \in Clients, OnServerCommand(c) PROVE SessionInv'
  <2>1. /\ misuse' = misuse /\ Connected(c)
        /\ \/ session' = session /\ client' \in {client, [client EXCEPT ![c] = "breaking"]}
           \/ /\ session' = [session EXCEPT ![c] = "freed"]
              /\ client' = [client EXCEPT ![c] = "killed"]
    BY <1>3 DEF OnServerCommand, ClientReads, Counts, ClientKilled
  <2> QED BY <2>1 DEF Connected
<1>4. ASSUME NEW c \in Clients, OnUnsolicited(c) PROVE SessionInv'
  BY <1>4 DEF OnUnsolicited, ClientReads, Connected
<1>5. ASSUME NEW c \in Clients, OnServerReply(c) PROVE SessionInv'
  <2>1. /\ misuse' = misuse /\ Connected(c) /\ session' = session
        /\ client' \in {client, [client EXCEPT ![c] = "breaking"]}
    BY <1>5 DEF OnServerReply, ClientReads, Counts
  <2> QED BY <2>1 DEF Connected
<1>6. ASSUME NEW c \in Clients, OnServerGone(c) PROVE SessionInv'
  BY <1>6 DEF OnServerGone
<1>7. ASSUME NEW c \in Clients, ClientEnds(c) PROVE SessionInv'
  BY <1>7 DEF ClientEnds
<1>8. CASE UNCHANGED <<client, session, misuse>>
  BY <1>8
<1> QED
  BY <1>1, <1>2, <1>3, <1>4, <1>5, <1>6, <1>7, <1>8
  DEF Next, ClientStep, ServerStep, Ended, vars, life, process, ClientTimesOut,
      ServerAccepts, ServerOnRecv, ServerTimesOut, OnTestBroadcast,
      OnTestServerCommands, OnTestUnsolicited, OnServerExit, OnClientCommand, OnClientReply,
      ServerReadsNothing, ServerClosesClient, ServerEnds

(* However many client programs run, and whatever they test: one closes a  *)
(* session that the library has freed only when the server has gone away.  *)
THEOREM FreedSessionMeansNoServer == Spec => []FreedOnlyAfterServer
<1>1. SessionInv => FreedOnlyAfterServer
  BY DEF SessionInv
<1> QED BY <1>1, SessionInvInit, SessionInvNext, PTL DEF Spec

-----------------------------------------------------------------------------
(* Sequence numbers.  Each end sends its requests in rows of MAX_REQUESTS   *)
(* under consecutive ids, so that an id tells which of a row a request is. *)

TestCommands == {"CLIENT_TEST_BROADCAST_CLIENTCMDS", "CLIENT_TEST_SERVERCMDS",
                 "CLIENT_TEST_SERVERUNSOL", "CLIENT_SERVEREXIT"}

(* The ids up to last of the requests that were the n-th of their row *)
Nth(last, n) == {id \in 1..last : \E k \in Nat : id = k * MAX_REQUESTS + n + 1}

(* What a client program may have sent, and what may be on its way to it *)
FromClient(c) ==
    {m \in Message :
        \/ m.cmd \in TestCommands /\ m.seq = 0
        \/ m.cmd = "CLIENT_COMMANDS" /\ \E id \in Nth(clientLast[c], m.arg) : m.seq = NewRequest(id)
        \/ m.cmd = "CLIENT_REPLIES" /\ m.seq \in Nth(serverLast[c], m.arg)}

FromServer(c) ==
    {m \in Message :
        \/ m.cmd \in {"SERVER_BROADCAST_TO_CLIENTS", "SERVER_UNSOL_TO_CLIENT"} /\ m.seq = 0
        \/ m.cmd = "SERVER_COMMANDS_TO_CLIENT"
           /\ \E id \in Nth(serverLast[c], m.arg) : m.seq = NewRequest(id)
        \/ m.cmd = "SERVER_REPLIES"
           /\ \E id \in Nth(clientLast[c], m.arg) : m.seq = ToApplication(cid[c], NewRequest(id))}

(* Ids of clients are not given twice; the server serves a listed client *)
SeatInv ==
    /\ lastCid \in Nat /\ cid \in [Clients -> Nat]
    /\ \A c \in Clients : cid[c] <= lastCid
    /\ \A c, d \in Clients : cid[c] = cid[d] /\ cid[c] # 0 => c = d
    /\ listed \subseteq Clients /\ \A c \in listed : cid[c] # 0
    /\ \A c \in Clients : cid[c] # 0 => session[c] # "none"
    /\ serving \in listed \cup {NoClient}
    /\ lastCid + Cardinality({c \in Clients : cid[c] = 0}) <= Cardinality(Clients)

(* What is on its way, and the requests that are waited for *)
FlowInv ==
    /\ toServer \in [Clients -> Seq(Message)] /\ toClient \in [Clients -> Seq(Message)]
    /\ \A c \in Clients : \A i \in DOMAIN toServer[c] : toServer[c][i] \in FromClient(c)
    /\ \A c \in Clients : \A i \in DOMAIN toClient[c] : toClient[c][i] \in FromServer(c)
    /\ clientPending \in [Clients -> SUBSET [id : Nat, ctx : Numbers]]
    /\ serverPending \in [Clients -> SUBSET [id : Nat, ctx : Numbers]]
    /\ \A c \in Clients : \A r \in clientPending[c] : r.id \in Nth(clientLast[c], r.ctx)
    /\ \A c \in Clients : \A r \in serverPending[c] : r.id \in Nth(serverLast[c], r.ctx)
    /\ \A c \in Clients : cid[c] = 0 => toClient[c] = <<>>

(* What is tested is the first thing a client program says *)
FirstInv ==
    /\ mode \in [Clients -> Modes]
    /\ \A c \in Clients :
          /\ session[c] = "none" => toServer[c] = <<>>
          /\ client[c] = "off" => session[c] = "none"
          /\ \A i \in 2..Len(toServer[c]) : toServer[c][i].cmd \notin TestCommands

(* The rows a client program was asked for and those it may yet be asked    *)
(* for are no more than there are clients to ask; the server sends one row  *)
(* to a client.                                                             *)
First(c, cmd) == toServer[c] # <<>> /\ Head(toServer[c]).cmd = cmd
Untold(cmd) == {c \in Clients : client[c] = "off" \/ First(c, cmd)}
Broadcasts(s) == {i \in DOMAIN s : s[i].cmd = "SERVER_BROADCAST_TO_CLIENTS"}

RowInv ==
    /\ clientLast \in [Clients -> Nat] /\ serverLast \in [Clients -> {0, MAX_REQUESTS}]
    /\ \A c \in Clients : \E k \in Nat :
          /\ clientLast[c] = k * MAX_REQUESTS
          /\ k + Cardinality(Broadcasts(toClient[c]))
               + Cardinality(Untold("CLIENT_TEST_BROADCAST_CLIENTCMDS")) <= Cardinality(Clients)
    /\ \A c \in Untold("CLIENT_TEST_SERVERCMDS") : serverLast[c] = 0

NumberInv == SessionInv /\ SeatInv /\ FlowInv /\ FirstInv /\ RowInv /\ NoFailures

(* A client program on its own: what it has said and what it is told follow *)
(* one another, and when it leaves the server has nothing more to tell it.  *)
Started == {c \in Clients : session[c] # "none"}

Said(s) == {s[i] : i \in DOMAIN s}
AskedOnce(s) ==
    \A i, j \in DOMAIN s :
       s[i].cmd = "CLIENT_COMMANDS" /\ s[j].cmd = "CLIENT_COMMANDS" /\ s[i].arg = s[j].arg => i = j

LoneTalk(c) ==
    /\ client[c] \in {"breaking", "done", "killed"} =>
          \A m \in Said(toServer[c]) : m.cmd \in {"CLIENT_REPLIES", "CLIENT_SERVEREXIT"}
    /\ \A m \in Said(toServer[c]) : m.cmd \in TestCommands => Len(toServer[c]) = 1 /\ toClient[c] = <<>>
    /\ \A m \in Said(toServer[c]) : m.cmd = "CLIENT_COMMANDS" =>
          /\ m.arg \notin replies[c]
          /\ \A a \in Said(toClient[c]) : a.cmd = "SERVER_REPLIES" => a.arg # m.arg
    /\ AskedOnce(toServer[c])
    /\ \A m \in Said(toClient[c]) : m.cmd = "SERVER_BROADCAST_TO_CLIENTS" =>
          toServer[c] = <<>> /\ Len(toClient[c]) = 1 /\ client[c] = "loop"
    /\ \A m \in Said(toClient[c]) : m.cmd \in {"SERVER_COMMANDS_TO_CLIENT", "SERVER_UNSOL_TO_CLIENT"} =>
          /\ \A a \in Said(toServer[c]) : a.cmd = "CLIENT_REPLIES"
          /\ \A a \in Said(toClient[c]) : a.cmd # "SERVER_REPLIES"

Maps(f) == f = [c \in Clients |-> f[c]]

LoneInv ==
    /\ Maps(replies)
    /\ ServerRuns => \A c \in Clients : Started \subseteq {c} => LoneTalk(c)

-----------------------------------------------------------------------------
(* A number in a row follows from the id *)
LEMMA NumberOfId ==
    ASSUME NEW id, NEW last1 \in Nat, NEW last2 \in Nat, NEW a \in Numbers, NEW b \in Numbers,
           id \in Nth(last1, a), id \in Nth(last2, b)
    PROVE  a = b
<1>1. PICK k \in Nat : id = k * MAX_REQUESTS + a + 1
  BY DEF Nth
<1>2. PICK j \in Nat : id = j * MAX_REQUESTS + b + 1
  BY DEF Nth
<1>3. MAX_REQUESTS \in Nat /\ a \in Nat /\ b \in Nat /\ a < MAX_REQUESTS /\ b < MAX_REQUESTS
  BY TestConstants DEF Numbers
<1>4. ASSUME NEW x \in Nat, NEW y \in Nat, x < y
      PROVE  y * MAX_REQUESTS >= x * MAX_REQUESTS + MAX_REQUESTS
  <2>1. (y - x - 1) * MAX_REQUESTS \in Nat
    BY <1>3, <1>4
  <2>2. y * MAX_REQUESTS = x * MAX_REQUESTS + MAX_REQUESTS + (y - x - 1) * MAX_REQUESTS
    BY <1>3
  <2>3. x * MAX_REQUESTS \in Nat /\ y * MAX_REQUESTS \in Nat
    BY <1>3
  <2> QED BY <1>3, <2>1, <2>2, <2>3
<1>5. k * MAX_REQUESTS \in Nat /\ j * MAX_REQUESTS \in Nat
  BY <1>3
<1>6. k * MAX_REQUESTS + a = j * MAX_REQUESTS + b
  BY <1>1, <1>2, <1>3, <1>5
<1>7. k = j
  BY <1>3, <1>4, <1>5, <1>6
<1> QED BY <1>3, <1>5, <1>6, <1>7

LEMMA NthGrows ==
    ASSUME NEW last1 \in Nat, NEW last2 \in Nat, last1 <= last2, NEW n
    PROVE  Nth(last1, n) \subseteq Nth(last2, n)
BY DEF Nth

(* The ids of a new row *)
LEMMA RowIds ==
    ASSUME NEW k \in Nat, NEW i \in 1..MAX_REQUESTS
    PROVE  k * MAX_REQUESTS + i \in Nth(k * MAX_REQUESTS + MAX_REQUESTS, i - 1)
<1>1. MAX_REQUESTS \in Nat /\ i \in Nat /\ i - 1 \in Nat /\ i <= MAX_REQUESTS /\ 1 <= i
  BY TestConstants
<1>2. k * MAX_REQUESTS \in Nat
  BY <1>1
<1>3. k * MAX_REQUESTS + i = k * MAX_REQUESTS + (i - 1) + 1
  BY <1>1, <1>2
<1>4. k * MAX_REQUESTS + i \in 1..(k * MAX_REQUESTS + MAX_REQUESTS)
  BY <1>1, <1>2
<1> QED BY <1>3, <1>4 DEF Nth

(* Ids up to the last that is ever given are request ids *)
LEMMA NthIsRequestId ==
    ASSUME NEW last \in Nat, last < 32768, NEW n, NEW id \in Nth(last, n)
    PROVE  IsRequestId(id) /\ id \in Nat
BY DEF Nth, IsRequestId

LEMMA FewRows ==
    ASSUME NEW k \in Nat, k <= Cardinality(Clients)
    PROVE  k * MAX_REQUESTS \in Nat /\ k * MAX_REQUESTS < 32768 /\ k < 32768
<1>1. Cardinality(Clients) \in Nat /\ MAX_REQUESTS \in Nat /\ MAX_REQUESTS >= 1
  BY IdsDoNotWrap, TestConstants, FS_CardinalityType
<1>2. (Cardinality(Clients) - k) * MAX_REQUESTS \in Nat /\ k * MAX_REQUESTS \in Nat
  BY <1>1
<1>3. Cardinality(Clients) * MAX_REQUESTS = k * MAX_REQUESTS + (Cardinality(Clients) - k) * MAX_REQUESTS
  BY <1>1
<1>4. k * MAX_REQUESTS < 32768
  BY <1>1, <1>2, <1>3, IdsDoNotWrap
<1>5. k * (MAX_REQUESTS - 1) \in Nat /\ k * MAX_REQUESTS = k + k * (MAX_REQUESTS - 1)
  BY <1>1
<1> QED BY <1>2, <1>4, <1>5

-----------------------------------------------------------------------------
(* How many broadcasts are on their way *)
LEMMA BroadcastsFinite ==
    ASSUME NEW S, NEW s \in Seq(S)
    PROVE  IsFiniteSet(Broadcasts(s)) /\ Cardinality(Broadcasts(s)) \in Nat
<1>1. DOMAIN s = 1..Len(s) /\ Len(s) \in Nat
  BY LenProperties
<1>2. IsFiniteSet(1..Len(s))
  BY <1>1, FS_Interval
<1>3. Broadcasts(s) \in SUBSET (1..Len(s))
  BY <1>1 DEF Broadcasts
<1> QED BY <1>2, <1>3, FS_Subset, FS_CardinalityType

LEMMA BroadcastRead ==
    ASSUME NEW S, NEW s \in Seq(S), s # <<>>
    PROVE  /\ Cardinality(Broadcasts(Tail(s))) <= Cardinality(Broadcasts(s))
           /\ Head(s).cmd = "SERVER_BROADCAST_TO_CLIENTS" =>
                Cardinality(Broadcasts(Tail(s))) + 1 <= Cardinality(Broadcasts(s))
<1> DEFINE B == Broadcasts(s)
           C == Broadcasts(Tail(s))
           f == [i \in C |-> i + 1]
<1>1. /\ DOMAIN s = 1..Len(s) /\ Len(s) \in Nat /\ Tail(s) \in Seq(S)
      /\ Len(Tail(s)) = Len(s) - 1 /\ DOMAIN Tail(s) = 1..(Len(s) - 1) /\ Head(s) = s[1]
      /\ \A i \in 1..(Len(s) - 1) : Tail(s)[i] = s[i + 1]
  <2>1. Tail(s) \in Seq(S) /\ Len(Tail(s)) = Len(s) - 1
        /\ \A i \in 1..Len(Tail(s)) : Tail(s)[i] = s[i + 1]
    BY HeadTailProperties
  <2> QED BY <2>1, LenProperties
<1>2. f \in [C -> B \ {1}]
  BY <1>1 DEF Broadcasts
<1>3. f \in Injection(C, B \ {1})
  <2>1. \A i \in C : i \in Nat
    BY <1>1 DEF Broadcasts
  <2>2. \A i, j \in C : f[i] = f[j] => i = j
    BY <2>1
  <2>3. IsInjective(f)
    BY <1>2, <2>2 DEF IsInjective
  <2> QED BY <1>2, <2>3 DEF Injection
<1>4. IsFiniteSet(B) /\ IsFiniteSet(C) /\ Cardinality(B) \in Nat /\ Cardinality(C) \in Nat
  BY <1>1, BroadcastsFinite
<1>5. IsFiniteSet(B \ {1}) /\ Cardinality(B \ {1}) = IF 1 \in B THEN Cardinality(B) - 1 ELSE Cardinality(B)
  BY <1>4, FS_RemoveElement
<1>6. Cardinality(C) <= Cardinality(B \ {1})
  <2> HIDE DEF f
  <2> QED BY <1>3, <1>5, FS_Injection
<1>7. s # <<>> => 1 \in DOMAIN s
  BY <1>1, EmptySeq
<1>8. Head(s).cmd = "SERVER_BROADCAST_TO_CLIENTS" => 1 \in B
  BY <1>1, <1>7 DEF Broadcasts
<1> HIDE DEF B, C
<1>9. Cardinality(C) <= Cardinality(B) /\ (1 \in B => Cardinality(C) + 1 <= Cardinality(B))
  BY <1>4, <1>5, <1>6
<1> QED BY <1>8, <1>9 DEF B, C

LEMMA BroadcastSent ==
    ASSUME NEW S, NEW s \in Seq(S), NEW m \in S
    PROVE  Cardinality(Broadcasts(s \o <<m>>)) <= Cardinality(Broadcasts(s)) + 1
<1>1. /\ DOMAIN s = 1..Len(s) /\ Len(s) \in Nat /\ <<m>> \in Seq(S) /\ s \o <<m>> \in Seq(S)
      /\ DOMAIN (s \o <<m>>) = 1..(Len(s) + 1)
      /\ \A i \in 1..(Len(s) + 1) : (s \o <<m>>)[i] = IF i <= Len(s) THEN s[i] ELSE <<m>>[i - Len(s)]
  <2>1. <<m>> \in Seq(S) /\ Len(<<m>>) = 1
    OBVIOUS
  <2> QED BY <2>1, ConcatProperties, LenProperties
<1>2. Broadcasts(s \o <<m>>) \subseteq Broadcasts(s) \cup {Len(s) + 1}
  BY <1>1 DEF Broadcasts
<1>3. IsFiniteSet(Broadcasts(s)) /\ Cardinality(Broadcasts(s)) \in Nat
      /\ Cardinality(Broadcasts(s \o <<m>>)) \in Nat
  BY <1>1, BroadcastsFinite
<1>4. IsFiniteSet(Broadcasts(s) \cup {Len(s) + 1})
      /\ Cardinality(Broadcasts(s) \cup {Len(s) + 1}) <= Cardinality(Broadcasts(s)) + 1
      /\ Cardinality(Broadcasts(s) \cup {Len(s) + 1}) \in Nat
  <2>1. IsFiniteSet(Broadcasts(s) \cup {Len(s) + 1})
        /\ Cardinality(Broadcasts(s) \cup {Len(s) + 1}) =
             IF Len(s) + 1 \in Broadcasts(s) THEN Cardinality(Broadcasts(s)) ELSE Cardinality(Broadcasts(s)) + 1
    BY <1>3, FS_AddElement
  <2> QED BY <1>3, <2>1, FS_CardinalityType
<1>5. Cardinality(Broadcasts(s \o <<m>>)) <= Cardinality(Broadcasts(s) \cup {Len(s) + 1})
  BY <1>2, <1>4, FS_Subset
<1> QED BY <1>3, <1>4, <1>5

LEMMA OtherSent ==
    ASSUME NEW S, NEW s \in Seq(S), NEW t \in Seq(S),
           \A i \in 1..Len(t) : t[i].cmd # "SERVER_BROADCAST_TO_CLIENTS"
    PROVE  Broadcasts(s \o t) = Broadcasts(s)
<1>1. /\ DOMAIN s = 1..Len(s) /\ Len(s) \in Nat /\ Len(t) \in Nat
      /\ DOMAIN (s \o t) = 1..(Len(s) + Len(t))
      /\ \A i \in 1..(Len(s) + Len(t)) : (s \o t)[i] = IF i <= Len(s) THEN s[i] ELSE t[i - Len(s)]
  BY ConcatProperties, LenProperties
<1>2. ASSUME NEW i \in Broadcasts(s \o t) PROVE i \in Broadcasts(s)
  <2>1. CASE i <= Len(s)
    BY <1>1, <1>2, <2>1 DEF Broadcasts
  <2>2. CASE ~(i <= Len(s))
    <3>1. i \in 1..(Len(s) + Len(t)) /\ (s \o t)[i].cmd = "SERVER_BROADCAST_TO_CLIENTS"
      BY <1>1, <1>2 DEF Broadcasts
    <3>2. (s \o t)[i] = t[i - Len(s)] /\ i - Len(s) \in 1..Len(t)
      BY <1>1, <2>2, <3>1
    <3> QED BY <3>1, <3>2
  <2> QED BY <2>1, <2>2
<1>3. ASSUME NEW i \in Broadcasts(s) PROVE i \in Broadcasts(s \o t)
  <2>1. i \in 1..Len(s) /\ s[i].cmd = "SERVER_BROADCAST_TO_CLIENTS"
    BY <1>1, <1>3 DEF Broadcasts
  <2>2. i \in 1..(Len(s) + Len(t)) /\ (s \o t)[i] = s[i]
    BY <1>1, <2>1
  <2> QED BY <1>1, <2>1, <2>2 DEF Broadcasts
<1> QED BY <1>2, <1>3

-----------------------------------------------------------------------------
(* Sequences of messages *)
LEMMA TailOf ==
    ASSUME NEW S, NEW s \in Seq(S), s # <<>>
    PROVE  /\ DOMAIN s = 1..Len(s) /\ Len(s) \in Nat \ {0} /\ Head(s) = s[1] /\ 1 \in DOMAIN s
           /\ Tail(s) \in Seq(S) /\ Len(Tail(s)) = Len(s) - 1 /\ DOMAIN Tail(s) = 1..(Len(s) - 1)
           /\ \A i \in DOMAIN Tail(s) : i + 1 \in 2..Len(s) /\ i + 1 \in DOMAIN s /\ Tail(s)[i] = s[i + 1]
<1>1. /\ Tail(s) \in Seq(S) /\ Len(Tail(s)) = Len(s) - 1
      /\ \A i \in 1..Len(Tail(s)) : Tail(s)[i] = s[i + 1]
  BY HeadTailProperties
<1>2. Len(s) \in Nat \ {0} /\ DOMAIN s = 1..Len(s) /\ DOMAIN Tail(s) = 1..Len(Tail(s))
  BY <1>1, LenProperties, EmptySeq
<1> QED BY <1>1, <1>2

LEMMA BothOf ==
    ASSUME NEW S, NEW s \in Seq(S), NEW t \in Seq(S)
    PROVE  /\ s \o t \in Seq(S) /\ Len(s \o t) = Len(s) + Len(t) /\ Len(s) \in Nat /\ Len(t) \in Nat
           /\ DOMAIN s = 1..Len(s) /\ DOMAIN t = 1..Len(t) /\ DOMAIN (s \o t) = 1..(Len(s) + Len(t))
           /\ \A i \in DOMAIN s : i \in DOMAIN (s \o t) /\ (s \o t)[i] = s[i]
           /\ \A i \in DOMAIN (s \o t) :
                 \/ i \in DOMAIN s /\ (s \o t)[i] = s[i]
                 \/ i > Len(s) /\ i - Len(s) \in DOMAIN t /\ (s \o t)[i] = t[i - Len(s)]
<1>1. /\ s \o t \in Seq(S) /\ Len(s \o t) = Len(s) + Len(t)
      /\ \A i \in 1 .. Len(s) + Len(t) : (s \o t)[i] = IF i <= Len(s) THEN s[i] ELSE t[i - Len(s)]
  BY ConcatProperties
<1>2. /\ Len(s) \in Nat /\ Len(t) \in Nat /\ DOMAIN s = 1..Len(s) /\ DOMAIN t = 1..Len(t)
      /\ DOMAIN (s \o t) = 1..Len(s \o t)
  BY <1>1, LenProperties
<1> QED BY <1>1, <1>2

LEMMA OneMessage ==
    ASSUME NEW S, NEW m \in S
    PROVE  /\ <<m>> \in Seq(S) /\ Len(<<m>>) = 1 /\ DOMAIN <<m>> = {1} /\ <<m>>[1] = m
           /\ \A s \in Seq(S) : Append(s, m) = s \o <<m>>
<1>1. \A s \in Seq(S) : Append(s, m) = s \o <<m>>
  BY AppendIsConcat
<1> QED BY <1>1

LEMMA UnsolicitedType ==
    ASSUME NEW cmd \in Commands
    PROVE  Unsolicited(cmd) \in Message /\ Unsolicited(cmd).cmd = cmd /\ Unsolicited(cmd).seq = 0
<1>1. 0 \in Numbers
  BY TestConstants DEF Numbers
<1> QED BY <1>1 DEF Unsolicited, Message, SeqNums

(* A row of requests, and its records *)
WholeRows(last) == \E k \in Nat : last = k * MAX_REQUESTS

LEMMA RowOfRequests ==
    ASSUME NEW last, WholeRows(last), NEW cmd \in Commands
    PROVE  /\ Requests(cmd, last) \in Seq(Message)
           /\ Len(Requests(cmd, last)) = MAX_REQUESTS
           /\ DOMAIN Requests(cmd, last) = 1..MAX_REQUESTS
           /\ \A i \in 1..MAX_REQUESTS :
                 /\ Requests(cmd, last)[i].cmd = cmd /\ Requests(cmd, last)[i].arg = i - 1
                 /\ last + i \in Nth(last + MAX_REQUESTS, Requests(cmd, last)[i].arg)
                 /\ Requests(cmd, last)[i].seq = NewRequest(last + i)
           /\ Records(last) \subseteq [id : Nat, ctx : Numbers]
           /\ \A r \in Records(last) : r.id \in Nth(last + MAX_REQUESTS, r.ctx)
<1>0. PICK k \in Nat : last = k * MAX_REQUESTS
  BY DEF WholeRows
<1>1. MAX_REQUESTS \in Nat /\ last \in Nat
  BY <1>0, TestConstants
<1>2. \A i \in 1..MAX_REQUESTS : i - 1 \in Numbers /\ last + i \in Nat /\ last + i + 32768 \in Nat
  BY <1>1 DEF Numbers
<1>3. \A i \in 1..MAX_REQUESTS : last + i \in Nth(last + MAX_REQUESTS, i - 1)
  BY <1>0, RowIds
<1>4. \A i \in 1..MAX_REQUESTS :
         /\ Requests(cmd, last)[i].cmd = cmd /\ Requests(cmd, last)[i].arg = i - 1
         /\ Requests(cmd, last)[i].seq = NewRequest(last + i)
  BY DEF Requests
<1>5. \A i \in 1..MAX_REQUESTS :
         [seq |-> NewRequest(last + i), cmd |-> cmd, arg |-> i - 1] \in Message
  BY <1>2 DEF Message, SeqNums, NewRequest
<1>6. Requests(cmd, last) \in [1..MAX_REQUESTS -> Message]
  BY <1>5 DEF Requests
<1>7. /\ Requests(cmd, last) \in Seq(Message) /\ Len(Requests(cmd, last)) = MAX_REQUESTS
      /\ DOMAIN Requests(cmd, last) = 1..MAX_REQUESTS
  BY <1>1, <1>6
<1>8. \A r \in Records(last) : r \in [id : Nat, ctx : Numbers] /\ r.id \in Nth(last + MAX_REQUESTS, r.ctx)
  BY <1>2, <1>3 DEF Records
<1>9. Records(last) \subseteq [id : Nat, ctx : Numbers]
  BY <1>8
<1>10. \A i \in 1..MAX_REQUESTS : last + i \in Nth(last + MAX_REQUESTS, Requests(cmd, last)[i].arg)
  BY <1>3, <1>4
<1> QED BY <1>4, <1>7, <1>8, <1>9, <1>10

-----------------------------------------------------------------------------
(* The server finds whom it answers *)

(* The last ids stay small, and are those of whole rows *)
LEMMA LastIds ==
    ASSUME FlowInv, RowInv, NEW c \in Clients
    PROVE  /\ clientLast[c] \in Nat /\ clientLast[c] < 32768
           /\ serverLast[c] \in Nat /\ serverLast[c] < 32768
           /\ WholeRows(clientLast[c]) /\ WholeRows(serverLast[c])
<1>1. MAX_REQUESTS \in Nat /\ MAX_REQUESTS >= 1 /\ Cardinality(Clients) \in Nat
  BY TestConstants, IdsDoNotWrap, FS_CardinalityType
<1>2. PICK k \in Nat :
         /\ clientLast[c] = k * MAX_REQUESTS
         /\ k + Cardinality(Broadcasts(toClient[c]))
              + Cardinality(Untold("CLIENT_TEST_BROADCAST_CLIENTCMDS")) <= Cardinality(Clients)
  BY DEF RowInv
<1>3. Cardinality(Broadcasts(toClient[c])) \in Nat
  BY BroadcastsFinite DEF FlowInv
<1>4. Cardinality(Untold("CLIENT_TEST_BROADCAST_CLIENTCMDS")) \in Nat
  <2>1. Untold("CLIENT_TEST_BROADCAST_CLIENTCMDS") \in SUBSET Clients
    BY DEF Untold
  <2> QED BY <2>1, IdsDoNotWrap, FS_Subset, FS_CardinalityType
<1>5. k <= Cardinality(Clients)
  BY <1>1, <1>2, <1>3, <1>4
<1>6. clientLast[c] \in Nat /\ clientLast[c] < 32768
  BY <1>2, <1>5, FewRows
<1>7. 1 <= Cardinality(Clients)
  BY <1>1, IdsDoNotWrap, FS_EmptySet
<1>8. 1 * MAX_REQUESTS < 32768
  BY <1>7, FewRows
<1>9. serverLast[c] = 0 * MAX_REQUESTS \/ serverLast[c] = 1 * MAX_REQUESTS
  BY <1>1 DEF RowInv
<1>10. serverLast[c] \in Nat /\ serverLast[c] < 32768
  BY <1>1, <1>8, <1>9
<1>11. WholeRows(clientLast[c]) /\ WholeRows(serverLast[c])
  BY <1>2, <1>9 DEF WholeRows
<1> QED BY <1>6, <1>10, <1>11

LEMMA ClientIds ==
    ASSUME SeatInv, NEW c \in Clients
    PROVE  IsClientId(cid[c]) /\ cid[c] \in Nat
<1>1. Cardinality(Clients) \in Nat /\ Cardinality(Clients) < 32768
  BY IdsDoNotWrap, FewRows, FS_CardinalityType
<1>2. Cardinality({d \in Clients : cid[d] = 0}) \in Nat
  BY IdsDoNotWrap, FS_Subset, FS_CardinalityType
<1>3. cid[c] \in Nat /\ cid[c] <= lastCid /\ lastCid <= Cardinality(Clients)
  BY <1>1, <1>2 DEF SeatInv
<1> QED BY <1>1, <1>3 DEF SeatInv, IsClientId

(* An id of the connection's client leads to that client *)
LEMMA FoundByCid ==
    ASSUME SeatInv, NEW c \in listed, NEW n, AF_IPC_GET_CLIENT_ID(n) = cid[c]
    PROVE  ClientWith(n) = {c}
BY DEF ClientWith, SeatInv

(* A number with no request in it *)
LEMMA UnsolicitedNumber ==
    ASSUME NEW clientId, IsClientId(clientId)
    PROVE  AF_IPC_GET_CLIENT_ID(ToApplication(clientId, 0)) = clientId
<1>1. clientId \in Nat
  BY DEF IsClientId
<1>2. AF_IPC_GET_SEQ_ID(0) = 0 /\ 0 + clientId * 65536 = clientId * 65536
  BY <1>1 DEF AF_IPC_GET_SEQ_ID
<1>3. (clientId * 65536) \div 32768 = clientId * 2 /\ (clientId * 2) % 2 = 0
  BY <1>1
<1>4. ToApplication(clientId, 0) = clientId * 65536
  BY <1>2, <1>3 DEF ToApplication, ClearNew, IsNewRequest
<1>5. (clientId * 65536) \div 65536 = clientId
  BY <1>1
<1> QED BY <1>4, <1>5 DEF AF_IPC_GET_CLIENT_ID

LEMMA Served ==
    ASSUME SeatInv, FlowInv, RowInv, ServerReads
    PROVE  /\ serving \in listed /\ serving \in Clients /\ Received \in FromClient(serving)
           /\ Received.cmd \in TestCommands => ClientWith(SeqNum) = {serving}
           /\ Received.cmd = "CLIENT_COMMANDS" =>
                /\ ClientWith(SeqNum) = {serving} /\ AF_IPC_GET_SEQ_ID(SeqNum) # 0
                /\ \E id \in Nth(clientLast[serving], Received.arg) :
                      SeqNum = ToApplication(cid[serving], NewRequest(id))
<1>1. serving \in listed /\ serving \in Clients /\ toServer[serving] # <<>>
  BY DEF ServerReads, SeatInv
<1>2. Received \in FromClient(serving)
  <2>1. toServer[serving] \in Seq(Message)
    BY <1>1 DEF FlowInv
  <2>2. Received = toServer[serving][1] /\ 1 \in DOMAIN toServer[serving]
    BY <1>1, <2>1, TailOf DEF Received
  <2> QED BY <1>1, <2>2 DEF FlowInv
<1>3. IsClientId(cid[serving])
  BY <1>1, ClientIds
<1>4. ASSUME Received.cmd \in TestCommands PROVE ClientWith(SeqNum) = {serving}
  <2>1. Received.seq = 0
    BY <1>2, <1>4 DEF FromClient, TestCommands
  <2>2. AF_IPC_GET_CLIENT_ID(SeqNum) = cid[serving]
    BY <1>3, <2>1, UnsolicitedNumber DEF SeqNum
  <2> QED BY <1>1, <2>2, FoundByCid
<1>5. ASSUME Received.cmd = "CLIENT_COMMANDS"
      PROVE  /\ ClientWith(SeqNum) = {serving} /\ AF_IPC_GET_SEQ_ID(SeqNum) # 0
             /\ \E id \in Nth(clientLast[serving], Received.arg) :
                   SeqNum = ToApplication(cid[serving], NewRequest(id))
  <2>1. PICK id \in Nth(clientLast[serving], Received.arg) : Received.seq = NewRequest(id)
    BY <1>2, <1>5 DEF FromClient, TestCommands
  <2>2. IsRequestId(id)
    BY <1>1, LastIds, NthIsRequestId
  <2>3. SeqNum = ToApplication(cid[serving], NewRequest(id))
    BY <2>1 DEF SeqNum
  <2>4. AF_IPC_GET_CLIENT_ID(SeqNum) = cid[serving] /\ AF_IPC_GET_SEQ_ID(SeqNum) = id
    BY <1>3, <2>2, <2>3, AnswerComesHome
  <2>5. AF_IPC_GET_SEQ_ID(SeqNum) # 0
    BY <2>2, <2>4 DEF IsRequestId
  <2> QED BY <1>1, <2>3, <2>4, <2>5, FoundByCid
<1> QED BY <1>1, <1>2, <1>4, <1>5

-----------------------------------------------------------------------------
(* What a step may do to the connection of client c and to the requests at *)
(* its two ends.                                                           *)
AnswerTo(m) == [seq |-> ToApplication(0, m.seq), cmd |-> "CLIENT_REPLIES", arg |-> m.arg]
ReplyOf(c, id, n) == [seq |-> ToApplication(cid[c], NewRequest(id)), cmd |-> "SERVER_REPLIES", arg |-> n]

MovesToServer(c) ==
    \/ toServer'[c] = toServer[c]
    \/ client[c] = "off" /\ \E cmd \in TestCommands : toServer'[c] = <<Unsolicited(cmd)>>
    \/ c = serving /\ toServer[c] # <<>> /\ toServer'[c] = Tail(toServer[c])
    \/ /\ session[c] = "live" /\ clientLast'[c] = clientLast[c] + MAX_REQUESTS
       /\ toServer'[c] = toServer[c] \o Requests("CLIENT_COMMANDS", clientLast[c])
    \/ /\ session[c] = "live" /\ toClient[c] # <<>>
       /\ Head(toClient[c]).cmd = "SERVER_COMMANDS_TO_CLIENT"
       /\ toServer'[c] = Append(toServer[c], AnswerTo(Head(toClient[c])))

MovesToClient(c) ==
    \/ toClient'[c] = toClient[c]
    \/ toClient[c] # <<>> /\ toClient'[c] = Tail(toClient[c])
    \/ /\ c \in listed /\ serving \in Clients
       /\ First(serving, "CLIENT_TEST_BROADCAST_CLIENTCMDS") /\ toServer'[serving] = Tail(toServer[serving])
       /\ client'[serving] = client[serving] /\ client[serving] # "off"
       /\ toClient'[c] = toClient[c] \o <<Unsolicited("SERVER_BROADCAST_TO_CLIENTS")>>
    \/ c \in listed /\ toClient'[c] = toClient[c] \o <<Unsolicited("SERVER_UNSOL_TO_CLIENT")>>
    \/ /\ c \in listed /\ serverLast'[c] = serverLast[c] + MAX_REQUESTS
       /\ toClient'[c] = toClient[c] \o Requests("SERVER_COMMANDS_TO_CLIENT", serverLast[c])
    \/ /\ c \in listed
       /\ \E n \in Numbers : \E id \in Nth(clientLast[c], n) :
             toClient'[c] = toClient[c] \o <<ReplyOf(c, id, n)>>

MovesLast(c) ==
    /\ \/ clientLast'[c] = clientLast[c]
       \/ /\ toClient[c] # <<>> /\ Head(toClient[c]).cmd = "SERVER_BROADCAST_TO_CLIENTS"
          /\ toClient'[c] = Tail(toClient[c])
          /\ clientLast'[c] = clientLast[c] + MAX_REQUESTS
    /\ \/ serverLast'[c] = serverLast[c]
       \/ /\ First(c, "CLIENT_TEST_SERVERCMDS") /\ toServer'[c] = Tail(toServer[c])
          /\ client'[c] = client[c] /\ client[c] # "off"
          /\ serverLast'[c] = serverLast[c] + MAX_REQUESTS

MovesPending(c) ==
    /\ \/ clientPending'[c] \subseteq clientPending[c]
       \/ /\ clientPending'[c] = clientPending[c] \cup Records(clientLast[c])
          /\ clientLast'[c] = clientLast[c] + MAX_REQUESTS
    /\ \/ serverPending'[c] \subseteq serverPending[c]
       \/ /\ serverPending'[c] = serverPending[c] \cup Records(serverLast[c])
          /\ serverLast'[c] = serverLast[c] + MAX_REQUESTS

MovesLife(c) ==
    /\ client'[c] = "off" => client[c] = "off"
    /\ session'[c] = "none" => session[c] = "none" /\ toServer'[c] = toServer[c]
    /\ client'[c] = "off" => session'[c] = session[c]
    /\ cid'[c] = cid[c] \/ (cid[c] = 0 /\ toClient'[c] = toClient[c])

Moves(c) ==
    MovesToServer(c) /\ MovesToClient(c) /\ MovesLast(c) /\ MovesPending(c) /\ MovesLife(c)

StayMaps ==
    /\ Maps(toServer') /\ Maps(toClient') /\ Maps(clientPending') /\ Maps(serverPending')
    /\ Maps(clientLast') /\ Maps(serverLast')

Moved == StayMaps /\ (\A c \in Clients : Moves(c)) /\ failed' = {}

(* A send reaches some of those it is for *)
LEMMA Sending ==
    ASSUME NEW to, NEW ms, ServerSends(to, ms), FlowInv
    PROVE  /\ Maps(toClient')
           /\ \A c \in Clients : \/ toClient'[c] = toClient[c]
                                 \/ c \in to /\ toClient'[c] = toClient[c] \o ms
BY DEF ServerSends, Maps

LEMMA SendingOne ==
    ASSUME NEW s, NEW ms, ServerSends({s}, ms), FlowInv
    PROVE  /\ Maps(toClient')
           /\ \A c \in Clients : \/ toClient'[c] = toClient[c]
                                 \/ c = s /\ toClient'[c] = toClient[c] \o ms
BY DEF ServerSends, Maps

(* Nothing happens to the connection of client c *)
Same(c) ==
    /\ client'[c] = client[c] /\ session'[c] = session[c] /\ cid'[c] = cid[c]
    /\ toServer'[c] = toServer[c] /\ toClient'[c] = toClient[c]
    /\ clientPending'[c] = clientPending[c] /\ serverPending'[c] = serverPending[c]
    /\ clientLast'[c] = clientLast[c] /\ serverLast'[c] = serverLast[c]

LEMMA OneMoves ==
    ASSUME NEW c \in Clients, Moves(c), \A d \in Clients \ {c} : Same(d), StayMaps, failed' = {}
    PROVE  Moved
<1>1. ASSUME NEW d \in Clients \ {c} PROVE Moves(d)
  <2>1. Same(d)
    OBVIOUS
  <2>2. MovesToServer(d) /\ MovesToClient(d) /\ MovesLast(d)
    BY <2>1 DEF Same, MovesToServer, MovesToClient, MovesLast
  <2>3. MovesPending(d) /\ MovesLife(d)
    BY <2>1 DEF Same, MovesPending, MovesLife
  <2> QED BY <2>2, <2>3 DEF Moves
<1> QED BY <1>1 DEF Moved

LEMMA QuietStep ==
    ASSUME NumberInv, UNCHANGED <<toServer, toClient, clientPending, serverPending, clientLast,
                                serverLast, failed>>,
           \A c \in Clients : MovesLife(c)
    PROVE  Moved
BY DEF Moved, Moves, MovesToServer, MovesToClient, MovesLast, MovesPending, StayMaps, Maps,
       NumberInv, FlowInv, RowInv, NoFailures

LEMMA ClientMoves ==
    ASSUME NumberInv, NEW c \in Clients, ClientStarts(c) \/ ClientStep(c) \/ ClientTimesOut(c)
    PROVE  Moved
<1> USE DEF NumberInv, Set
<1>0. /\ Maps(toServer) /\ Maps(toClient) /\ Maps(clientPending) /\ Maps(serverPending)
      /\ Maps(clientLast) /\ Maps(serverLast) /\ failed = {}
      /\ client \in [Clients -> {"off", "loop", "breaking", "done", "killed"}]
      /\ session \in [Clients -> {"none", "live", "freed"}]
      /\ client[c] \in {"off", "loop", "breaking", "done", "killed"}
      /\ session[c] \in {"none", "live", "freed"}
  BY DEF Maps, FlowInv, RowInv, SessionInv, NoFailures
<1>1. CASE ClientStarts(c)
  <2>1. mode[c] \in Modes
    BY DEF FirstInv
  <2>2. ModeCommand(c) \in TestCommands
    BY <2>1 DEF ModeCommand, TestCommands, Modes
  <2>3. client[c] = "off" /\ session[c] = "none"
    BY <1>1 DEF ClientStarts, FirstInv
  <2>4. /\ UNCHANGED <<toClient, clientPending, serverPending, clientLast, serverLast, failed, cid>>
        /\ client' = [client EXCEPT ![c] = client'[c]] /\ client'[c] # "off"
        /\ \/ /\ session' = [session EXCEPT ![c] = "live"]
              /\ toServer' = [toServer EXCEPT ![c] = <<Unsolicited(ModeCommand(c))>>]
           \/ UNCHANGED <<session, toServer>>
    BY <1>0, <1>1 DEF ClientStarts, clientEnd, serverEnd
  <2> HIDE DEF NumberInv
  <2>5. StayMaps /\ failed' = {} /\ \A d \in Clients \ {c} : Same(d)
    BY <1>0, <2>2, <2>3, <2>4 DEF StayMaps, Maps, Same
  <2>6. MovesToServer(c)
    BY <1>0, <2>2, <2>3, <2>4 DEF Maps, MovesToServer
  <2>7. MovesToClient(c) /\ MovesLast(c)
    BY <1>0, <2>2, <2>3, <2>4 DEF Maps, MovesToClient, MovesLast
  <2>8. MovesPending(c)
    BY <1>0, <2>2, <2>3, <2>4 DEF Maps, MovesPending
  <2>9. MovesLife(c)
    BY <1>0, <2>2, <2>3, <2>4 DEF MovesLife
  <2> QED BY <2>5, <2>6, <2>7, <2>8, <2>9, OneMoves DEF Moves
<1>2. CASE OnBroadcast(c)
  <2>1. /\ toClient[c] # <<>> /\ session[c] = "live" /\ client[c] # "off"
        /\ Head(toClient[c]).cmd = "SERVER_BROADCAST_TO_CLIENTS"
        /\ toClient' = [toClient EXCEPT ![c] = Tail(toClient[c])]
        /\ UNCHANGED <<serverPending, serverLast, failed, cid>>
        /\ \/ /\ toServer' = [toServer EXCEPT ![c] = toServer[c] \o Requests("CLIENT_COMMANDS", clientLast[c])]
              /\ clientPending' = [clientPending EXCEPT ![c] = clientPending[c] \cup Records(clientLast[c])]
              /\ clientLast' = [clientLast EXCEPT ![c] = clientLast[c] + MAX_REQUESTS]
              /\ UNCHANGED <<client, session>>
           \/ /\ client' = [client EXCEPT ![c] = "killed"] /\ session' = [session EXCEPT ![c] = "freed"]
              /\ UNCHANGED <<toServer, clientPending, clientLast>>
    BY <1>2 DEF OnBroadcast, ClientReads, ClientKilled, Connected, ClientRuns, clientEnd, serverEnd
  <2> HIDE DEF NumberInv
  <2>5. StayMaps /\ failed' = {} /\ \A d \in Clients \ {c} : Same(d)
    BY <1>0, <2>1 DEF StayMaps, Maps, Same
  <2>6. MovesToServer(c)
    BY <1>0, <2>1 DEF Maps, MovesToServer
  <2>7. MovesToClient(c) /\ MovesLast(c)
    BY <1>0, <2>1 DEF Maps, MovesToClient, MovesLast
  <2>8. MovesPending(c)
    BY <1>0, <2>1 DEF Maps, MovesPending
  <2>9. MovesLife(c)
    BY <1>0, <2>1 DEF MovesLife
  <2> QED BY <2>5, <2>6, <2>7, <2>8, <2>9, OneMoves DEF Moves
<1>3. CASE OnServerCommand(c)
  <2>1. /\ toClient[c] # <<>> /\ session[c] = "live" /\ client[c] # "off"
        /\ Head(toClient[c]).cmd = "SERVER_COMMANDS_TO_CLIENT"
        /\ toClient' = [toClient EXCEPT ![c] = Tail(toClient[c])]
        /\ UNCHANGED <<clientPending, clientLast, serverPending, serverLast, failed, cid>>
        /\ \/ /\ toServer' = [toServer EXCEPT ![c] = Append(toServer[c], AnswerTo(Head(toClient[c])))]
              /\ UNCHANGED session /\ client' \in {client, [client EXCEPT ![c] = "breaking"]}
           \/ /\ client' = [client EXCEPT ![c] = "killed"] /\ session' = [session EXCEPT ![c] = "freed"]
              /\ UNCHANGED toServer
    BY <1>3 DEF OnServerCommand, ClientReads, ClientKilled, Connected, ClientRuns, Counts, AnswerTo,
                clientEnd, serverEnd
  <2> HIDE DEF NumberInv
  <2>5. StayMaps /\ failed' = {} /\ \A d \in Clients \ {c} : Same(d)
    BY <1>0, <2>1 DEF StayMaps, Maps, Same
  <2>6. MovesToServer(c)
    BY <1>0, <2>1 DEF Maps, MovesToServer
  <2>7. MovesToClient(c) /\ MovesLast(c)
    BY <1>0, <2>1 DEF Maps, MovesToClient, MovesLast
  <2>8. MovesPending(c)
    BY <1>0, <2>1 DEF Maps, MovesPending
  <2>9. MovesLife(c)
    BY <1>0, <2>1 DEF MovesLife
  <2> QED BY <2>5, <2>6, <2>7, <2>8, <2>9, OneMoves DEF Moves
<1>4. CASE OnUnsolicited(c)
  <2>1. /\ toClient[c] # <<>> /\ session[c] = "live" /\ client[c] # "off"
        /\ toClient' = [toClient EXCEPT ![c] = Tail(toClient[c])]
        /\ UNCHANGED <<session, toServer, clientPending, clientLast, serverPending, serverLast, failed, cid>>
        /\ client' = [client EXCEPT ![c] = "breaking"]
    BY <1>4 DEF OnUnsolicited, ClientReads, Connected, ClientRuns, clientEnd, serverEnd
  <2> HIDE DEF NumberInv
  <2>5. StayMaps /\ failed' = {} /\ \A d \in Clients \ {c} : Same(d)
    BY <1>0, <2>1 DEF StayMaps, Maps, Same
  <2>6. MovesToServer(c)
    BY <1>0, <2>1 DEF Maps, MovesToServer
  <2>7. MovesToClient(c) /\ MovesLast(c)
    BY <1>0, <2>1 DEF Maps, MovesToClient, MovesLast
  <2>8. MovesPending(c)
    BY <1>0, <2>1 DEF Maps, MovesPending
  <2>9. MovesLife(c)
    BY <1>0, <2>1 DEF MovesLife
  <2> QED BY <2>5, <2>6, <2>7, <2>8, <2>9, OneMoves DEF Moves
<1>6. CASE OnServerGone(c) \/ ClientEnds(c)
  <2>1. /\ client[c] # "off"
        /\ UNCHANGED <<toServer, toClient, clientLast, serverPending, serverLast, failed, cid>>
        /\ clientPending' = [clientPending EXCEPT ![c] = {}]
        /\ client'[c] # "off" /\ client' = [client EXCEPT ![c] = client'[c]]
        /\ session' = [session EXCEPT ![c] = "freed"]
    BY <1>0, <1>6 DEF OnServerGone, ClientEnds, ClientRuns, serverEnd
  <2> HIDE DEF NumberInv
  <2>5. StayMaps /\ failed' = {} /\ \A d \in Clients \ {c} : Same(d)
    BY <1>0, <2>1 DEF StayMaps, Maps, Same
  <2>6. MovesToServer(c)
    BY <1>0, <2>1 DEF Maps, MovesToServer
  <2>7. MovesToClient(c) /\ MovesLast(c)
    BY <1>0, <2>1 DEF Maps, MovesToClient, MovesLast
  <2>8. MovesPending(c)
    BY <1>0, <2>1 DEF Maps, MovesPending
  <2>9. MovesLife(c)
    BY <1>0, <2>1 DEF MovesLife
  <2> QED BY <2>5, <2>6, <2>7, <2>8, <2>9, OneMoves DEF Moves
<1>7. CASE ClientTimesOut(c)
  <2>1. /\ UNCHANGED <<client, session, cid, toServer, toClient, clientLast, serverPending, serverLast, failed>>
        /\ \E r \in clientPending[c] : clientPending' = [clientPending EXCEPT ![c] = clientPending[c] \ {r}]
    BY <1>7 DEF ClientTimesOut, serverEnd, life, process
  <2> HIDE DEF NumberInv
  <2>5. StayMaps /\ failed' = {} /\ \A d \in Clients \ {c} : Same(d)
    BY <1>0, <2>1 DEF StayMaps, Maps, Same
  <2>6. MovesToServer(c)
    BY <1>0, <2>1 DEF Maps, MovesToServer
  <2>7. MovesToClient(c) /\ MovesLast(c)
    BY <1>0, <2>1 DEF Maps, MovesToClient, MovesLast
  <2>8. MovesPending(c)
    BY <1>0, <2>1 DEF Maps, MovesPending
  <2>9. MovesLife(c)
    BY <1>0, <2>1 DEF MovesLife
  <2> QED BY <2>5, <2>6, <2>7, <2>8, <2>9, OneMoves DEF Moves
<1>8. CASE OnServerReply(c)
  <2>1. /\ toClient[c] # <<>> /\ session[c] = "live" /\ client[c] # "off"
        /\ toClient' = [toClient EXCEPT ![c] = Tail(toClient[c])]
        /\ UNCHANGED <<session, toServer, clientLast, serverPending, serverLast, cid>>
        /\ client' \in {client, [client EXCEPT ![c] = "breaking"]}
        /\ clientPending' = [clientPending EXCEPT ![c] = clientPending'[c]]
        /\ clientPending'[c] \subseteq clientPending[c]
    BY <1>0, <1>8 DEF OnServerReply, ClientReads, Connected, ClientRuns, Counts, serverEnd, Maps
  <2>2. failed' = {}
    <3> DEFINE m == Head(toClient[c])
    <3>1. toClient[c] \in Seq(Message)
      BY DEF FlowInv
    <3>2. m \in FromServer(c)
      BY <2>1, <3>1, TailOf DEF FlowInv
    <3>3. \A x \in Matching(clientPending[c], m) : x.ctx = m.arg
      <4> SUFFICES ASSUME NEW x \in clientPending[c], x.id = AF_IPC_GET_SEQ_ID(m.seq)
                   PROVE  x.ctx = m.arg
        BY DEF Matching
      <4>1. clientLast[c] \in Nat /\ clientLast[c] < 32768 /\ serverLast[c] \in Nat /\ serverLast[c] < 32768
        BY LastIds
      <4>2. x.id \in Nth(clientLast[c], x.ctx) /\ x.ctx \in Numbers /\ m.arg \in Numbers
        BY <3>2 DEF FlowInv, FromServer, Message
      <4>3. ~IsCommand(m.seq)
        BY <1>8 DEF OnServerReply
      <4>4. m.seq # 0
        BY <4>3 DEF IsCommand, AF_IPC_GET_SEQ_ID
      <4>5. ASSUME NEW n, NEW id \in Nth(serverLast[c], n), m.seq = NewRequest(id) PROVE FALSE
        <5>1. IsRequestId(id)
          BY <4>1, NthIsRequestId
        <5>2. IsClientId(0)
          BY DEF IsClientId
        <5> QED BY <4>3, <4>5, <5>1, <5>2, AnswerComesHome
      <4>6. PICK id \in Nth(clientLast[c], m.arg) : m.seq = ToApplication(cid[c], NewRequest(id))
        BY <3>2, <4>4, <4>5 DEF FromServer
      <4>7. AF_IPC_GET_SEQ_ID(m.seq) = id
        BY <4>1, <4>6, NthIsRequestId, ClientIds, AnswerComesHome
      <4> QED BY <4>1, <4>2, <4>6, <4>7, NumberOfId
    <3> QED BY <1>0, <1>8, <3>3 DEF OnServerReply
  <2> HIDE DEF NumberInv
  <2>5. StayMaps /\ \A d \in Clients \ {c} : Same(d)
    BY <1>0, <2>1 DEF StayMaps, Maps, Same
  <2>6. MovesToServer(c) /\ MovesToClient(c) /\ MovesLast(c)
    BY <1>0, <2>1 DEF Maps, MovesToServer, MovesToClient, MovesLast
  <2>8. MovesPending(c)
    BY <1>0, <2>1 DEF Maps, MovesPending
  <2>9. MovesLife(c)
    BY <1>0, <2>1 DEF MovesLife
  <2> QED BY <2>2, <2>5, <2>6, <2>8, <2>9, OneMoves DEF Moves
<1> QED BY <1>1, <1>2, <1>3, <1>4, <1>6, <1>7, <1>8 DEF ClientStep

(* The server reads a command and may send for it *)
LEMMA ServerCommandMoves ==
    ASSUME NumberInv, ServerReads,
           OnTestBroadcast \/ OnTestServerCommands \/ OnTestUnsolicited \/ OnServerExit \/ OnClientCommand
    PROVE  Moved
<1> DEFINE s == serving
<1>0. /\ Maps(toServer) /\ Maps(toClient) /\ Maps(clientPending) /\ Maps(serverPending)
      /\ Maps(clientLast) /\ Maps(serverLast) /\ failed = {}
      /\ toServer \in [Clients -> Seq(Message)]
      /\ client \in [Clients -> {"off", "loop", "breaking", "done", "killed"}]
      /\ serverLast \in [Clients -> {0, MAX_REQUESTS}]
      /\ serverPending \in [Clients -> SUBSET [id : Nat, ctx : Numbers]]
  BY DEF Maps, FlowInv, RowInv, SessionInv, NoFailures, NumberInv
<1>1. /\ s \in listed /\ s \in Clients /\ toServer[s] # <<>> /\ client[s] # "off"
      /\ toServer' = [toServer EXCEPT ![s] = Tail(toServer[s])]
      /\ toServer'[s] = Tail(toServer[s])
  <2>1. s \in listed /\ s \in Clients /\ session[s] # "none"
    BY Served DEF NumberInv, SeatInv
  <2> QED BY <1>0, <2>1 DEF ServerReads, Set, NumberInv, FirstInv
<1>2. UNCHANGED <<client, session, cid, clientPending, clientLast, listed>>
  BY DEF OnTestBroadcast, OnTestServerCommands, OnTestUnsolicited, OnServerExit, OnClientCommand, clientEnd
<1>3. \A c \in Clients : MovesToServer(c) /\ MovesLife(c)
  <2> TAKE c \in Clients
  <2>1. toServer'[c] = IF c = s THEN Tail(toServer[c]) ELSE toServer[c]
    BY <1>0, <1>1
  <2>2. session[s] # "none"
    BY <1>1 DEF NumberInv, SeatInv
  <2>3. client'[c] = client[c] /\ session'[c] = session[c] /\ cid'[c] = cid[c]
    BY <1>2
  <2>4. MovesToServer(c)
    BY <1>1, <2>1 DEF MovesToServer
  <2>5. MovesLife(c)
    BY <1>1, <2>1, <2>2, <2>3 DEF MovesLife
  <2> QED BY <2>4, <2>5
<1>4. Maps(toServer') /\ Maps(clientPending') /\ Maps(clientLast')
  BY <1>0, <1>1, <1>2 DEF Maps
<1>5. CASE OnTestBroadcast
  <2>1. /\ Received.cmd = "CLIENT_TEST_BROADCAST_CLIENTCMDS"
        /\ ServerSends(listed, <<Unsolicited("SERVER_BROADCAST_TO_CLIENTS")>>)
        /\ UNCHANGED <<serverPending, serverLast, failed>>
    BY <1>5 DEF OnTestBroadcast, CommandIs, serverEnd
  <2>2. First(s, "CLIENT_TEST_BROADCAST_CLIENTCMDS")
    BY <1>1, <2>1 DEF First, Received
  <2>3. Maps(toClient') /\ \A c \in Clients :
          \/ toClient'[c] = toClient[c]
          \/ c \in listed /\ toClient'[c] = toClient[c] \o <<Unsolicited("SERVER_BROADCAST_TO_CLIENTS")>>
    BY <2>1, Sending DEF NumberInv
  <2>4. \A c \in Clients : MovesToClient(c)
    BY <1>1, <1>2, <2>2, <2>3 DEF MovesToClient
  <2>5. \A c \in Clients : MovesLast(c) /\ MovesPending(c)
    BY <1>2, <2>1 DEF MovesLast, MovesPending
  <2>6. StayMaps /\ failed' = {}
    BY <1>0, <1>4, <2>1, <2>3 DEF StayMaps
  <2> QED BY <1>3, <2>4, <2>5, <2>6 DEF Moved, Moves
<1>6. CASE OnTestServerCommands
  <2>1. Received.cmd = "CLIENT_TEST_SERVERCMDS"
    BY <1>6 DEF OnTestServerCommands, CommandIs
  <2>2. ClientWith(SeqNum) = {s}
    BY <2>1, Served DEF TestCommands, NumberInv
  <2>3. /\ ServerSends({s}, Requests("SERVER_COMMANDS_TO_CLIENT", serverLast[s]))
        /\ serverPending' = [serverPending EXCEPT ![s] = serverPending[s] \cup Records(serverLast[s])]
        /\ serverLast' = [serverLast EXCEPT ![s] = serverLast[s] + MAX_REQUESTS]
        /\ UNCHANGED failed
    BY <1>6, <2>2 DEF OnTestServerCommands, Set
  <2>4. First(s, "CLIENT_TEST_SERVERCMDS")
    BY <1>1, <2>1 DEF First, Received
  <2>5. Maps(toClient') /\ \A c \in Clients :
          \/ toClient'[c] = toClient[c]
          \/ c = s /\ toClient'[c] = toClient[c] \o Requests("SERVER_COMMANDS_TO_CLIENT", serverLast[s])
    BY <2>3, SendingOne DEF NumberInv
  <2>6. \A c \in Clients : MovesToClient(c)
    BY <1>0, <1>1, <2>3, <2>5 DEF MovesToClient
  <2>7. \A c \in Clients : MovesLast(c)
    BY <1>0, <1>1, <1>2, <2>3, <2>4 DEF MovesLast
  <2>8. \A c \in Clients : MovesPending(c)
    BY <1>0, <1>1, <1>2, <2>3 DEF MovesPending
  <2>9. StayMaps /\ failed' = {}
    BY <1>0, <1>4, <2>3, <2>5 DEF StayMaps, Maps
  <2> QED BY <1>3, <2>6, <2>7, <2>8, <2>9 DEF Moved, Moves
<1>7. CASE OnTestUnsolicited
  <2>1. /\ Received.cmd = "CLIENT_TEST_SERVERUNSOL"
        /\ UNCHANGED <<serverPending, serverLast>>
    BY <1>7 DEF OnTestUnsolicited, CommandIs, serverEnd
  <2>2. ClientWith(SeqNum) = {s}
    BY <2>1, Served DEF TestCommands, NumberInv
  <2>3. ServerSends({s}, <<Unsolicited("SERVER_UNSOL_TO_CLIENT")>>) /\ UNCHANGED failed
    BY <1>7, <2>2 DEF OnTestUnsolicited
  <2>4. Maps(toClient') /\ \A c \in Clients :
          \/ toClient'[c] = toClient[c]
          \/ c = s /\ toClient'[c] = toClient[c] \o <<Unsolicited("SERVER_UNSOL_TO_CLIENT")>>
    BY <2>3, SendingOne DEF NumberInv
  <2>5. \A c \in Clients : MovesToClient(c)
    BY <1>1, <2>4 DEF MovesToClient
  <2>6. \A c \in Clients : MovesLast(c) /\ MovesPending(c)
    BY <1>2, <2>1 DEF MovesLast, MovesPending
  <2>7. StayMaps /\ failed' = {}
    BY <1>0, <1>4, <2>1, <2>3, <2>4 DEF StayMaps
  <2> QED BY <1>3, <2>5, <2>6, <2>7 DEF Moved, Moves
<1>8. CASE OnServerExit
  <2>1. UNCHANGED <<toClient, serverPending, serverLast, failed>>
    BY <1>8 DEF OnServerExit, serverEnd
  <2>2. \A c \in Clients : MovesToClient(c)
    BY <2>1 DEF MovesToClient
  <2>3. \A c \in Clients : MovesLast(c) /\ MovesPending(c)
    BY <1>2, <2>1 DEF MovesLast, MovesPending
  <2>4. StayMaps /\ failed' = {}
    BY <1>0, <1>4, <2>1 DEF StayMaps
  <2> QED BY <1>3, <2>2, <2>3, <2>4 DEF Moved, Moves
<1>9. CASE OnClientCommand
  <2>1. /\ Received.cmd = "CLIENT_COMMANDS"
        /\ UNCHANGED <<serverPending, serverLast>>
    BY <1>9 DEF OnClientCommand, CommandIs, serverEnd
  <2>2. ClientWith(SeqNum) = {s} /\ AF_IPC_GET_SEQ_ID(SeqNum) # 0
    BY <2>1, Served DEF NumberInv
  <2>3. PICK id \in Nth(clientLast[s], Received.arg) : SeqNum = ToApplication(cid[s], NewRequest(id))
    BY <2>1, Served DEF NumberInv
  <2>4. Received.arg \in Numbers
    BY Served DEF NumberInv, FromClient, Message
  <2>5. ServerSends({s}, <<[seq |-> SeqNum, cmd |-> "SERVER_REPLIES", arg |-> Received.arg]>>)
        /\ UNCHANGED failed
    BY <1>9, <2>2 DEF OnClientCommand
  <2>6. ServerSends({s}, <<ReplyOf(s, id, Received.arg)>>)
    BY <2>3, <2>5 DEF ReplyOf
  <2>7. Maps(toClient') /\ \A c \in Clients :
          \/ toClient'[c] = toClient[c]
          \/ c = s /\ toClient'[c] = toClient[c] \o <<ReplyOf(s, id, Received.arg)>>
    BY <2>6, SendingOne DEF NumberInv
  <2>8. \A c \in Clients : MovesToClient(c)
    BY <1>1, <2>3, <2>4, <2>7 DEF MovesToClient
  <2>9. \A c \in Clients : MovesLast(c) /\ MovesPending(c)
    BY <1>2, <2>1 DEF MovesLast, MovesPending
  <2>10. StayMaps /\ failed' = {}
    BY <1>0, <1>4, <2>1, <2>5, <2>7 DEF StayMaps
  <2> QED BY <1>3, <2>8, <2>9, <2>10 DEF Moved, Moves
<1> QED BY <1>5, <1>6, <1>7, <1>8, <1>9

(* An answer finds its own request, or none *)
LEMMA ServerReplyMoves ==
    ASSUME NumberInv, OnClientReply
    PROVE  Moved
<1> DEFINE s == serving
           m == Received
<1>0. /\ Maps(toServer) /\ Maps(toClient) /\ Maps(clientPending) /\ Maps(serverPending)
      /\ Maps(clientLast) /\ Maps(serverLast) /\ failed = {}
      /\ toServer \in [Clients -> Seq(Message)]
      /\ serverPending \in [Clients -> SUBSET [id : Nat, ctx : Numbers]]
  BY DEF Maps, FlowInv, RowInv, SessionInv, NoFailures, NumberInv
<1>1. ServerReads /\ ~IsCommand(m.seq)
  BY DEF OnClientReply
<1>2. s \in Clients /\ m \in FromClient(s)
  BY <1>1, Served DEF NumberInv
<1>3. /\ toServer[s] # <<>> /\ toServer' = [toServer EXCEPT ![s] = Tail(toServer[s])]
      /\ serverPending' = [serverPending EXCEPT ![s] = serverPending[s] \ Matching(serverPending[s], m)]
      /\ UNCHANGED <<client, session, cid, toClient, clientPending, clientLast, serverLast>>
  BY <1>1 DEF OnClientReply, ServerReads, Set, life, process, clientEnd
<1>4. \A x \in Matching(serverPending[s], m) : x.ctx = m.arg
  <2> SUFFICES ASSUME NEW x \in serverPending[s], x.id = AF_IPC_GET_SEQ_ID(m.seq)
               PROVE  x.ctx = m.arg
    BY DEF Matching
  <2>1. clientLast[s] \in Nat /\ clientLast[s] < 32768 /\ serverLast[s] \in Nat /\ serverLast[s] < 32768
    BY <1>2, LastIds DEF NumberInv
  <2>2. x.id \in Nth(serverLast[s], x.ctx) /\ x.ctx \in Numbers /\ m.arg \in Numbers
    BY <1>2 DEF NumberInv, FlowInv, FromClient, Message
  <2>3. m.seq # 0
    BY <1>1 DEF IsCommand, AF_IPC_GET_SEQ_ID
  <2>4. ASSUME NEW n, NEW id \in Nth(clientLast[s], n), m.seq = NewRequest(id) PROVE FALSE
    <3>1. IsRequestId(id)
      BY <2>1, NthIsRequestId
    <3>2. IsClientId(0)
      BY DEF IsClientId
    <3> QED BY <1>1, <2>4, <3>1, <3>2, AnswerComesHome
  <2>5. m.seq \in Nth(serverLast[s], m.arg)
    BY <1>2, <2>3, <2>4 DEF FromClient
  <2>6. m.seq \in Nat /\ m.seq < 65536
    BY <2>1, <2>5, NthIsRequestId DEF IsRequestId
  <2>7. x.id = m.seq
    BY <2>6 DEF AF_IPC_GET_SEQ_ID
  <2> QED BY <2>1, <2>2, <2>5, <2>7, NumberOfId
<1>5. failed' = {}
  BY <1>0, <1>4 DEF OnClientReply
<1>6. StayMaps /\ \A d \in Clients \ {s} : Same(d)
  BY <1>0, <1>2, <1>3 DEF StayMaps, Maps, Same
<1>7. MovesToServer(s) /\ MovesToClient(s) /\ MovesLast(s)
  BY <1>0, <1>2, <1>3 DEF MovesToServer, MovesToClient, MovesLast
<1>8. MovesPending(s) /\ MovesLife(s)
  <2>1. session[s] # "none"
    BY <1>1, Served DEF NumberInv, SeatInv
  <2> QED BY <1>0, <1>2, <1>3, <2>1 DEF MovesPending, MovesLife
<1> QED BY <1>2, <1>5, <1>6, <1>7, <1>8, OneMoves DEF Moves

(* The server does something else than to read *)
LEMMA ServerOtherMoves ==
    ASSUME NumberInv,
           \/ \E c \in Clients : ServerAccepts(c) \/ ServerOnRecv(c) \/ ServerTimesOut(c)
           \/ ServerReadsNothing \/ ServerClosesClient \/ ServerEnds \/ UNCHANGED vars
    PROVE  Moved
<1>0. /\ Maps(toServer) /\ Maps(toClient) /\ Maps(clientPending) /\ Maps(serverPending)
      /\ Maps(clientLast) /\ Maps(serverLast) /\ failed = {}
      /\ cid \in [Clients -> Nat] /\ serving \in listed \cup {NoClient} /\ listed \subseteq Clients
      /\ serverPending \in [Clients -> SUBSET [id : Nat, ctx : Numbers]]
  BY DEF Maps, FlowInv, RowInv, SeatInv, NoFailures, NumberInv
<1>1. CASE \E c \in Clients : ServerAccepts(c)
  <2>1. PICK c \in Clients : ServerAccepts(c)
    BY <1>1
  <2>2. /\ UNCHANGED <<toServer, toClient, clientPending, serverPending, clientLast, serverLast, failed>>
        /\ UNCHANGED <<client, session>> /\ cid[c] = 0 /\ cid' = [cid EXCEPT ![c] = lastCid + 1]
    BY <2>1 DEF ServerAccepts, process, clientEnd, serverEnd, Set
  <2>3. \A d \in Clients : MovesLife(d)
    BY <1>0, <2>2 DEF MovesLife
  <2> QED BY <2>2, <2>3, QuietStep
<1>2. CASE (\E c \in Clients : ServerOnRecv(c)) \/ ServerReadsNothing \/ ServerEnds \/ UNCHANGED vars
  <2>1. /\ UNCHANGED <<toServer, toClient, clientPending, serverPending, clientLast, serverLast, failed>>
        /\ UNCHANGED <<client, session, cid>>
    BY <1>2 DEF ServerOnRecv, ServerReadsNothing, ServerEnds, vars, process, clientEnd, serverEnd, life
  <2>2. \A d \in Clients : MovesLife(d)
    BY <2>1 DEF MovesLife
  <2> QED BY <2>1, <2>2, QuietStep
<1>3. ASSUME NEW c \in Clients,
             UNCHANGED <<toServer, toClient, clientPending, clientLast, serverLast, failed, client, session, cid>>,
             serverPending' = [serverPending EXCEPT ![c] = serverPending'[c]],
             serverPending'[c] \subseteq serverPending[c]
      PROVE  Moved
  <2>1. StayMaps /\ \A d \in Clients \ {c} : Same(d)
    BY <1>0, <1>3 DEF StayMaps, Maps, Same
  <2>2. MovesToServer(c) /\ MovesToClient(c) /\ MovesLast(c)
    BY <1>3 DEF MovesToServer, MovesToClient, MovesLast
  <2>3. MovesPending(c) /\ MovesLife(c)
    BY <1>3 DEF MovesPending, MovesLife
  <2> QED BY <1>0, <1>3, <2>1, <2>2, <2>3, OneMoves DEF Moves
<1>4. CASE \E c \in Clients : ServerTimesOut(c)
  <2>1. PICK c \in Clients : ServerTimesOut(c)
    BY <1>4
  <2>2. /\ UNCHANGED <<toServer, toClient, clientPending, clientLast, serverLast, failed, client, session, cid>>
        /\ serverPending' = [serverPending EXCEPT ![c] = serverPending'[c]]
        /\ serverPending'[c] \subseteq serverPending[c]
    BY <1>0, <2>1 DEF ServerTimesOut, life, process, clientEnd, Set
  <2> QED BY <1>3, <2>2
<1>5. CASE ServerClosesClient
  <2>1. /\ serving \in Clients
        /\ UNCHANGED <<toServer, toClient, clientPending, clientLast, serverLast, failed, client, session, cid>>
        /\ serverPending' = [serverPending EXCEPT ![serving] = serverPending'[serving]]
        /\ serverPending'[serving] \subseteq serverPending[serving]
    BY <1>0, <1>5 DEF ServerClosesClient, process, clientEnd, Set
  <2> QED BY <1>3, <2>1
<1> QED BY <1>1, <1>2, <1>4, <1>5

LEMMA EveryStepMoves == NumberInv /\ [Next]_vars => Moved
<1> SUFFICES ASSUME NumberInv, [Next]_vars PROVE Moved
  OBVIOUS
<1>1. CASE \E c \in Clients : ClientStarts(c) \/ ClientStep(c) \/ ClientTimesOut(c)
  BY <1>1, ClientMoves
<1>2. CASE OnTestBroadcast \/ OnTestServerCommands \/ OnTestUnsolicited \/ OnServerExit \/ OnClientCommand
  <2>1. ServerReads
    BY <1>2 DEF OnTestBroadcast, OnTestServerCommands, OnTestUnsolicited, OnServerExit, OnClientCommand,
                CommandIs
  <2> QED BY <1>2, <2>1, ServerCommandMoves
<1>3. CASE OnClientReply
  BY <1>3, ServerReplyMoves
<1>4. CASE \/ \E c \in Clients : ServerAccepts(c) \/ ServerOnRecv(c) \/ ServerTimesOut(c)
           \/ ServerReadsNothing \/ ServerClosesClient \/ ServerEnds \/ UNCHANGED vars
  BY <1>4, ServerOtherMoves
<1> QED BY <1>1, <1>2, <1>3, <1>4 DEF Next, ServerStep, Ended

-----------------------------------------------------------------------------
(* A step keeps what is known of the messages *)
LEMMA NumberBack ==
    ASSUME NEW clientId, IsClientId(clientId), NEW id, IsRequestId(id)
    PROVE  ToApplication(clientId, NewRequest(id)) = id + clientId * 65536
           /\ ToApplication(clientId, NewRequest(id)) \in Nat
<1>1. clientId \in Nat /\ id \in Nat /\ id < 32768
  BY DEF IsRequestId, IsClientId
<1>2. AF_IPC_GET_SEQ_ID(NewRequest(id)) = id + 32768
  BY <1>1 DEF AF_IPC_GET_SEQ_ID, NewRequest
<1>3. ToApplication(clientId, NewRequest(id)) = id + clientId * 65536
  BY <1>1, <1>2, NewBit DEF ToApplication
<1> QED BY <1>1, <1>3

(* The last ids grow, and what was sent stays what may have been sent *)
LEMMA MovesGrow ==
    ASSUME NumberInv, Moved, NEW c \in Clients
    PROVE  /\ FromClient(c) \subseteq FromClient(c)'
           /\ cid'[c] = cid[c] => FromServer(c) \subseteq FromServer(c)'
           /\ clientLast'[c] \in Nat /\ serverLast'[c] \in Nat
           /\ \A n : Nth(clientLast[c], n) \subseteq Nth(clientLast'[c], n)
           /\ \A n : Nth(serverLast[c], n) \subseteq Nth(serverLast'[c], n)
<1>1. MAX_REQUESTS \in Nat /\ clientLast[c] \in Nat /\ serverLast[c] \in Nat
  BY TestConstants, LastIds DEF NumberInv
<1>2. /\ clientLast'[c] \in Nat /\ clientLast[c] <= clientLast'[c]
      /\ serverLast'[c] \in Nat /\ serverLast[c] <= serverLast'[c]
  BY <1>1 DEF Moved, Moves, MovesLast
<1>3. /\ \A n : Nth(clientLast[c], n) \subseteq Nth(clientLast'[c], n)
      /\ \A n : Nth(serverLast[c], n) \subseteq Nth(serverLast'[c], n)
  BY <1>1, <1>2, NthGrows
<1>4. FromClient(c) \subseteq FromClient(c)'
  BY <1>3 DEF FromClient
<1>5. cid'[c] = cid[c] => FromServer(c) \subseteq FromServer(c)'
  BY <1>3 DEF FromServer
<1> QED BY <1>2, <1>3, <1>4, <1>5

(* What goes to the server *)
LEMMA ToServerKept ==
    ASSUME NumberInv, Moved, NEW c \in Clients
    PROVE  /\ toServer'[c] \in Seq(Message)
           /\ \A i \in DOMAIN toServer'[c] : toServer'[c][i] \in FromClient(c)'
           /\ (\A i \in 2..Len(toServer[c]) : toServer[c][i].cmd \notin TestCommands) =>
                 \A i \in 2..Len(toServer'[c]) : toServer'[c][i].cmd \notin TestCommands
           /\ \A cmd \in TestCommands : First(c, cmd)' =>
                First(c, cmd) \/ client[c] = "off"
           /\ toServer[c] # <<>> /\ toServer'[c] = Tail(toServer[c]) =>
                \A cmd \in TestCommands : ~First(c, cmd)'
<1> DEFINE s == toServer[c]
<1>1. /\ s \in Seq(Message) /\ \A i \in DOMAIN s : s[i] \in FromClient(c)
      /\ MovesToServer(c)
      /\ \A i \in 2..Len(s) : s[i].cmd \notin TestCommands
  BY DEF NumberInv, FlowInv, FirstInv, Moved, Moves
<1>2. FromClient(c) \subseteq FromClient(c)'
  BY MovesGrow
<1>3. CASE toServer'[c] = s
  <2>1. ASSUME s # <<>> PROVE s # Tail(s)
    <3>1. Len(s) \in Nat \ {0} /\ Len(Tail(s)) = Len(s) - 1
      BY <1>1, <2>1, TailOf
    <3>2. Len(Tail(s)) # Len(s)
      BY <3>1
    <3> QED BY <3>2
  <2> QED BY <1>1, <1>2, <1>3, <2>1 DEF First
<1>4. CASE client[c] = "off" /\ \E cmd \in TestCommands : toServer'[c] = <<Unsolicited(cmd)>>
  <2>1. PICK cmd \in TestCommands : toServer'[c] = <<Unsolicited(cmd)>>
    BY <1>4
  <2>2. cmd \in Commands
    BY DEF TestCommands, Commands
  <2>3. Unsolicited(cmd) \in Message /\ Unsolicited(cmd).cmd \in TestCommands /\ Unsolicited(cmd).seq = 0
    BY <2>2, UnsolicitedType
  <2>4. Unsolicited(cmd) \in FromClient(c)'
    BY <2>3 DEF FromClient
  <2>5. toServer'[c] \in Seq(Message) /\ DOMAIN toServer'[c] = {1} /\ Len(toServer'[c]) = 1
        /\ toServer'[c][1] = Unsolicited(cmd)
    BY <2>1, <2>3, OneMessage
  <2>6. session[c] = "none" /\ s = <<>>
    BY <1>4 DEF NumberInv, FirstInv
  <2>7. \A i \in 2..Len(toServer'[c]) : FALSE
    BY <2>5
  <2>8. \A i \in DOMAIN toServer'[c] : toServer'[c][i] \in FromClient(c)'
    BY <2>4, <2>5
  <2> QED BY <1>4, <2>5, <2>6, <2>7, <2>8
<1>5. CASE s # <<>> /\ toServer'[c] = Tail(s)
  <2>1. \A i \in DOMAIN Tail(s) : i + 1 \in 2..Len(s) /\ i + 1 \in DOMAIN s /\ Tail(s)[i] = s[i + 1]
    BY <1>1, <1>5, TailOf
  <2>2. Tail(s) \in Seq(Message) /\ DOMAIN Tail(s) = 1..Len(Tail(s)) /\ Len(Tail(s)) \in Nat
    BY <1>1, <1>5, TailOf, LenProperties
  <2>3. Tail(s) # <<>> => 1 \in DOMAIN Tail(s) /\ Head(Tail(s)) = Tail(s)[1]
    BY <2>2, TailOf
  <2>4. \A cmd \in TestCommands : ~First(c, cmd)'
    BY <1>1, <1>5, <2>1, <2>3 DEF First
  <2>5. \A i \in 2..Len(Tail(s)) : i \in DOMAIN Tail(s)
    BY <2>2
  <2> QED BY <1>1, <1>2, <1>5, <2>1, <2>2, <2>4, <2>5
<1>6. ASSUME NEW t \in Seq(Message), toServer'[c] = s \o t, Len(t) > 0,
             \A i \in DOMAIN t : t[i] \in FromClient(c)' /\ t[i].cmd \notin TestCommands
      PROVE  /\ s \o t \in Seq(Message)
             /\ \A i \in DOMAIN (s \o t) : (s \o t)[i] \in FromClient(c)'
             /\ \A i \in 2..Len(s \o t) : (s \o t)[i].cmd \notin TestCommands
             /\ \A cmd \in TestCommands : First(c, cmd)' => First(c, cmd)
             /\ s # <<>> => s \o t # Tail(s)
  <2>1. /\ s \o t \in Seq(Message) /\ Len(s \o t) = Len(s) + Len(t) /\ Len(s) \in Nat /\ Len(t) \in Nat
        /\ DOMAIN s = 1..Len(s) /\ DOMAIN t = 1..Len(t) /\ DOMAIN (s \o t) = 1..(Len(s) + Len(t))
        /\ \A i \in DOMAIN s : i \in DOMAIN (s \o t) /\ (s \o t)[i] = s[i]
        /\ \A i \in DOMAIN (s \o t) :
              \/ i \in DOMAIN s /\ (s \o t)[i] = s[i]
              \/ i > Len(s) /\ i - Len(s) \in DOMAIN t /\ (s \o t)[i] = t[i - Len(s)]
    BY <1>1, BothOf
  <2>2. \A i \in DOMAIN (s \o t) : (s \o t)[i] \in FromClient(c)'
    BY <1>1, <1>2, <1>6, <2>1
  <2>3. \A i \in 2..Len(s \o t) : (s \o t)[i].cmd \notin TestCommands
    <3> SUFFICES ASSUME NEW i \in 2..Len(s \o t) PROVE (s \o t)[i].cmd \notin TestCommands
      OBVIOUS
    <3>1. i \in DOMAIN (s \o t) /\ (i \in DOMAIN s => i \in 2..Len(s))
      BY <2>1
    <3> QED BY <1>1, <1>6, <2>1, <3>1
  <2>4. Len(Tail(s)) = Len(s) - 1 \/ s = <<>>
    BY <1>1, TailOf
  <2>5. s # <<>> => s \o t # Tail(s)
    BY <1>6, <2>1, <2>4
  <2>6. s \o t # <<>> /\ Head(s \o t) = (s \o t)[1] /\ 1 \in DOMAIN (s \o t)
    <3>1. s \o t # <<>>
      BY <1>6, <2>1, EmptySeq
    <3> QED BY <2>1, <3>1, TailOf
  <2>7. CASE s = <<>>
    <3>1. 1 \notin DOMAIN s
      BY <2>7
    <3>2. (s \o t)[1] = t[1 - Len(s)] /\ 1 - Len(s) \in DOMAIN t
      BY <2>1, <2>6, <3>1
    <3>3. \A cmd \in TestCommands : ~First(c, cmd)'
      BY <1>6, <2>6, <3>2 DEF First
    <3> QED BY <2>1, <2>2, <2>3, <2>5, <3>3
  <2>8. CASE s # <<>>
    <3>1. Head(s \o t) = Head(s)
      BY <1>1, <2>1, <2>6, <2>8, TailOf
    <3>2. \A cmd \in TestCommands : First(c, cmd)' => First(c, cmd)
      BY <1>6, <2>8, <3>1 DEF First
    <3> QED BY <2>1, <2>2, <2>3, <2>5, <3>2
  <2> QED BY <2>7, <2>8
<1>7. CASE /\ clientLast'[c] = clientLast[c] + MAX_REQUESTS
           /\ toServer'[c] = s \o Requests("CLIENT_COMMANDS", clientLast[c])
  <2> DEFINE t == Requests("CLIENT_COMMANDS", clientLast[c])
  <2>0. MAX_REQUESTS \in Nat \ {0}
    BY TestConstants
  <2>1. WholeRows(clientLast[c])
    BY LastIds DEF NumberInv
  <2>2. /\ t \in Seq(Message) /\ Len(t) = MAX_REQUESTS /\ DOMAIN t = 1..MAX_REQUESTS
        /\ \A i \in 1..MAX_REQUESTS :
              /\ t[i].cmd = "CLIENT_COMMANDS"
              /\ clientLast[c] + i \in Nth(clientLast[c] + MAX_REQUESTS, t[i].arg)
              /\ t[i].seq = NewRequest(clientLast[c] + i)
    BY <2>1, RowOfRequests DEF Commands
  <2> HIDE DEF t
  <2>3. \A i \in DOMAIN t : t[i] \in FromClient(c)' /\ t[i].cmd \notin TestCommands
    <3> SUFFICES ASSUME NEW i \in DOMAIN t PROVE t[i] \in FromClient(c)' /\ t[i].cmd \notin TestCommands
      OBVIOUS
    <3>1. t[i] \in Message /\ t[i].cmd = "CLIENT_COMMANDS"
          /\ \E id \in Nth(clientLast'[c], t[i].arg) : t[i].seq = NewRequest(id)
      BY <1>7, <2>2
    <3> QED BY <3>1 DEF FromClient, TestCommands
  <2>4. toServer'[c] = s \o t /\ Len(t) > 0
    BY <1>7, <2>0, <2>2 DEF t
  <2> QED BY <1>6, <2>2, <2>3, <2>4
<1>8. CASE /\ toClient[c] # <<>> /\ Head(toClient[c]).cmd = "SERVER_COMMANDS_TO_CLIENT"
           /\ toServer'[c] = Append(s, AnswerTo(Head(toClient[c])))
  <2> DEFINE m == Head(toClient[c])
             a == AnswerTo(m)
  <2>1. m \in FromServer(c)
    <3>1. toClient[c] \in Seq(Message)
      BY DEF NumberInv, FlowInv
    <3> QED BY <1>8, <3>1, TailOf DEF NumberInv, FlowInv
  <2>2. PICK id \in Nth(serverLast[c], m.arg) : m.seq = NewRequest(id)
    BY <1>8, <2>1 DEF FromServer
  <2>3. IsRequestId(id) /\ id \in Nat
    BY LastIds, NthIsRequestId DEF NumberInv
  <2>4. ToApplication(0, m.seq) = id
    <3>1. IsClientId(0)
      BY DEF IsClientId
    <3>2. id + 0 * 65536 = id
      BY <2>3
    <3> QED BY <2>2, <2>3, <3>1, <3>2, NumberBack
  <2>5. m.arg \in Numbers
    BY <2>1 DEF FromServer, Message
  <2>6. a \in Message /\ a.cmd = "CLIENT_REPLIES" /\ a.seq = id /\ a.arg = m.arg
    BY <2>3, <2>4, <2>5 DEF AnswerTo, Message, Commands, SeqNums
  <2> HIDE DEF a
  <2>7. a \in FromClient(c)' /\ a.cmd \notin TestCommands
    <3>1. id \in Nth(serverLast'[c], a.arg)
      BY <2>2, <2>6, MovesGrow
    <3> QED BY <2>6, <3>1 DEF FromClient, TestCommands
  <2>8. /\ <<a>> \in Seq(Message) /\ Len(<<a>>) > 0 /\ DOMAIN <<a>> = {1} /\ <<a>>[1] = a
        /\ toServer'[c] = s \o <<a>>
    BY <1>1, <1>8, <2>6, OneMessage DEF a
  <2> QED BY <1>6, <2>7, <2>8
<1> QED BY <1>1, <1>3, <1>4, <1>5, <1>7, <1>8 DEF MovesToServer

(* What comes from the server *)
LEMMA ToClientKept ==
    ASSUME NumberInv, Moved, NEW c \in Clients
    PROVE  /\ toClient'[c] \in Seq(Message)
           /\ \A i \in DOMAIN toClient'[c] : toClient'[c][i] \in FromServer(c)'
           /\ cid'[c] = 0 => toClient'[c] = <<>>
<1> DEFINE s == toClient[c]
<1>1. /\ s \in Seq(Message) /\ \A i \in DOMAIN s : s[i] \in FromServer(c)
      /\ MovesToClient(c) /\ MovesLife(c)
      /\ cid[c] = 0 => s = <<>>
      /\ c \in listed => cid[c] # 0
  BY DEF NumberInv, FlowInv, SeatInv, Moved, Moves
<1>2. CASE cid'[c] # cid[c]
  <2>1. toClient'[c] = <<>>
    BY <1>1, <1>2 DEF MovesLife
  <2>2. <<>> \in Seq(Message) /\ DOMAIN <<>> = {}
    OBVIOUS
  <2> QED BY <2>1, <2>2
<1>3. CASE cid'[c] = cid[c]
  <2>0. FromServer(c) \subseteq FromServer(c)'
    BY <1>3, MovesGrow
  <2>1. CASE toClient'[c] = s
    BY <1>1, <1>3, <2>0, <2>1
  <2>2. CASE s # <<>> /\ toClient'[c] = Tail(s)
    <3>1. \A i \in DOMAIN Tail(s) : i + 1 \in DOMAIN s /\ Tail(s)[i] = s[i + 1]
      BY <1>1, <2>2, TailOf
    <3>2. Tail(s) \in Seq(Message)
      BY <1>1, <2>2, TailOf
    <3> QED BY <1>1, <1>3, <2>0, <2>2, <3>1, <3>2
  <2>3. ASSUME NEW t \in Seq(Message), toClient'[c] = s \o t, c \in listed,
               \A i \in DOMAIN t : t[i] \in FromServer(c)'
        PROVE  /\ toClient'[c] \in Seq(Message)
               /\ \A i \in DOMAIN toClient'[c] : toClient'[c][i] \in FromServer(c)'
    <3>1. /\ s \o t \in Seq(Message)
          /\ \A i \in DOMAIN (s \o t) :
                \/ i \in DOMAIN s /\ (s \o t)[i] = s[i]
                \/ i > Len(s) /\ i - Len(s) \in DOMAIN t /\ (s \o t)[i] = t[i - Len(s)]
      BY <1>1, BothOf
    <3> QED BY <1>1, <2>0, <2>3, <3>1
  <2>4. ASSUME NEW cmd \in {"SERVER_BROADCAST_TO_CLIENTS", "SERVER_UNSOL_TO_CLIENT"}, c \in listed,
               toClient'[c] = s \o <<Unsolicited(cmd)>>
        PROVE  /\ toClient'[c] \in Seq(Message)
               /\ \A i \in DOMAIN toClient'[c] : toClient'[c][i] \in FromServer(c)'
    <3> DEFINE u == Unsolicited(cmd)
    <3>1. u \in Message /\ u.cmd = cmd /\ u.seq = 0
      BY UnsolicitedType DEF Commands
    <3> HIDE DEF u
    <3>2. u \in FromServer(c)'
      BY <3>1 DEF FromServer
    <3>3. <<u>> \in Seq(Message) /\ DOMAIN <<u>> = {1} /\ <<u>>[1] = u
      BY <3>1, OneMessage
    <3>4. toClient'[c] = s \o <<u>>
      BY <2>4 DEF u
    <3> QED BY <2>3, <2>4, <3>2, <3>3, <3>4
  <2>5. CASE /\ c \in listed /\ serverLast'[c] = serverLast[c] + MAX_REQUESTS
             /\ toClient'[c] = s \o Requests("SERVER_COMMANDS_TO_CLIENT", serverLast[c])
    <3> DEFINE t == Requests("SERVER_COMMANDS_TO_CLIENT", serverLast[c])
    <3>1. WholeRows(serverLast[c])
      BY LastIds DEF NumberInv
    <3>0. "SERVER_COMMANDS_TO_CLIENT" \in Commands
      BY DEF Commands
    <3>2. /\ t \in Seq(Message) /\ Len(t) = MAX_REQUESTS /\ DOMAIN t = 1..MAX_REQUESTS
          /\ \A i \in 1..MAX_REQUESTS :
                /\ t[i].cmd = "SERVER_COMMANDS_TO_CLIENT"
                /\ serverLast[c] + i \in Nth(serverLast[c] + MAX_REQUESTS, t[i].arg)
                /\ t[i].seq = NewRequest(serverLast[c] + i)
      BY <3>0, <3>1, RowOfRequests
    <3> HIDE DEF t
    <3>3. \A i \in DOMAIN t : t[i] \in FromServer(c)'
      <4> SUFFICES ASSUME NEW i \in DOMAIN t PROVE t[i] \in FromServer(c)'
        OBVIOUS
      <4>1. t[i] \in Message /\ t[i].cmd = "SERVER_COMMANDS_TO_CLIENT"
            /\ \E id \in Nth(serverLast'[c], t[i].arg) : t[i].seq = NewRequest(id)
        <5>1. i \in 1..MAX_REQUESTS /\ t[i] \in Message
          BY <3>2
        <5>2. serverLast[c] + i \in Nth(serverLast'[c], t[i].arg) /\ t[i].seq = NewRequest(serverLast[c] + i)
          BY <2>5, <3>2, <5>1
        <5> QED BY <3>2, <5>1, <5>2
      <4> QED BY <4>1 DEF FromServer
    <3>4. toClient'[c] = s \o t
      BY <2>5 DEF t
    <3> QED BY <1>1, <1>3, <2>3, <2>5, <3>2, <3>3, <3>4
  <2>6. ASSUME c \in listed, NEW n \in Numbers, NEW id \in Nth(clientLast[c], n),
               toClient'[c] = s \o <<ReplyOf(c, id, n)>>
        PROVE  /\ toClient'[c] \in Seq(Message)
               /\ \A i \in DOMAIN toClient'[c] : toClient'[c][i] \in FromServer(c)'
    <3> DEFINE u == ReplyOf(c, id, n)
    <3>1. ToApplication(cid[c], NewRequest(id)) \in Nat
      <4>1. IsRequestId(id)
        BY LastIds, NthIsRequestId DEF NumberInv
      <4>2. IsClientId(cid[c])
        BY ClientIds DEF NumberInv
      <4> QED BY <4>1, <4>2, NumberBack
    <3>2. /\ u \in Message /\ u.cmd = "SERVER_REPLIES" /\ u.arg = n
          /\ u.seq = ToApplication(cid[c], NewRequest(id))
      BY <3>1 DEF ReplyOf, Message, Commands, SeqNums
    <3> HIDE DEF u
    <3>3. id \in Nth(clientLast'[c], n)
      BY MovesGrow
    <3>4. \E j \in Nth(clientLast'[c], u.arg) : u.seq = ToApplication(cid'[c], NewRequest(j))
      BY <1>3, <3>2, <3>3
    <3>5. u \in FromServer(c)'
      BY <3>2, <3>4 DEF FromServer
    <3>6. <<u>> \in Seq(Message) /\ DOMAIN <<u>> = {1} /\ <<u>>[1] = u
      BY <3>2, OneMessage
    <3>7. toClient'[c] = s \o <<u>>
      BY <2>6 DEF u
    <3> QED BY <2>3, <2>6, <3>5, <3>6, <3>7
  <2>7. cid'[c] = 0 => toClient'[c] = <<>>
    BY <1>1, <1>3 DEF MovesToClient
  <2>8. /\ toClient'[c] \in Seq(Message)
        /\ \A i \in DOMAIN toClient'[c] : toClient'[c][i] \in FromServer(c)'
    BY <1>1, <2>1, <2>2, <2>4, <2>5, <2>6 DEF MovesToClient
  <2> QED BY <2>7, <2>8
<1> QED BY <1>2, <1>3

(* What is waited for *)
LEMMA PendingKept ==
    ASSUME NumberInv, Moved, NEW c \in Clients
    PROVE  /\ clientPending'[c] \subseteq [id : Nat, ctx : Numbers]
           /\ serverPending'[c] \subseteq [id : Nat, ctx : Numbers]
           /\ \A r \in clientPending'[c] : r.id \in Nth(clientLast'[c], r.ctx)
           /\ \A r \in serverPending'[c] : r.id \in Nth(serverLast'[c], r.ctx)
<1>1. /\ clientPending[c] \subseteq [id : Nat, ctx : Numbers]
      /\ serverPending[c] \subseteq [id : Nat, ctx : Numbers]
      /\ \A r \in clientPending[c] : r.id \in Nth(clientLast[c], r.ctx)
      /\ \A r \in serverPending[c] : r.id \in Nth(serverLast[c], r.ctx)
      /\ MovesPending(c)
  BY DEF NumberInv, FlowInv, Moved, Moves
<1>2. /\ \A n : Nth(clientLast[c], n) \subseteq Nth(clientLast'[c], n)
      /\ \A n : Nth(serverLast[c], n) \subseteq Nth(serverLast'[c], n)
  BY MovesGrow
<1>3. /\ Records(clientLast[c]) \subseteq [id : Nat, ctx : Numbers]
      /\ \A r \in Records(clientLast[c]) : r.id \in Nth(clientLast[c] + MAX_REQUESTS, r.ctx)
  <2>1. "CLIENT_COMMANDS" \in Commands
    BY DEF Commands
  <2>2. WholeRows(clientLast[c])
    BY LastIds DEF NumberInv
  <2> QED BY <2>1, <2>2, RowOfRequests
<1>4. /\ Records(serverLast[c]) \subseteq [id : Nat, ctx : Numbers]
      /\ \A r \in Records(serverLast[c]) : r.id \in Nth(serverLast[c] + MAX_REQUESTS, r.ctx)
  <2>1. "CLIENT_COMMANDS" \in Commands
    BY DEF Commands
  <2>2. WholeRows(serverLast[c])
    BY LastIds DEF NumberInv
  <2> QED BY <2>1, <2>2, RowOfRequests
<1>5. /\ clientPending'[c] \subseteq [id : Nat, ctx : Numbers]
      /\ \A r \in clientPending'[c] : r.id \in Nth(clientLast'[c], r.ctx)
  BY <1>1, <1>2, <1>3 DEF MovesPending
<1>6. /\ serverPending'[c] \subseteq [id : Nat, ctx : Numbers]
      /\ \A r \in serverPending'[c] : r.id \in Nth(serverLast'[c], r.ctx)
  BY <1>1, <1>2, <1>4 DEF MovesPending
<1> QED BY <1>5, <1>6

LEMMA FlowInvNext == NumberInv /\ Moved => FlowInv'
<1> SUFFICES ASSUME NumberInv, Moved PROVE FlowInv'
  OBVIOUS
<1>1. /\ toServer' = [c \in Clients |-> toServer'[c]] /\ toClient' = [c \in Clients |-> toClient'[c]]
      /\ clientPending' = [c \in Clients |-> clientPending'[c]]
      /\ serverPending' = [c \in Clients |-> serverPending'[c]]
  BY DEF Moved, StayMaps, Maps
<1>2. toServer' \in [Clients -> Seq(Message)]
  BY <1>1, ToServerKept
<1>3. toClient' \in [Clients -> Seq(Message)]
  BY <1>1, ToClientKept
<1>4. /\ clientPending' \in [Clients -> SUBSET [id : Nat, ctx : Numbers]]
      /\ serverPending' \in [Clients -> SUBSET [id : Nat, ctx : Numbers]]
  BY <1>1, PendingKept
<1>5. /\ \A c \in Clients : \A i \in DOMAIN toServer'[c] : toServer'[c][i] \in FromClient(c)'
      /\ \A c \in Clients : \A i \in DOMAIN toClient'[c] : toClient'[c][i] \in FromServer(c)'
      /\ \A c \in Clients : \A r \in clientPending'[c] : r.id \in Nth(clientLast'[c], r.ctx)
      /\ \A c \in Clients : \A r \in serverPending'[c] : r.id \in Nth(serverLast'[c], r.ctx)
      /\ \A c \in Clients : cid'[c] = 0 => toClient'[c] = <<>>
  BY ToServerKept, ToClientKept, PendingKept
<1> QED BY <1>2, <1>3, <1>4, <1>5 DEF FlowInv

(* What is tested is said first *)
LEMMA FirstInvNext == NumberInv /\ Moved /\ mode' = mode => FirstInv'
<1> SUFFICES ASSUME NumberInv, Moved, mode' = mode PROVE FirstInv'
  OBVIOUS
<1>1. ASSUME NEW c \in Clients
      PROVE  /\ session'[c] = "none" => toServer'[c] = <<>>
             /\ client'[c] = "off" => session'[c] = "none"
             /\ \A i \in 2..Len(toServer'[c]) : toServer'[c][i].cmd \notin TestCommands
  <2>1. MovesLife(c) /\ (session[c] = "none" => toServer[c] = <<>>)
        /\ (client[c] = "off" => session[c] = "none")
        /\ \A i \in 2..Len(toServer[c]) : toServer[c][i].cmd \notin TestCommands
    BY DEF NumberInv, FirstInv, Moved, Moves
  <2>2. \A i \in 2..Len(toServer'[c]) : toServer'[c][i].cmd \notin TestCommands
    BY <2>1, ToServerKept
  <2> QED BY <2>1, <2>2 DEF MovesLife
<1> QED BY <1>1 DEF NumberInv, FirstInv

(* Rows that are asked for *)
LEMMA UntoldFinite ==
    ASSUME NEW cmd
    PROVE  /\ IsFiniteSet(Untold(cmd)) /\ Cardinality(Untold(cmd)) \in Nat
           /\ IsFiniteSet(Untold(cmd)') /\ Cardinality(Untold(cmd)') \in Nat
<1>1. Untold(cmd) \subseteq Clients /\ Untold(cmd)' \subseteq Clients
  BY DEF Untold
<1> QED BY <1>1, IdsDoNotWrap, FS_Subset, FS_CardinalityType

LEMMA UntoldShrinks ==
    ASSUME NumberInv, Moved, NEW cmd \in TestCommands
    PROVE  /\ Untold(cmd)' \subseteq Untold(cmd)
           /\ Cardinality(Untold(cmd)') <= Cardinality(Untold(cmd))
           /\ \A s \in Clients : First(s, cmd) /\ client'[s] # "off" /\ toServer'[s] = Tail(toServer[s]) =>
                 /\ s \notin Untold(cmd)'
                 /\ Cardinality(Untold(cmd)') + 1 <= Cardinality(Untold(cmd))
<1>1. Untold(cmd)' \subseteq Untold(cmd)
  <2>1. ASSUME NEW c \in Clients, client'[c] = "off" PROVE client[c] = "off"
    BY <2>1 DEF Moved, Moves, MovesLife
  <2> QED BY <2>1, ToServerKept DEF Untold
<1>2. /\ IsFiniteSet(Untold(cmd)) /\ Cardinality(Untold(cmd)) \in Nat
      /\ IsFiniteSet(Untold(cmd)') /\ Cardinality(Untold(cmd)') \in Nat
  BY UntoldFinite
<1>3. Cardinality(Untold(cmd)') <= Cardinality(Untold(cmd))
  BY <1>1, <1>2, FS_Subset
<1>4. ASSUME NEW s \in Clients, First(s, cmd), client'[s] # "off", toServer'[s] = Tail(toServer[s])
      PROVE  /\ s \notin Untold(cmd)'
             /\ Cardinality(Untold(cmd)') + 1 <= Cardinality(Untold(cmd))
  <2>1. ~First(s, cmd)'
    BY <1>4, ToServerKept DEF First
  <2>2. s \notin Untold(cmd)' /\ s \in Untold(cmd)
    BY <1>4, <2>1 DEF Untold
  <2>3. IsFiniteSet(Untold(cmd) \ {s}) /\ Cardinality(Untold(cmd) \ {s}) = Cardinality(Untold(cmd)) - 1
    BY <1>2, <2>2, FS_RemoveElement
  <2>4. Untold(cmd)' \subseteq Untold(cmd) \ {s}
    BY <1>1, <2>2
  <2>5. Cardinality(Untold(cmd)') <= Cardinality(Untold(cmd) \ {s})
    BY <2>3, <2>4, FS_Subset
  <2> QED BY <1>2, <2>2, <2>3, <2>5
<1> QED BY <1>1, <1>3, <1>4

LEMMA RowsStayFew ==
    ASSUME NumberInv, Moved, NEW c \in Clients
    PROVE  \E k \in Nat :
          /\ clientLast'[c] = k * MAX_REQUESTS
          /\ k + Cardinality(Broadcasts(toClient'[c]))
               + Cardinality(Untold("CLIENT_TEST_BROADCAST_CLIENTCMDS")') <= Cardinality(Clients)
<1> DEFINE s == toClient[c]
           t == toClient'[c]
           cmd == "CLIENT_TEST_BROADCAST_CLIENTCMDS"
           B == Cardinality(Broadcasts(s))
           B1 == Cardinality(Broadcasts(t))
           U == Cardinality(Untold(cmd))
           U1 == Cardinality(Untold(cmd)')
           N == Cardinality(Clients)
<1>1. PICK k \in Nat : clientLast[c] = k * MAX_REQUESTS /\ k + B + U <= N
  BY DEF NumberInv, RowInv
<1>2. MAX_REQUESTS \in Nat /\ N \in Nat
  BY TestConstants, IdsDoNotWrap, FS_CardinalityType
<1>3. s \in Seq(Message) /\ t \in Seq(Message)
  BY ToClientKept DEF NumberInv, FlowInv
<1>4. B \in Nat /\ B1 \in Nat
  BY <1>3, BroadcastsFinite
<1>5. cmd \in TestCommands
  BY DEF TestCommands
<1>6. U \in Nat /\ U1 \in Nat /\ U1 <= U
  BY <1>5, UntoldFinite, UntoldShrinks
<1>7. CASE clientLast'[c] # clientLast[c]
  <2>1. /\ s # <<>> /\ Head(s).cmd = "SERVER_BROADCAST_TO_CLIENTS" /\ t = Tail(s)
        /\ clientLast'[c] = clientLast[c] + MAX_REQUESTS
    BY <1>7 DEF Moved, Moves, MovesLast
  <2>2. B1 + 1 <= B
    BY <1>3, <2>1, BroadcastRead
  <2>3. (k + 1) * MAX_REQUESTS = k * MAX_REQUESTS + MAX_REQUESTS
    BY <1>2
  <2>4. k + 1 \in Nat /\ clientLast'[c] = (k + 1) * MAX_REQUESTS
    BY <1>1, <2>1, <2>3
  <2> HIDE DEF B, B1, U, U1, N
  <2>5. (k + 1) + B1 + U1 <= N
    BY <1>1, <1>2, <1>4, <1>6, <2>2
  <2> QED BY <2>4, <2>5 DEF B1, U1, N
<1>8. CASE clientLast'[c] = clientLast[c]
  <2>1. B1 + U1 <= B + U
    <3>1. CASE t = s
      BY <1>4, <1>6, <3>1
    <3>2. CASE s # <<>> /\ t = Tail(s)
      <4>1. B1 <= B
        BY <1>3, <3>2, BroadcastRead
      <4> HIDE DEF B, B1, U, U1
      <4> QED BY <1>4, <1>6, <4>1
    <3>3. CASE /\ serving \in Clients
               /\ First(serving, cmd) /\ toServer'[serving] = Tail(toServer[serving])
               /\ client'[serving] = client[serving] /\ client[serving] # "off"
               /\ t = s \o <<Unsolicited("SERVER_BROADCAST_TO_CLIENTS")>>
      <4>1. Unsolicited("SERVER_BROADCAST_TO_CLIENTS") \in Message
        BY UnsolicitedType DEF Commands
      <4>2. B1 <= B + 1
        BY <1>3, <3>3, <4>1, BroadcastSent
      <4>3. U1 + 1 <= U
        BY <1>5, <3>3, UntoldShrinks
      <4> HIDE DEF B, B1, U, U1
      <4> QED BY <1>4, <1>6, <4>2, <4>3
    <3>4. ASSUME NEW u \in Seq(Message), t = s \o u,
                 \A i \in 1..Len(u) : u[i].cmd # "SERVER_BROADCAST_TO_CLIENTS"
          PROVE  B1 + U1 <= B + U
      <4>1. B1 = B
        BY <1>3, <3>4, OtherSent
      <4> HIDE DEF B, B1, U, U1
      <4> QED BY <1>4, <1>6, <4>1
    <3>5. CASE t = s \o <<Unsolicited("SERVER_UNSOL_TO_CLIENT")>>
      <4> DEFINE m == Unsolicited("SERVER_UNSOL_TO_CLIENT")
      <4>1. m \in Message /\ m.cmd = "SERVER_UNSOL_TO_CLIENT"
        BY UnsolicitedType DEF Commands
      <4> HIDE DEF m
      <4>2. <<m>> \in Seq(Message) /\ Len(<<m>>) = 1 /\ <<m>>[1] = m
        BY <4>1, OneMessage
      <4>3. \A i \in 1..Len(<<m>>) : <<m>>[i].cmd # "SERVER_BROADCAST_TO_CLIENTS"
        BY <4>1, <4>2
      <4>4. t = s \o <<m>>
        BY <3>5 DEF m
      <4> QED BY <3>4, <4>2, <4>3, <4>4
    <3>6. CASE t = s \o Requests("SERVER_COMMANDS_TO_CLIENT", serverLast[c])
      <4> DEFINE u == Requests("SERVER_COMMANDS_TO_CLIENT", serverLast[c])
      <4>1. WholeRows(serverLast[c])
        BY LastIds DEF NumberInv
      <4>2. "SERVER_COMMANDS_TO_CLIENT" \in Commands
        BY DEF Commands
      <4>3. /\ u \in Seq(Message) /\ Len(u) = MAX_REQUESTS
            /\ \A i \in 1..MAX_REQUESTS : u[i].cmd = "SERVER_COMMANDS_TO_CLIENT"
        BY <4>1, <4>2, RowOfRequests
      <4> HIDE DEF u
      <4>4. \A i \in 1..Len(u) : u[i].cmd # "SERVER_BROADCAST_TO_CLIENTS"
        BY <4>3
      <4>5. t = s \o u
        BY <3>6 DEF u
      <4> QED BY <3>4, <4>3, <4>4, <4>5
    <3>7. ASSUME NEW n \in Numbers, NEW id \in Nth(clientLast[c], n), t = s \o <<ReplyOf(c, id, n)>>
          PROVE  B1 + U1 <= B + U
      <4> DEFINE m == ReplyOf(c, id, n)
      <4>1. m.cmd = "SERVER_REPLIES"
        BY DEF ReplyOf
      <4>2. m \in Message
        <5>1. IsRequestId(id)
          BY LastIds, NthIsRequestId DEF NumberInv
        <5>2. IsClientId(cid[c])
          BY ClientIds DEF NumberInv
        <5>3. ToApplication(cid[c], NewRequest(id)) \in Nat
          BY <5>1, <5>2, NumberBack
        <5> QED BY <5>3 DEF ReplyOf, Message, Commands, SeqNums
      <4> HIDE DEF m
      <4>3. <<m>> \in Seq(Message) /\ Len(<<m>>) = 1 /\ <<m>>[1] = m
        BY <4>2, OneMessage
      <4>4. \A i \in 1..Len(<<m>>) : <<m>>[i].cmd # "SERVER_BROADCAST_TO_CLIENTS"
        BY <4>1, <4>3
      <4>5. t = s \o <<m>>
        BY <3>7 DEF m
      <4> QED BY <3>4, <4>3, <4>4, <4>5
    <3>8. MovesToClient(c)
      BY DEF Moved, Moves
    <3> QED BY <3>1, <3>2, <3>3, <3>5, <3>6, <3>7, <3>8 DEF MovesToClient
  <2> HIDE DEF B, B1, U, U1, N
  <2>2. k + B1 + U1 <= N
    BY <1>1, <1>2, <1>4, <1>6, <2>1
  <2> QED BY <1>1, <1>8, <2>2 DEF B1, U1, N
<1> QED BY <1>7, <1>8

LEMMA RowInvNext == NumberInv /\ Moved => RowInv'
<1> SUFFICES ASSUME NumberInv, Moved PROVE RowInv'
  OBVIOUS
<1> DEFINE cmd == "CLIENT_TEST_SERVERCMDS"
<1>1. cmd \in TestCommands
  BY DEF TestCommands
<1>2. ASSUME NEW c \in Clients
      PROVE  /\ serverLast'[c] \in {0, MAX_REQUESTS}
             /\ c \in Untold(cmd)' => serverLast'[c] = 0
  <2>1. serverLast[c] \in {0, MAX_REQUESTS} /\ (c \in Untold(cmd) => serverLast[c] = 0)
    BY DEF NumberInv, RowInv
  <2>2. Untold(cmd)' \subseteq Untold(cmd)
    BY <1>1, UntoldShrinks
  <2>3. CASE serverLast'[c] = serverLast[c]
    BY <2>1, <2>2, <2>3
  <2>4. CASE serverLast'[c] # serverLast[c]
    <3>1. /\ First(c, cmd) /\ toServer'[c] = Tail(toServer[c])
          /\ client'[c] = client[c] /\ client[c] # "off"
          /\ serverLast'[c] = serverLast[c] + MAX_REQUESTS
      BY <2>4 DEF Moved, Moves, MovesLast
    <3>2. c \notin Untold(cmd)'
      BY <1>1, <3>1, UntoldShrinks
    <3>3. c \in Untold(cmd)
      BY <3>1 DEF Untold
    <3>4. 0 + MAX_REQUESTS = MAX_REQUESTS
      BY TestConstants
    <3> QED BY <2>1, <3>1, <3>2, <3>3, <3>4
  <2> QED BY <2>3, <2>4
<1>3. /\ clientLast' = [c \in Clients |-> clientLast'[c]]
      /\ serverLast' = [c \in Clients |-> serverLast'[c]]
  BY DEF Moved, StayMaps, Maps
<1>4. clientLast' \in [Clients -> Nat]
  BY <1>3, MovesGrow
<1>5. serverLast' \in [Clients -> {0, MAX_REQUESTS}]
  BY <1>2, <1>3
<1>6. \A c \in Untold(cmd)' : serverLast'[c] = 0
  BY <1>2 DEF Untold
<1> QED BY <1>4, <1>5, <1>6, RowsStayFew DEF RowInv

(* The ids of clients *)
LEMMA SeatInvNext == NumberInv /\ Moved /\ [Next]_vars => SeatInv'
<1> SUFFICES ASSUME NumberInv, Moved, [Next]_vars PROVE SeatInv'
  OBVIOUS
<1>1. /\ lastCid \in Nat /\ cid \in [Clients -> Nat]
      /\ \A c \in Clients : cid[c] <= lastCid
      /\ \A c, d \in Clients : cid[c] = cid[d] /\ cid[c] # 0 => c = d
      /\ listed \subseteq Clients /\ \A c \in listed : cid[c] # 0
      /\ \A c \in Clients : cid[c] # 0 => session[c] # "none"
      /\ serving \in listed \cup {NoClient}
      /\ lastCid + Cardinality({c \in Clients : cid[c] = 0}) <= Cardinality(Clients)
  BY DEF NumberInv, SeatInv
<1>2. \A c \in Clients : session[c] # "none" => session'[c] # "none"
  BY DEF Moved, Moves, MovesLife
<1>3. ASSUME cid' = cid, lastCid' = lastCid, listed' \subseteq listed, serving' \in listed' \cup {NoClient}
      PROVE  SeatInv'
  BY <1>1, <1>2, <1>3 DEF SeatInv
<1>4. ASSUME NEW c \in Clients, ServerAccepts(c) PROVE SeatInv'
  <2>1. /\ session[c] # "none" /\ cid[c] = 0 /\ lastCid' = lastCid + 1
        /\ cid' = [cid EXCEPT ![c] = lastCid + 1] /\ listed' = listed \cup {c}
        /\ serving = NoClient /\ serving' = NoClient
    BY <1>4 DEF ServerAccepts, Set
  <2> DEFINE Z == {d \in Clients : cid[d] = 0}
             Z1 == {d \in Clients : cid'[d] = 0}
  <2>2. Z1 = Z \ {c} /\ c \in Z /\ Z \subseteq Clients
    BY <1>1, <2>1
  <2> HIDE DEF Z, Z1
  <2>3. IsFiniteSet(Z) /\ Cardinality(Z) \in Nat /\ Cardinality(Clients) \in Nat
    BY <2>2, IdsDoNotWrap, FS_Subset, FS_CardinalityType
  <2>4. Cardinality(Z1) = Cardinality(Z) - 1
    BY <2>2, <2>3, FS_RemoveElement
  <2>5. lastCid' + Cardinality(Z1) <= Cardinality(Clients)
    <3>1. lastCid + Cardinality(Z) <= Cardinality(Clients)
      BY <1>1 DEF Z
    <3> QED BY <1>1, <2>1, <2>3, <2>4, <3>1
  <2>6. /\ lastCid' \in Nat /\ cid' \in [Clients -> Nat]
        /\ \A d \in Clients : cid'[d] <= lastCid'
        /\ \A d, e \in Clients : cid'[d] = cid'[e] /\ cid'[d] # 0 => d = e
    <3>1. \A d \in Clients : cid'[d] = IF d = c THEN lastCid + 1 ELSE cid[d]
      BY <1>1, <2>1
    <3>2. \A d \in Clients : cid[d] # lastCid + 1
      BY <1>1
    <3> QED BY <1>1, <2>1, <3>1, <3>2
  <2>7. /\ listed' \subseteq Clients /\ serving' \in listed' \cup {NoClient}
        /\ \A d \in listed' : cid'[d] # 0
        /\ \A d \in Clients : cid'[d] # 0 => session'[d] # "none"
    BY <1>1, <1>2, <2>1
  <2> QED BY <2>5, <2>6, <2>7 DEF SeatInv, Z1
<1>5. ASSUME NEW c \in Clients, ServerOnRecv(c) PROVE SeatInv'
  BY <1>3, <1>5 DEF ServerOnRecv
<1>6. CASE ServerReadsNothing
  BY <1>3, <1>6 DEF ServerReadsNothing
<1>7. CASE ServerClosesClient
  BY <1>3, <1>7 DEF ServerClosesClient
<1>8. CASE UNCHANGED <<cid, lastCid, listed, serving>>
  BY <1>1, <1>3, <1>8
<1> QED
  BY <1>4, <1>5, <1>6, <1>7, <1>8
  DEF Next, ClientStep, ServerStep, Ended, vars, life, ClientStarts, ClientTimesOut,
      OnBroadcast, OnServerCommand, OnUnsolicited, OnServerReply, OnServerGone, ClientEnds,
      ServerTimesOut, OnTestBroadcast, OnTestServerCommands, OnTestUnsolicited, OnServerExit,
      OnClientCommand, OnClientReply, ServerEnds

(* A program is started in one mode *)
LEMMA ModeStays == [Next]_vars => mode' = mode
BY DEF Next, ClientStep, ServerStep, Ended, vars, life, process, ClientStarts, ClientTimesOut,
       OnBroadcast, OnServerCommand, OnUnsolicited, OnServerReply, OnServerGone, ClientEnds,
       ServerAccepts, ServerOnRecv, ServerTimesOut, OnTestBroadcast,
       OnTestServerCommands, OnTestUnsolicited, OnServerExit, OnClientCommand, OnClientReply,
       ServerReadsNothing, ServerClosesClient, ServerEnds

LEMMA NumberInvInit == Init => NumberInv
<1> SUFFICES ASSUME Init PROVE NumberInv
  OBVIOUS
<1> USE DEF Init
<1>1. Cardinality(Clients) \in Nat /\ MAX_REQUESTS \in Nat
  BY IdsDoNotWrap, FS_CardinalityType, TestConstants
<1>2. SeatInv
  <2> DEFINE Z == {c \in Clients : cid[c] = 0}
  <2>1. Z = Clients /\ lastCid = 0
    OBVIOUS
  <2> HIDE DEF Z
  <2>2. lastCid + Cardinality(Z) <= Cardinality(Clients)
    <3> HIDE DEF Init
    <3> QED BY <1>1, <2>1
  <2> QED BY <2>2 DEF SeatInv, Z
<1>3. FlowInv
  <2>1. <<>> \in Seq(Message) /\ DOMAIN <<>> = {}
    OBVIOUS
  <2> QED BY <2>1 DEF FlowInv
<1>4. FirstInv
  <2>1. Len(<<>>) = 0 /\ 2..0 = {}
    OBVIOUS
  <2> QED BY <2>1 DEF FirstInv
<1>5. RowInv
  <2> DEFINE cmd == "CLIENT_TEST_BROADCAST_CLIENTCMDS"
  <2>1. Untold(cmd) \subseteq Clients
    BY DEF Untold
  <2>2. Cardinality(Untold(cmd)) \in Nat /\ Cardinality(Untold(cmd)) <= Cardinality(Clients)
    BY <2>1, IdsDoNotWrap, FS_Subset, FS_CardinalityType
  <2>3. \A c \in Clients : Cardinality(Broadcasts(toClient[c])) = 0
    <3>1. \A c \in Clients : Broadcasts(toClient[c]) = {}
      BY DEF Broadcasts
    <3> QED BY <3>1, FS_EmptySet
  <2>4. 0 * MAX_REQUESTS = 0
    BY <1>1
  <2>5. ASSUME NEW c \in Clients
        PROVE  \E k \in Nat :
                  /\ clientLast[c] = k * MAX_REQUESTS
                  /\ k + Cardinality(Broadcasts(toClient[c])) + Cardinality(Untold(cmd)) <= Cardinality(Clients)
    <3>1. clientLast[c] = 0 * MAX_REQUESTS
      BY <2>4
    <3>2. 0 + Cardinality(Broadcasts(toClient[c])) + Cardinality(Untold(cmd)) <= Cardinality(Clients)
      BY <1>1, <2>2, <2>3
    <3> QED BY <3>1, <3>2
  <2>6. \A c \in Untold("CLIENT_TEST_SERVERCMDS") : serverLast[c] = 0
    BY DEF Untold
  <2> QED BY <1>1, <2>5, <2>6 DEF RowInv
<1>6. SessionInv /\ NoFailures
  BY SessionInvInit DEF NoFailures
<1> QED BY <1>2, <1>3, <1>4, <1>5, <1>6 DEF NumberInv

LEMMA NumberInvNext == NumberInv /\ [Next]_vars => NumberInv'
<1> SUFFICES ASSUME NumberInv, [Next]_vars PROVE NumberInv'
  OBVIOUS
<1>1. Moved
  BY EveryStepMoves
<1>2. SessionInv'
  BY SessionInvNext DEF NumberInv
<1>3. SeatInv' /\ FlowInv' /\ FirstInv' /\ RowInv'
  BY <1>1, SeatInvNext, FlowInvNext, FirstInvNext, RowInvNext, ModeStays
<1>4. NoFailures'
  BY <1>1 DEF Moved, NoFailures
<1> QED BY <1>2, <1>3, <1>4 DEF NumberInv

(* Whatever the client programs test, together and in whatever order: no   *)
(* program counts a failure.  An answer that comes back is for the request *)
(* of the callback it is given to, or for none, and the server finds the   *)
(* client of each command it answers.                                      *)
THEOREM NoFailureIsCounted == Spec => []NoFailures
<1>1. NumberInv => NoFailures
  BY DEF NumberInv
<1> QED BY <1>1, NumberInvInit, NumberInvNext, PTL DEF Spec

-----------------------------------------------------------------------------
(* Messages on their way *)
LEMMA SaidRead ==
    ASSUME NEW s \in Seq(Message), s # <<>>
    PROVE  /\ Head(s) \in Said(s) /\ Said(Tail(s)) \subseteq Said(s)
           /\ Len(s) = 1 => Tail(s) = <<>>
           /\ Len(s) \in Nat /\ Len(Tail(s)) = Len(s) - 1
           /\ AskedOnce(s) => AskedOnce(Tail(s))
           /\ AskedOnce(s) /\ Head(s).cmd = "CLIENT_COMMANDS" =>
                \A m \in Said(Tail(s)) : m.cmd = "CLIENT_COMMANDS" => m.arg # Head(s).arg
<1>1. /\ DOMAIN s = 1..Len(s) /\ Len(s) \in Nat \ {0} /\ Head(s) = s[1] /\ 1 \in DOMAIN s
      /\ Tail(s) \in Seq(Message) /\ Len(Tail(s)) = Len(s) - 1 /\ DOMAIN Tail(s) = 1..(Len(s) - 1)
      /\ \A i \in DOMAIN Tail(s) : i + 1 \in 2..Len(s) /\ i + 1 \in DOMAIN s /\ Tail(s)[i] = s[i + 1]
  BY TailOf
<1>2. Head(s) \in Said(s) /\ Said(Tail(s)) \subseteq Said(s)
  BY <1>1 DEF Said
<1>3. Len(s) = 1 => Tail(s) = <<>>
  BY <1>1, EmptySeq
<1>4. ASSUME AskedOnce(s) PROVE AskedOnce(Tail(s))
  <2> SUFFICES ASSUME NEW i \in DOMAIN Tail(s), NEW j \in DOMAIN Tail(s),
                      Tail(s)[i].cmd = "CLIENT_COMMANDS", Tail(s)[j].cmd = "CLIENT_COMMANDS",
                      Tail(s)[i].arg = Tail(s)[j].arg
               PROVE  i = j
    BY DEF AskedOnce
  <2>1. i + 1 = j + 1
    BY <1>1, <1>4 DEF AskedOnce
  <2>2. i \in Nat /\ j \in Nat
    BY <1>1
  <2> QED BY <2>1, <2>2
<1>5. ASSUME AskedOnce(s), Head(s).cmd = "CLIENT_COMMANDS",
             NEW m \in Said(Tail(s)), m.cmd = "CLIENT_COMMANDS", m.arg = Head(s).arg
      PROVE  FALSE
  <2>1. PICK i \in DOMAIN Tail(s) : m = Tail(s)[i]
    BY DEF Said
  <2>2. i + 1 \in 2..Len(s) /\ i + 1 \in DOMAIN s /\ m = s[i + 1]
    BY <1>1, <2>1
  <2>3. i + 1 = 1
    BY <1>1, <1>5, <2>2 DEF AskedOnce
  <2> QED BY <2>2, <2>3
<1> QED BY <1>1, <1>2, <1>3, <1>4, <1>5

LEMMA SaidMore ==
    ASSUME NEW s \in Seq(Message), NEW t \in Seq(Message)
    PROVE  /\ Said(s \o t) \subseteq Said(s) \cup Said(t)
           /\ AskedOnce(s) /\ (\A m \in Said(t) : m.cmd # "CLIENT_COMMANDS") => AskedOnce(s \o t)
           /\ s = <<>> => s \o t = t
<1>1. /\ DOMAIN s = 1..Len(s) /\ DOMAIN t = 1..Len(t) /\ DOMAIN (s \o t) = 1..(Len(s) + Len(t))
      /\ \A i \in DOMAIN (s \o t) :
              \/ i \in DOMAIN s /\ (s \o t)[i] = s[i]
              \/ i > Len(s) /\ i - Len(s) \in DOMAIN t /\ (s \o t)[i] = t[i - Len(s)]
  BY BothOf
<1>2. Said(s \o t) \subseteq Said(s) \cup Said(t)
  BY <1>1 DEF Said
<1>3. ASSUME AskedOnce(s), \A m \in Said(t) : m.cmd # "CLIENT_COMMANDS" PROVE AskedOnce(s \o t)
  <2>1. \A i \in DOMAIN (s \o t) : (s \o t)[i].cmd = "CLIENT_COMMANDS" => i \in DOMAIN s /\ (s \o t)[i] = s[i]
    BY <1>1, <1>3 DEF Said
  <2> QED BY <1>3, <2>1 DEF AskedOnce
<1>4. s = <<>> => s \o t = t
  BY ConcatEmptySeq
<1> QED BY <1>2, <1>3, <1>4

LEMMA SaidOne ==
    ASSUME NEW m \in Message
    PROVE  <<m>> \in Seq(Message) /\ Said(<<m>>) = {m} /\ Len(<<m>>) = 1 /\ AskedOnce(<<m>>)
BY OneMessage DEF Said, AskedOnce

LEMMA SaidNothing == Said(<<>>) = {} /\ AskedOnce(<<>>)
BY DEF Said, AskedOnce

LEMMA SaidRow ==
    ASSUME NEW last, WholeRows(last), NEW cmd \in Commands
    PROVE  /\ Requests(cmd, last) \in Seq(Message) /\ \A m \in Said(Requests(cmd, last)) : m.cmd = cmd
           /\ AskedOnce(Requests(cmd, last))
<1> DEFINE t == Requests(cmd, last)
<1>1. /\ t \in Seq(Message) /\ DOMAIN t = 1..MAX_REQUESTS
      /\ \A i \in 1..MAX_REQUESTS : t[i].cmd = cmd /\ t[i].arg = i - 1
  BY RowOfRequests
<1> HIDE DEF t
<1>2. \A i, j \in 1..MAX_REQUESTS : i - 1 = j - 1 => i = j
  OBVIOUS
<1>3. (\A m \in Said(t) : m.cmd = cmd) /\ AskedOnce(t)
  BY <1>1, <1>2 DEF Said, AskedOnce
<1> QED BY <1>1, <1>3 DEF t

-----------------------------------------------------------------------------
(* A client program on its own *)
LEMMA RepliesMap == Maps(replies) /\ [Next]_vars => Maps(replies')
<1> SUFFICES ASSUME Maps(replies), [Next]_vars PROVE Maps(replies')
  OBVIOUS
<1>1. ASSUME NEW c \in Clients, NEW x, replies' = [replies EXCEPT ![c] = x] PROVE Maps(replies')
  BY <1>1 DEF Maps
<1>2. CASE \E c \in Clients : OnBroadcast(c) \/ OnServerCommand(c) \/ OnServerReply(c)
  <2>1. PICK c \in Clients : OnBroadcast(c) \/ OnServerCommand(c) \/ OnServerReply(c)
    BY <1>2
  <2>2. replies' = replies \/ \E x : replies' = [replies EXCEPT ![c] = x]
    <3>1. CASE OnBroadcast(c)
      BY <3>1 DEF OnBroadcast, Set
    <3>2. CASE OnServerCommand(c)
      BY <3>2 DEF OnServerCommand, Counts, Set
    <3>3. CASE OnServerReply(c)
      BY <3>3 DEF OnServerReply, Counts, Set
    <3> QED BY <2>1, <3>1, <3>2, <3>3
  <2> QED BY <1>1, <2>2
<1>3. CASE UNCHANGED replies
  BY <1>3
<1> QED
  BY <1>2, <1>3
  DEF Next, ClientStep, ServerStep, Ended, vars, ClientStarts, ClientTimesOut, OnUnsolicited,
      OnServerGone, ClientEnds, ServerAccepts, ServerOnRecv, ServerTimesOut, OnTestBroadcast,
      OnTestServerCommands, OnTestUnsolicited, OnServerExit, OnClientCommand, OnClientReply,
      ServerReadsNothing, ServerClosesClient, ServerEnds

(* Nothing that LoneTalk is about *)
Quiet(c) ==
    /\ client'[c] = client[c] /\ replies'[c] = replies[c]
    /\ toServer'[c] = toServer[c] /\ toClient'[c] = toClient[c]

LEMMA LoneQuiet ==
    ASSUME NEW c, LoneTalk(c), Quiet(c)
    PROVE  LoneTalk(c)'
BY DEF LoneTalk, Quiet

LEMMA OtherClientQuiet ==
    ASSUME NumberInv, LoneInv, NEW c \in Clients, NEW d \in Clients, c # d,
           ClientStarts(d) \/ ClientStep(d) \/ ClientTimesOut(d)
    PROVE  Quiet(c)
<1>1. Maps(client) /\ Maps(replies) /\ Maps(toServer) /\ Maps(toClient)
  BY DEF NumberInv, SessionInv, FlowInv, LoneInv, Maps
<1> USE DEF Set
<1>2. client'[c] = client[c]
  BY <1>1 DEF Maps, ClientStarts, ClientStep, ClientTimesOut, OnBroadcast, OnServerCommand, OnUnsolicited,
              OnServerReply, OnServerGone, ClientEnds, ClientKilled, Counts, life, process
<1>3. replies'[c] = replies[c]
  BY <1>1 DEF Maps, ClientStarts, ClientStep, ClientTimesOut, OnBroadcast, OnServerCommand, OnUnsolicited,
              OnServerReply, OnServerGone, ClientEnds, ClientKilled, Counts
<1>4. toServer'[c] = toServer[c]
  BY <1>1 DEF Maps, ClientStarts, ClientStep, ClientTimesOut, OnBroadcast, OnServerCommand, OnUnsolicited,
              OnServerReply, OnServerGone, ClientEnds, ClientKilled, Counts
<1>5. toClient'[c] = toClient[c]
  BY <1>1 DEF Maps, ClientStarts, ClientStep, ClientTimesOut, OnBroadcast, OnServerCommand, OnUnsolicited,
              OnServerReply, OnServerGone, ClientEnds, ClientKilled, Counts, ClientReads
<1> QED BY <1>2, <1>3, <1>4, <1>5 DEF Quiet

(* What the client program on its own does *)
LEMMA LoneClient ==
    ASSUME NumberInv, LoneInv, NEW c \in Clients, LoneTalk(c), ServerRuns, ServerRuns',
           ClientStarts(c) \/ ClientStep(c) \/ ClientTimesOut(c)
    PROVE  LoneTalk(c)'
<1> DEFINE s == toServer[c]
           t == toClient[c]
<1>0. /\ Maps(client) /\ Maps(replies) /\ Maps(toServer) /\ Maps(toClient)
      /\ s \in Seq(Message) /\ t \in Seq(Message)
      /\ \A i \in DOMAIN t : t[i] \in FromServer(c)
  BY DEF NumberInv, SessionInv, FlowInv, LoneInv, Maps
<1>1. CASE ClientStarts(c)
  <2>1. mode[c] \in Modes /\ session[c] = "none"
    BY <1>1 DEF NumberInv, FirstInv, ClientStarts
  <2>2. ModeCommand(c) \in TestCommands /\ ModeCommand(c) \in Commands
    BY <2>1 DEF ModeCommand, TestCommands, Modes, Commands
  <2>3. t = <<>>
    BY <2>1 DEF NumberInv, SeatInv, FlowInv
  <2>4. /\ client'[c] = "loop" /\ replies'[c] = replies[c] /\ toClient'[c] = <<>>
        /\ toServer'[c] = <<Unsolicited(ModeCommand(c))>>
    BY <1>0, <1>1, <2>3 DEF ClientStarts, Maps, Set
  <2> DEFINE m == Unsolicited(ModeCommand(c))
  <2>5. m \in Message /\ m.cmd \in TestCommands
    BY <2>2, UnsolicitedType
  <2> HIDE DEF m
  <2>6. Said(toServer'[c]) = {m} /\ Len(toServer'[c]) = 1 /\ AskedOnce(toServer'[c])
    BY <2>4, <2>5, SaidOne DEF m
  <2>7. Said(toClient'[c]) = {}
    BY <2>4, SaidNothing
  <2> QED BY <2>4, <2>5, <2>6, <2>7 DEF LoneTalk, TestCommands
<1>2. CASE OnBroadcast(c)
  <2>1. /\ t # <<>> /\ Head(t).cmd = "SERVER_BROADCAST_TO_CLIENTS"
        /\ toClient'[c] = Tail(t) /\ replies'[c] = {}
        /\ toServer'[c] = s \o Requests("CLIENT_COMMANDS", clientLast[c])
        /\ client'[c] = client[c]
    BY <1>0, <1>2 DEF OnBroadcast, ClientReads, Maps, Set
  <2>2. s = <<>> /\ Len(t) = 1 /\ client[c] = "loop"
    BY <1>0, <2>1, SaidRead DEF LoneTalk
  <2>3. toClient'[c] = <<>>
    BY <1>0, <2>1, <2>2, SaidRead
  <2>4. WholeRows(clientLast[c]) /\ "CLIENT_COMMANDS" \in Commands
    BY LastIds DEF NumberInv, Commands
  <2> DEFINE u == Requests("CLIENT_COMMANDS", clientLast[c])
  <2>5. u \in Seq(Message) /\ (\A m \in Said(u) : m.cmd = "CLIENT_COMMANDS") /\ AskedOnce(u)
    BY <2>4, SaidRow
  <2> HIDE DEF u
  <2>6. toServer'[c] = u
    BY <1>0, <2>1, <2>2, <2>5, SaidMore DEF u
  <2> QED BY <2>1, <2>2, <2>3, <2>5, <2>6, SaidNothing DEF LoneTalk, TestCommands
<1>3. CASE OnServerCommand(c)
  <2> DEFINE a == AnswerTo(Head(t))
  <2>1. /\ t # <<>> /\ Head(t).cmd = "SERVER_COMMANDS_TO_CLIENT"
        /\ toClient'[c] = Tail(t) /\ toServer'[c] = Append(s, a)
    BY <1>0, <1>3 DEF OnServerCommand, ClientReads, AnswerTo, Maps, Set
  <2>2. /\ Head(t) \in Said(t) /\ Said(Tail(t)) \subseteq Said(t) /\ (Len(t) = 1 => Tail(t) = <<>>)
    BY <1>0, <2>1, SaidRead
  <2>3. /\ \A m \in Said(s) : m.cmd = "CLIENT_REPLIES"
        /\ \A m \in Said(t) : m.cmd # "SERVER_REPLIES"
    BY <2>1, <2>2 DEF LoneTalk
  <2>4. a \in Message /\ a.cmd = "CLIENT_REPLIES"
    <3>1. Head(t) \in FromServer(c)
      BY <1>0, <2>1, TailOf
    <3>2. PICK id \in Nth(serverLast[c], Head(t).arg) : Head(t).seq = NewRequest(id)
      BY <2>1, <3>1 DEF FromServer
    <3>3. IsRequestId(id) /\ IsClientId(0)
      BY LastIds, NthIsRequestId DEF NumberInv, IsClientId
    <3>4. ToApplication(0, Head(t).seq) \in Nat
      BY <3>2, <3>3, NumberBack
    <3> QED BY <3>1, <3>4 DEF AnswerTo, FromServer, Message, Commands, SeqNums
  <2> HIDE DEF a
  <2>5. <<a>> \in Seq(Message) /\ Said(<<a>>) = {a} /\ toServer'[c] = s \o <<a>>
    BY <1>0, <2>1, <2>4, OneMessage, SaidOne
  <2>6. \A m \in Said(toServer'[c]) : m.cmd = "CLIENT_REPLIES"
    BY <1>0, <2>3, <2>4, <2>5, SaidMore
  <2>7. AskedOnce(toServer'[c])
    <3>1. AskedOnce(s)
      BY DEF LoneTalk
    <3> QED BY <1>0, <2>4, <2>5, <3>1, SaidMore
  <2>8. \A m \in Said(toClient'[c]) : m.cmd # "SERVER_REPLIES" /\ m.cmd # "SERVER_BROADCAST_TO_CLIENTS"
    <3>1. \A m \in Said(t) : m.cmd = "SERVER_BROADCAST_TO_CLIENTS" => Len(t) = 1
      BY DEF LoneTalk
    <3> QED BY <2>1, <2>2, <2>3, <3>1, SaidNothing
  <2> QED BY <2>6, <2>7, <2>8 DEF LoneTalk, TestCommands
<1>4. CASE OnUnsolicited(c)
  <2>1. /\ t # <<>> /\ Head(t).cmd = "SERVER_UNSOL_TO_CLIENT"
        /\ toClient'[c] = Tail(t) /\ toServer'[c] = s /\ replies'[c] = replies[c]
    BY <1>0, <1>4 DEF OnUnsolicited, ClientReads, Maps, Set
  <2>2. /\ Head(t) \in Said(t) /\ Said(Tail(t)) \subseteq Said(t) /\ (Len(t) = 1 => Tail(t) = <<>>)
    BY <1>0, <2>1, SaidRead
  <2>3. /\ \A m \in Said(s) : m.cmd = "CLIENT_REPLIES"
        /\ \A m \in Said(t) : m.cmd # "SERVER_REPLIES"
    BY <2>1, <2>2 DEF LoneTalk
  <2>4. \A m \in Said(toClient'[c]) : m.cmd # "SERVER_REPLIES" /\ m.cmd # "SERVER_BROADCAST_TO_CLIENTS"
    <3>1. \A m \in Said(t) : m.cmd = "SERVER_BROADCAST_TO_CLIENTS" => Len(t) = 1
      BY DEF LoneTalk
    <3> QED BY <2>1, <2>2, <2>3, <3>1, SaidNothing
  <2>5. AskedOnce(toServer'[c])
    BY <2>1 DEF LoneTalk
  <2> QED BY <2>1, <2>3, <2>4, <2>5 DEF LoneTalk, TestCommands
<1>5. CASE OnServerReply(c)
  <2> DEFINE n == Head(t).arg
  <2>1. /\ t # <<>> /\ ~IsCommand(Head(t).seq)
        /\ toClient'[c] = Tail(t) /\ toServer'[c] = s
        /\ \/ client'[c] = client[c] /\ replies'[c] = replies[c]
           \/ client'[c] = client[c] /\ replies'[c] = replies[c] \cup {n}
           \/ client'[c] = "breaking" /\ replies'[c] = {} /\ replies[c] \cup {n} = Numbers
    BY <1>0, <1>5 DEF OnServerReply, ClientReads, Counts, Maps, Set
  <2>2. /\ Head(t) \in Said(t) /\ Said(Tail(t)) \subseteq Said(t) /\ (Len(t) = 1 => Tail(t) = <<>>)
    BY <1>0, <2>1, SaidRead
  <2>3. Head(t).cmd = "SERVER_REPLIES"
    <3>1. Head(t) \in FromServer(c)
      BY <1>0, <2>1, TailOf
    <3>2. Head(t).seq # 0
      BY <2>1 DEF IsCommand, AF_IPC_GET_SEQ_ID
    <3>3. ASSUME NEW id \in Nth(serverLast[c], n), Head(t).seq = NewRequest(id) PROVE FALSE
      <4>1. IsRequestId(id) /\ IsClientId(0)
        BY LastIds, NthIsRequestId DEF NumberInv, IsClientId
      <4> QED BY <2>1, <3>3, <4>1, AnswerComesHome
    <3> QED BY <3>1, <3>2, <3>3 DEF FromServer
  <2>4. /\ \A m \in Said(t) : m.cmd \notin {"SERVER_COMMANDS_TO_CLIENT", "SERVER_UNSOL_TO_CLIENT"}
        /\ \A m \in Said(t) : m.cmd = "SERVER_BROADCAST_TO_CLIENTS" => Len(t) = 1
        /\ \A m \in Said(s) : m.cmd \notin TestCommands
        /\ \A m \in Said(s) : m.cmd = "CLIENT_COMMANDS" => m.arg \notin replies[c] /\ m.arg # n
        /\ AskedOnce(s)
    BY <2>1, <2>2, <2>3 DEF LoneTalk
  <2>5. \A m \in Said(toClient'[c]) :
          m.cmd \notin {"SERVER_COMMANDS_TO_CLIENT", "SERVER_UNSOL_TO_CLIENT", "SERVER_BROADCAST_TO_CLIENTS"}
    BY <2>1, <2>2, <2>4, SaidNothing
  <2>6. \A m \in Said(s) : m.cmd = "CLIENT_COMMANDS" =>
           /\ m.arg \notin replies'[c]
           /\ \A a \in Said(toClient'[c]) : a.cmd = "SERVER_REPLIES" => a.arg # m.arg
    <3>1. \A m \in Said(s) : m.cmd = "CLIENT_COMMANDS" => m.arg \notin replies'[c]
      BY <2>1, <2>4
    <3>2. \A m \in Said(s) : m.cmd = "CLIENT_COMMANDS" =>
             \A a \in Said(t) : a.cmd = "SERVER_REPLIES" => a.arg # m.arg
      BY DEF LoneTalk
    <3> QED BY <2>1, <2>2, <3>1, <3>2
  <2>7. client'[c] \in {"breaking", "done", "killed"} =>
          \A m \in Said(s) : m.cmd \in {"CLIENT_REPLIES", "CLIENT_SERVEREXIT"}
    <3>1. CASE client'[c] = client[c]
      BY <3>1 DEF LoneTalk
    <3>2. CASE replies[c] \cup {n} = Numbers
      <4>1. \A m \in Said(s) : m \in FromClient(c) /\ m.arg \in Numbers
        BY DEF Said, NumberInv, FlowInv, FromClient, Message
      <4>2. \A m \in Said(s) : m.cmd # "CLIENT_COMMANDS"
        BY <2>4, <3>2, <4>1
      <4> QED BY <2>4, <4>1, <4>2 DEF FromClient
    <3> QED BY <2>1, <3>1, <3>2
  <2> QED BY <2>1, <2>4, <2>5, <2>6, <2>7 DEF LoneTalk
<1>6. CASE ClientEnds(c)
  <2>1. /\ client[c] = "breaking" /\ client'[c] = "done" /\ replies'[c] = replies[c]
        /\ toServer'[c] = s /\ toClient'[c] = t
    BY <1>0, <1>6 DEF ClientEnds, Maps, Set
  <2> QED BY <2>1 DEF LoneTalk
<1>7. CASE ClientTimesOut(c)
  <2>1. Quiet(c)
    BY <1>7 DEF ClientTimesOut, Quiet, life, process
  <2> QED BY <2>1, LoneQuiet
<1>8. ~OnServerGone(c)
  BY DEF OnServerGone
<1> QED BY <1>1, <1>2, <1>3, <1>4, <1>5, <1>6, <1>7, <1>8 DEF ClientStep

(* A server that sends and is not killed has sent to all *)
LEMMA SentToAll ==
    ASSUME NEW to, NEW ms, ServerSends(to, ms), ServerRuns', NEW c \in Clients, c \in to
    PROVE  toClient'[c] = toClient[c] \o ms
BY DEF ServerSends, ServerRuns

(* What the server does for the client program on its own *)
LEMMA LoneServed ==
    ASSUME NumberInv, LoneInv, NEW c \in Clients, Started \subseteq {c}, LoneTalk(c), ServerRuns', ServerReads,
           \/ OnTestBroadcast \/ OnTestServerCommands \/ OnTestUnsolicited \/ OnServerExit
           \/ OnClientCommand \/ OnClientReply
    PROVE  LoneTalk(c)'
<1> DEFINE s == toServer[c]
           t == toClient[c]
           m == Head(s)
<1>0. /\ Maps(toServer) /\ s \in Seq(Message) /\ t \in Seq(Message)
  BY DEF NumberInv, FlowInv, Maps
<1>1. /\ serving = c /\ c \in listed /\ Received = m /\ m \in FromClient(c) /\ s # <<>>
      /\ toServer'[c] = Tail(s) /\ session[c] # "none" /\ client[c] # "off"
  <2>1. serving \in listed /\ serving \in Clients /\ Received \in FromClient(serving)
    BY Served DEF NumberInv
  <2>2. serving \in Started
    BY <2>1 DEF NumberInv, SeatInv, Started
  <2>3. serving = c /\ session[c] # "none"
    BY <2>2 DEF Started
  <2> QED BY <1>0, <2>1, <2>3 DEF ServerReads, Received, Maps, Set, NumberInv, FirstInv
<1>2. /\ m \in Said(s) /\ Said(Tail(s)) \subseteq Said(s) /\ (Len(s) = 1 => Tail(s) = <<>>)
      /\ AskedOnce(Tail(s))
      /\ m.cmd = "CLIENT_COMMANDS" => \A a \in Said(Tail(s)) : a.cmd = "CLIENT_COMMANDS" => a.arg # m.arg
  BY <1>0, <1>1, SaidRead DEF LoneTalk
<1>3. UNCHANGED <<client, replies>>
  BY DEF OnTestBroadcast, OnTestServerCommands, OnTestUnsolicited, OnServerExit, OnClientCommand,
         OnClientReply, life, process
<1>4. \A a \in Said(Tail(s)) : a.cmd \notin TestCommands
  <2>1. /\ \A i \in DOMAIN Tail(s) : i + 1 \in 2..Len(s) /\ Tail(s)[i] = s[i + 1]
        /\ \A i \in 2..Len(s) : s[i].cmd \notin TestCommands
    BY <1>0, <1>1, TailOf DEF NumberInv, FirstInv
  <2> QED BY <2>1 DEF Said
<1>5. ASSUME m.cmd \in TestCommands
      PROVE  /\ toServer'[c] = <<>> /\ t = <<>> /\ Said(toServer'[c]) = {} /\ AskedOnce(toServer'[c])
             /\ m.cmd # "CLIENT_SERVEREXIT" => client[c] = "loop"
  <2>1. Len(s) = 1 /\ t = <<>>
    BY <1>2, <1>5 DEF LoneTalk
  <2>2. m.cmd # "CLIENT_SERVEREXIT" => client[c] \notin {"breaking", "done", "killed"}
    BY <1>2, <1>5 DEF LoneTalk, TestCommands
  <2>3. client[c] \in {"off", "loop", "breaking", "done", "killed"}
    BY DEF NumberInv, SessionInv
  <2> QED BY <1>1, <1>2, <2>1, <2>2, <2>3, SaidNothing
<1>6. CASE OnTestBroadcast
  <2> DEFINE u == Unsolicited("SERVER_BROADCAST_TO_CLIENTS")
  <2>1. m.cmd = "CLIENT_TEST_BROADCAST_CLIENTCMDS" /\ ServerSends(listed, <<u>>)
    BY <1>1, <1>6 DEF OnTestBroadcast, CommandIs
  <2>2. u \in Message /\ u.cmd = "SERVER_BROADCAST_TO_CLIENTS"
    BY UnsolicitedType DEF Commands
  <2> HIDE DEF u
  <2>3. toServer'[c] = <<>> /\ t = <<>> /\ Said(toServer'[c]) = {} /\ AskedOnce(toServer'[c]) /\ client[c] = "loop"
    BY <1>5, <2>1 DEF TestCommands
  <2>4. toClient'[c] = t \o <<u>>
    BY <1>1, <2>1, SentToAll
  <2>5. toClient'[c] = <<u>> /\ Said(<<u>>) = {u} /\ Len(<<u>>) = 1
    BY <1>0, <2>2, <2>3, <2>4, SaidOne, SaidMore
  <2> QED BY <1>3, <2>2, <2>3, <2>5 DEF LoneTalk
<1>7. CASE OnTestServerCommands
  <2> DEFINE u == Requests("SERVER_COMMANDS_TO_CLIENT", serverLast[c])
  <2>1. m.cmd = "CLIENT_TEST_SERVERCMDS"
    BY <1>1, <1>7 DEF OnTestServerCommands, CommandIs
  <2>2. ClientWith(SeqNum) = {c}
    BY <1>1, <2>1, Served DEF NumberInv, TestCommands
  <2>3. ServerSends({c}, u)
    BY <1>7, <2>2 DEF OnTestServerCommands
  <2>4. WholeRows(serverLast[c]) /\ "SERVER_COMMANDS_TO_CLIENT" \in Commands
    BY LastIds DEF NumberInv, Commands
  <2>5. u \in Seq(Message) /\ \A a \in Said(u) : a.cmd = "SERVER_COMMANDS_TO_CLIENT"
    BY <2>4, SaidRow
  <2> HIDE DEF u
  <2>6. toServer'[c] = <<>> /\ t = <<>> /\ Said(toServer'[c]) = {} /\ AskedOnce(toServer'[c])
    BY <1>5, <2>1 DEF TestCommands
  <2>7. toClient'[c] = t \o u
    BY <2>3, SentToAll
  <2>8. toClient'[c] = u
    BY <1>0, <2>5, <2>6, <2>7, SaidMore
  <2> QED BY <1>3, <2>5, <2>6, <2>8 DEF LoneTalk
<1>8. CASE OnTestUnsolicited
  <2> DEFINE u == Unsolicited("SERVER_UNSOL_TO_CLIENT")
  <2>1. m.cmd = "CLIENT_TEST_SERVERUNSOL"
    BY <1>1, <1>8 DEF OnTestUnsolicited, CommandIs
  <2>2. ClientWith(SeqNum) = {c}
    BY <1>1, <2>1, Served DEF NumberInv, TestCommands
  <2>3. ServerSends({c}, <<u>>)
    BY <1>8, <2>2 DEF OnTestUnsolicited
  <2>4. u \in Message /\ u.cmd = "SERVER_UNSOL_TO_CLIENT"
    BY UnsolicitedType DEF Commands
  <2> HIDE DEF u
  <2>5. toServer'[c] = <<>> /\ t = <<>> /\ Said(toServer'[c]) = {} /\ AskedOnce(toServer'[c])
    BY <1>5, <2>1 DEF TestCommands
  <2>6. toClient'[c] = t \o <<u>>
    BY <2>3, SentToAll
  <2>7. toClient'[c] = <<u>> /\ Said(<<u>>) = {u}
    BY <1>0, <2>4, <2>5, <2>6, SaidOne, SaidMore
  <2> QED BY <1>3, <2>4, <2>5, <2>7 DEF LoneTalk
<1>9. CASE OnServerExit
  <2>1. m.cmd = "CLIENT_SERVEREXIT" /\ toClient'[c] = t
    BY <1>1, <1>9 DEF OnServerExit, CommandIs
  <2>2. toServer'[c] = <<>> /\ t = <<>> /\ Said(toServer'[c]) = {} /\ AskedOnce(toServer'[c])
    BY <1>5, <2>1 DEF TestCommands
  <2> QED BY <1>3, <2>1, <2>2, SaidNothing DEF LoneTalk
<1>10. ASSUME m.cmd \in {"CLIENT_COMMANDS", "CLIENT_REPLIES"}
       PROVE  /\ \A a \in Said(t) : a.cmd # "SERVER_BROADCAST_TO_CLIENTS"
              /\ client[c] \in {"breaking", "done", "killed"} =>
                    \A a \in Said(toServer'[c]) : a.cmd \in {"CLIENT_REPLIES", "CLIENT_SERVEREXIT"}
              /\ AskedOnce(toServer'[c])
  BY <1>1, <1>2 DEF LoneTalk
<1>11. CASE OnClientCommand
  <2> DEFINE u == [seq |-> SeqNum, cmd |-> "SERVER_REPLIES", arg |-> m.arg]
  <2>1. m.cmd = "CLIENT_COMMANDS"
    BY <1>1, <1>11 DEF OnClientCommand, CommandIs
  <2>2. ClientWith(SeqNum) = {c} /\ AF_IPC_GET_SEQ_ID(SeqNum) # 0
        /\ \E id \in Nth(clientLast[c], m.arg) : SeqNum = ToApplication(cid[c], NewRequest(id))
    BY <1>1, <2>1, Served DEF NumberInv
  <2>3. ServerSends({c}, <<u>>)
    BY <1>1, <1>11, <2>2 DEF OnClientCommand
  <2>4. u \in Message
    <3>1. PICK id \in Nth(clientLast[c], m.arg) : SeqNum = ToApplication(cid[c], NewRequest(id))
      BY <2>2
    <3>2. IsRequestId(id) /\ IsClientId(cid[c])
      BY LastIds, NthIsRequestId, ClientIds DEF NumberInv
    <3>3. SeqNum \in Nat
      BY <3>1, <3>2, NumberBack
    <3> QED BY <1>1, <3>3 DEF FromClient, Message, Commands, SeqNums
  <2>5. u.cmd = "SERVER_REPLIES" /\ u.arg = m.arg
    OBVIOUS
  <2> HIDE DEF u
  <2>6. toClient'[c] = t \o <<u>>
    BY <2>3, SentToAll
  <2>7. \A a \in Said(toClient'[c]) : a \in Said(t) \/ a = u
    <3>1. <<u>> \in Seq(Message) /\ Said(<<u>>) = {u}
      BY <2>4, SaidOne
    <3>2. Said(t \o <<u>>) \subseteq Said(t) \cup Said(<<u>>)
      BY <1>0, <3>1, SaidMore
    <3> QED BY <2>6, <3>1, <3>2
  <2>8. \A a \in Said(t) : a.cmd \notin {"SERVER_COMMANDS_TO_CLIENT", "SERVER_UNSOL_TO_CLIENT",
                                        "SERVER_BROADCAST_TO_CLIENTS"}
    BY <1>2, <2>1, <1>10 DEF LoneTalk
  <2>9. \A a \in Said(toServer'[c]) : a.cmd = "CLIENT_COMMANDS" =>
          /\ a.arg \notin replies[c]
          /\ \A b \in Said(toClient'[c]) : b.cmd = "SERVER_REPLIES" => b.arg # a.arg
    BY <1>1, <1>2, <2>1, <2>5, <2>7 DEF LoneTalk
  <2> QED BY <1>1, <1>3, <1>4, <1>10, <2>1, <2>5, <2>7, <2>8, <2>9 DEF LoneTalk
<1>12. CASE OnClientReply
  <2>1. toClient'[c] = t
    BY <1>12 DEF OnClientReply
  <2>2. m.cmd = "CLIENT_REPLIES"
    <3>1. ~IsCommand(m.seq)
      BY <1>1, <1>12 DEF OnClientReply
    <3>2. m.seq # 0
      BY <3>1 DEF IsCommand, AF_IPC_GET_SEQ_ID
    <3>3. ASSUME NEW id \in Nth(clientLast[c], m.arg), m.seq = NewRequest(id) PROVE FALSE
      <4>1. IsRequestId(id) /\ IsClientId(0)
        BY LastIds, NthIsRequestId DEF NumberInv, IsClientId
      <4> QED BY <3>1, <3>3, <4>1, AnswerComesHome
    <3> QED BY <1>1, <3>2, <3>3 DEF FromClient
  <2>3. \A a \in Said(toServer'[c]) : a \in Said(s) /\ a.cmd \notin TestCommands
    BY <1>1, <1>2, <1>4
  <2> QED BY <1>3, <1>10, <2>1, <2>2, <2>3 DEF LoneTalk
<1> QED BY <1>6, <1>7, <1>8, <1>9, <1>11, <1>12

LEMMA LoneInvNext == NumberInv /\ LoneInv /\ [Next]_vars => LoneInv'
<1> SUFFICES ASSUME NumberInv, LoneInv, [Next]_vars PROVE LoneInv'
  OBVIOUS
<1>1. Maps(replies')
  BY RepliesMap DEF LoneInv
<1>2. ASSUME ServerRuns', NEW c \in Clients, Started' \subseteq {c} PROVE LoneTalk(c)'
  <2>1. ServerRuns
    BY <1>2, ServerStaysGone
  <2>2. Started \subseteq Started'
    <3>1. Moved
      BY EveryStepMoves
    <3> QED BY <3>1 DEF Started, Moved, Moves, MovesLife
  <2>3. LoneTalk(c) /\ Started \subseteq {c}
    BY <1>2, <2>1, <2>2 DEF LoneInv
  <2>4. CASE \E d \in Clients : ClientStarts(d) \/ ClientStep(d) \/ ClientTimesOut(d)
    <3>1. PICK d \in Clients : ClientStarts(d) \/ ClientStep(d) \/ ClientTimesOut(d)
      BY <2>4
    <3>2. CASE d = c
      BY <1>2, <2>1, <2>3, <3>1, <3>2, LoneClient
    <3>3. CASE d # c
      BY <2>3, <3>1, <3>3, OtherClientQuiet, LoneQuiet
    <3> QED BY <3>2, <3>3
  <2>5. CASE \/ OnTestBroadcast \/ OnTestServerCommands \/ OnTestUnsolicited \/ OnServerExit
             \/ OnClientCommand \/ OnClientReply
    <3>1. ServerReads
      BY <2>5 DEF OnTestBroadcast, OnTestServerCommands, OnTestUnsolicited, OnServerExit, OnClientCommand,
                  OnClientReply, CommandIs
    <3> QED BY <1>2, <2>3, <2>5, <3>1, LoneServed
  <2>6. CASE UNCHANGED <<client, replies, toServer, toClient>>
    <3>1. Quiet(c)
      BY <2>6 DEF Quiet
    <3> QED BY <2>3, <3>1, LoneQuiet
  <2>7. \/ \E d \in Clients : ClientStarts(d) \/ ClientStep(d) \/ ClientTimesOut(d)
        \/ OnTestBroadcast \/ OnTestServerCommands \/ OnTestUnsolicited \/ OnServerExit
        \/ OnClientCommand \/ OnClientReply
        \/ UNCHANGED <<client, replies, toServer, toClient>>
    BY DEF Next, ServerStep, Ended, vars, life, process, ServerAccepts, ServerOnRecv, ServerTimesOut,
           ServerReadsNothing, ServerClosesClient, ServerEnds
  <2> QED BY <2>4, <2>5, <2>6, <2>7
<1> QED BY <1>1, <1>2 DEF LoneInv

LEMMA LoneInvInit == Init => LoneInv
<1> SUFFICES ASSUME Init PROVE LoneInv
  OBVIOUS
<1>1. ASSUME NEW c \in Clients PROVE LoneTalk(c)
  <2>1. toServer[c] = <<>> /\ toClient[c] = <<>> /\ client[c] = "off"
    BY DEF Init
  <2> QED BY <2>1, SaidNothing DEF LoneTalk
<1>2. Maps(replies)
  BY DEF Init, Maps
<1> QED BY <1>1, <1>2 DEF LoneInv

(* The server is killed in company only *)
KillInv == NumberInv /\ LoneInv /\ KilledOnlyInCompany

LEMMA StartedGrow ==
    ASSUME NumberInv, Moved
    PROVE  /\ Started \subseteq Started' /\ IsFiniteSet(Started) /\ IsFiniteSet(Started')
           /\ Cardinality(Started) \in Nat /\ Cardinality(Started') \in Nat
           /\ Cardinality(Started) <= Cardinality(Started')
<1>1. Started \subseteq Clients /\ Started' \subseteq Clients
  BY DEF Started
<1>2. Started \subseteq Started'
  BY DEF Started, Moved, Moves, MovesLife
<1>3. /\ IsFiniteSet(Started) /\ IsFiniteSet(Started')
      /\ Cardinality(Started) \in Nat /\ Cardinality(Started') \in Nat
  BY <1>1, IdsDoNotWrap, FS_Subset, FS_CardinalityType
<1> QED BY <1>2, <1>3, FS_Subset

(* A send on which the server is killed *)
LEMMA KillingSend ==
    ASSUME NumberInv, LoneInv, ServerReads, NEW to, to \subseteq listed, NEW ms, ServerSends(to, ms),
           server' = "killed", IsFiniteSet(Started),
           Received.cmd \in {"CLIENT_TEST_BROADCAST_CLIENTCMDS", "CLIENT_TEST_SERVERCMDS",
                             "CLIENT_TEST_SERVERUNSOL", "CLIENT_COMMANDS"}
    PROVE  Cardinality(Started) > 1
<1>1. /\ serving \in listed /\ serving \in Clients /\ serving \in Started /\ ServerRuns
  <2>1. serving \in listed /\ serving \in Clients
    BY Served DEF NumberInv
  <2> QED BY <2>1 DEF NumberInv, SeatInv, Started, ServerReads
<1>2. PICK d \in to : ~Connected(d)
  BY <1>1 DEF ServerSends, ServerRuns
<1>3. d \in Started
  BY <1>2 DEF NumberInv, SeatInv, Started
<1>4. CASE Started \subseteq {serving}
  <2>1. d = serving /\ LoneTalk(serving)
    BY <1>1, <1>3, <1>4 DEF LoneInv
  <2>2. client[serving] \in {"breaking", "done", "killed"}
    BY <1>1, <1>2, <2>1 DEF NumberInv, SessionInv, FirstInv, Started, Connected
  <2>3. Received \in Said(toServer[serving])
    BY <1>1, SaidRead DEF NumberInv, FlowInv, Received, ServerReads
  <2> QED BY <2>1, <2>2, <2>3 DEF LoneTalk
<1>5. CASE ~(Started \subseteq {serving})
  <2>1. PICK e \in Started : e # serving
    BY <1>5
  <2>2. {serving} \cup {e} \subseteq Started
    BY <1>1, <2>1
  <2>3. IsFiniteSet({serving}) /\ Cardinality({serving}) = 1
    BY FS_Singleton
  <2>4. Cardinality({serving} \cup {e}) = 2
    <3>1. e \notin {serving}
      BY <2>1
    <3>2. Cardinality({serving} \cup {e}) = Cardinality({serving}) + 1
      BY <2>3, <3>1, FS_AddElement
    <3> QED BY <2>3, <3>2
  <2>5. Cardinality({serving} \cup {e}) <= Cardinality(Started)
    BY <2>2, FS_Subset
  <2>6. Cardinality(Started) \in Nat
    BY FS_CardinalityType
  <2> QED BY <2>4, <2>5, <2>6
<1> QED BY <1>4, <1>5

LEMMA KilledNext == KillInv /\ [Next]_vars => KilledOnlyInCompany'
<1> SUFFICES ASSUME NumberInv, LoneInv, KilledOnlyInCompany, [Next]_vars PROVE KilledOnlyInCompany'
  BY DEF KillInv
<1>1. /\ Started \subseteq Started' /\ IsFiniteSet(Started) /\ IsFiniteSet(Started')
      /\ Cardinality(Started) \in Nat /\ Cardinality(Started') \in Nat
      /\ Cardinality(Started) <= Cardinality(Started')
  BY EveryStepMoves, StartedGrow
<1> SUFFICES ASSUME server' = "killed" PROVE Cardinality(Started) > 1
  BY <1>1 DEF KilledOnlyInCompany, Started
<1>2. CASE server = "killed"
  BY <1>2 DEF KilledOnlyInCompany, Started
<1>3. CASE OnTestBroadcast
  <2>1. ServerReads /\ Received.cmd = "CLIENT_TEST_BROADCAST_CLIENTCMDS"
        /\ ServerSends(listed, <<Unsolicited("SERVER_BROADCAST_TO_CLIENTS")>>)
    BY <1>3 DEF OnTestBroadcast, CommandIs
  <2> QED BY <1>1, <2>1, KillingSend
<1>4. CASE OnTestServerCommands /\ server # "killed"
  <2>1. ServerReads /\ Received.cmd = "CLIENT_TEST_SERVERCMDS"
    BY <1>4 DEF OnTestServerCommands, CommandIs
  <2>2. ClientWith(SeqNum) = {serving} /\ serving \in listed
    BY <2>1, Served DEF NumberInv, TestCommands
  <2>3. ServerSends({serving}, Requests("SERVER_COMMANDS_TO_CLIENT", serverLast[serving]))
    BY <1>4, <2>2 DEF OnTestServerCommands
  <2> QED BY <1>1, <2>1, <2>2, <2>3, KillingSend
<1>5. CASE OnTestUnsolicited /\ server # "killed"
  <2>1. ServerReads /\ Received.cmd = "CLIENT_TEST_SERVERUNSOL"
    BY <1>5 DEF OnTestUnsolicited, CommandIs
  <2>2. ClientWith(SeqNum) = {serving} /\ serving \in listed
    BY <2>1, Served DEF NumberInv, TestCommands
  <2>3. ServerSends({serving}, <<Unsolicited("SERVER_UNSOL_TO_CLIENT")>>)
    BY <1>5, <2>2 DEF OnTestUnsolicited
  <2> QED BY <1>1, <2>1, <2>2, <2>3, KillingSend
<1>6. CASE OnClientCommand /\ server # "killed"
  <2>1. ServerReads /\ Received.cmd = "CLIENT_COMMANDS"
    BY <1>6 DEF OnClientCommand, CommandIs
  <2>2. ClientWith(SeqNum) = {serving} /\ serving \in listed /\ AF_IPC_GET_SEQ_ID(SeqNum) # 0
    BY <2>1, Served DEF NumberInv
  <2>3. ServerSends({serving}, <<[seq |-> SeqNum, cmd |-> "SERVER_REPLIES", arg |-> Received.arg]>>)
    BY <1>6, <2>2 DEF OnClientCommand
  <2> QED BY <1>1, <2>1, <2>2, <2>3, KillingSend
<1>7. CASE UNCHANGED server
  BY <1>2, <1>7
<1> QED
  BY <1>2, <1>3, <1>4, <1>5, <1>6, <1>7
  DEF Next, ClientStep, ServerStep, Ended, vars, life, process, ClientStarts, ClientTimesOut,
      OnBroadcast, OnServerCommand, OnUnsolicited, OnServerReply, OnServerGone, ClientEnds,
      ServerAccepts, ServerOnRecv, ServerTimesOut, OnServerExit, OnClientReply,
      ServerReadsNothing, ServerClosesClient, ServerEnds

(* The server program is killed by writing to a client that has left only  *)
(* when another client program was started: one on its own leaves when it  *)
(* has been told everything.                                               *)
THEOREM KilledInCompany == Spec => []KilledOnlyInCompany
<1>1. Init => KillInv
  BY NumberInvInit, LoneInvInit DEF KillInv, KilledOnlyInCompany, Init
<1>2. KillInv /\ [Next]_vars => KillInv'
  BY NumberInvNext, LoneInvNext, KilledNext DEF KillInv
<1>3. KillInv => KilledOnlyInCompany
  BY DEF KillInv
<1> QED BY <1>1, <1>2, <1>3, PTL DEF Spec

=============================================================================

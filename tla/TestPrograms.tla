----------------------------- MODULE TestPrograms -----------------------------
(***************************************************************************)
(* The whole system at work: the server program libaf_ipc_test_server.c and  *)
(* any number of client programs libaf_ipc_test_client.c, over the library,  *)
(* with requests in both directions on one connection, broadcasts, time-outs *)
(* and programs that leave.                                                  *)
(*                                                                         *)
(* Each program is one thread.  A callback and the sends it makes are one    *)
(* action: the other programs see only what it sends, in order.  The         *)
(* connections keep messages whole (IpcFraming); the request databases are   *)
(* sets of pending requests (ReqControl shows what they do).  Sending to a   *)
(* peer that has closed its end raises SIGPIPE, which no program handles:    *)
(* the sender is killed.                                                     *)
(***************************************************************************)
EXTENDS IpcSeqNum, Sequences, FiniteSets

CONSTANTS
    Clients,      \* the client programs that are started
    NoClient,     \* the server handles no connection
    MAX_REQUESTS, \* requests in a test, 4 in the code
    Slow          \* the clients between which and the server a request may time out

ASSUME TestConstants ==
    /\ NoClient \notin Clients
    /\ MAX_REQUESTS \in Nat \ {0}
    /\ Slow \subseteq Clients

(* The ids of requests and of clients do not come round.  The most requests *)
(* are made by a client program when every other asks for a broadcast.      *)
ASSUME IdsDoNotWrap ==
    /\ IsFiniteSet(Clients)
    /\ Cardinality(Clients) * MAX_REQUESTS < 32768

Modes == {"b", "s", "u", "q"}
Numbers == 0..(MAX_REQUESTS - 1)

VARIABLES
    mode,      \* the option a client program is started with
    client,    \* the client program: "off", "loop", "breaking", "done", "killed"
    replies,   \* s_replies of the client program
    session,   \* its af_ipcc_server_t: "none", "live", "freed"
    misuse,    \* clients that used a session that was freed
    server,    \* the server program: "loop", "breaking", "done", "killed"
    serving,   \* the connection whose on_recv the server runs
    lastCid,   \* server->lastCid
    cid,       \* the id a client was accepted with, 0 before
    listed,    \* server->clients
    toServer, toClient,        \* the messages in each connection
    clientPending, serverPending,  \* the requests of each end
    clientLast, serverLast,    \* lastSeqId of each end
    failed,    \* programs whose s_failures is not 0
    expired    \* clients one of whose requests, in either direction, timed out

process == <<mode, client, server>>
life == <<process, session, misuse, serving, lastCid, cid, listed>>
clientEnd == <<clientPending, clientLast>>
serverEnd == <<serverPending, serverLast>>
vars == <<life, replies, toServer, toClient, clientEnd, serverEnd, failed, expired>>

Commands == {"CLIENT_TEST_BROADCAST_CLIENTCMDS", "CLIENT_TEST_SERVERCMDS",
             "CLIENT_TEST_SERVERUNSOL", "CLIENT_SERVEREXIT", "CLIENT_COMMANDS", "CLIENT_REPLIES",
             "SERVER_BROADCAST_TO_CLIENTS", "SERVER_COMMANDS_TO_CLIENT",
             "SERVER_UNSOL_TO_CLIENT", "SERVER_REPLIES"}
Message == [seq : SeqNums, cmd : Commands, arg : Numbers]
Pending == [id : RequestIds, ctx : Numbers]

TypeOK ==
    /\ mode \in [Clients -> Modes]
    /\ client \in [Clients -> {"off", "loop", "breaking", "done", "killed"}]
    /\ replies \in [Clients -> SUBSET Numbers]
    /\ session \in [Clients -> {"none", "live", "freed"}]
    /\ misuse \subseteq Clients
    /\ server \in {"loop", "breaking", "done", "killed"}
    /\ serving \in Clients \cup {NoClient}
    /\ lastCid \in 0..Cardinality(Clients)
    /\ cid \in [Clients -> 0..lastCid]
    /\ listed \subseteq Clients
    /\ toServer \in [Clients -> Seq(Message)]
    /\ toClient \in [Clients -> Seq(Message)]
    /\ clientPending \in [Clients -> SUBSET Pending]
    /\ serverPending \in [Clients -> SUBSET Pending]
    /\ clientLast \in [Clients -> Nat]
    /\ serverLast \in [Clients -> Nat]
    /\ failed \subseteq Clients \cup {"server"}
    /\ expired \subseteq Clients

(* The server is up; each client is about to be started in some mode *)
Init ==
    /\ mode \in [Clients -> Modes]
    /\ client = [c \in Clients |-> "off"]
    /\ replies = [c \in Clients |-> {}]
    /\ session = [c \in Clients |-> "none"]
    /\ misuse = {}
    /\ server = "loop" /\ serving = NoClient /\ lastCid = 0
    /\ cid = [c \in Clients |-> 0] /\ listed = {}
    /\ toServer = [c \in Clients |-> <<>>] /\ toClient = [c \in Clients |-> <<>>]
    /\ clientPending = [c \in Clients |-> {}] /\ serverPending = [c \in Clients |-> {}]
    /\ clientLast = [c \in Clients |-> 0] /\ serverLast = [c \in Clients |-> 0]
    /\ failed = {} /\ expired = {}

Set(f, c, v) == [f EXCEPT ![c] = v]
ServerRuns == server \in {"loop", "breaking"}
ClientRuns(c) == client[c] \in {"loop", "breaking"}
Connected(c) == session[c] = "live"

Unsolicited(cmd) == [seq |-> 0, cmd |-> cmd, arg |-> 0]

(* The requests i = 0, 1, ... that one end sends in a row, after the id     *)
(* last, and what it records of them.                                       *)
Requests(cmd, last) ==
    [i \in 1..MAX_REQUESTS |-> [seq |-> NewRequest(last + i), cmd |-> cmd, arg |-> i - 1]]
Records(last) == {[id |-> last + i, ctx |-> i - 1] : i \in 1..MAX_REQUESTS}

(* The request an answer is for *)
Matching(pending, m) == {r \in pending : r.id = AF_IPC_GET_SEQ_ID(m.seq)}

-----------------------------------------------------------------------------
(* The client program *)

(* main up to event_base_dispatch: connect and say what is to be tested *)
ModeCommand(c) ==
    CASE mode[c] = "b" -> "CLIENT_TEST_BROADCAST_CLIENTCMDS"
      [] mode[c] = "s" -> "CLIENT_TEST_SERVERCMDS"
      [] mode[c] = "u" -> "CLIENT_TEST_SERVERUNSOL"
      [] mode[c] = "q" -> "CLIENT_SERVEREXIT"

ClientStarts(c) ==
    /\ client[c] = "off"
    /\ IF ServerRuns
       THEN /\ client' = Set(client, c, "loop") /\ session' = Set(session, c, "live")
            /\ toServer' = Set(toServer, c, <<Unsolicited(ModeCommand(c))>>)
       ELSE client' = Set(client, c, "done") /\ UNCHANGED <<session, toServer>>
    /\ UNCHANGED <<mode, server, misuse, serving, lastCid, cid, listed, replies, toClient,
                   clientEnd, serverEnd, failed, expired>>

ClientKilled(c) ==
    /\ client' = Set(client, c, "killed")
    /\ session' = Set(session, c, "freed")

ClientReads(c) ==
    /\ ClientRuns(c) /\ Connected(c) /\ toClient[c] # <<>>
    /\ toClient' = Set(toClient, c, Tail(toClient[c]))

(* test_receive: SERVER_BROADCAST_TO_CLIENTS *)
OnBroadcast(c) ==
    LET m == Head(toClient[c]) IN
    /\ ClientReads(c) /\ IsCommand(m.seq) /\ m.cmd = "SERVER_BROADCAST_TO_CLIENTS"
    /\ IF ServerRuns
       THEN /\ replies' = Set(replies, c, {})
            /\ toServer' = Set(toServer, c, toServer[c] \o Requests("CLIENT_COMMANDS", clientLast[c]))
            /\ clientPending' = Set(clientPending, c, clientPending[c] \cup Records(clientLast[c]))
            /\ clientLast' = Set(clientLast, c, clientLast[c] + MAX_REQUESTS)
            /\ UNCHANGED <<client, session>>
       ELSE ClientKilled(c) /\ UNCHANGED <<replies, toServer, clientEnd>>
    /\ UNCHANGED <<mode, server, misuse, serving, lastCid, cid, listed, serverEnd, failed, expired>>

(* Mutant: the last reply is not waited for *)
CountsEarly(c, n) ==
    LET all == replies[c] \cup {n} IN
    IF Cardinality(all) >= MAX_REQUESTS - 1
    THEN /\ client' = Set(client, c, "breaking") /\ replies' = Set(replies, c, {})
    ELSE /\ replies' = Set(replies, c, all) /\ UNCHANGED client

(* Mutant: one reply more is waited for than there are *)
CountsOneMore(c, n) ==
    LET all == replies[c] \cup {n} IN
    IF all = 0..MAX_REQUESTS
    THEN /\ client' = Set(client, c, "breaking") /\ replies' = Set(replies, c, {})
    ELSE /\ replies' = Set(replies, c, all) /\ UNCHANGED client

(* A reply or a command with number n counts; with the last one the loop is *)
(* left when on_recv has returned.                                          *)
Counts(c, n) ==
    LET all == replies[c] \cup {n} IN
    IF all = Numbers
    THEN /\ client' = Set(client, c, "breaking") /\ replies' = Set(replies, c, {})
    ELSE /\ replies' = Set(replies, c, all) /\ UNCHANGED client

(* test_receive: SERVER_COMMANDS_TO_CLIENT *)
OnServerCommand(c) ==
    LET m == Head(toClient[c])
        answer == [seq |-> ToApplication(0, m.seq), cmd |-> "CLIENT_REPLIES", arg |-> m.arg]
    IN
    /\ ClientReads(c) /\ IsCommand(m.seq) /\ m.cmd = "SERVER_COMMANDS_TO_CLIENT"
    /\ IF ServerRuns
       THEN /\ toServer' = Set(toServer, c, Append(toServer[c], answer))
            /\ Counts(c, m.arg)
            /\ UNCHANGED session
       ELSE ClientKilled(c) /\ UNCHANGED <<replies, toServer>>
    /\ UNCHANGED <<mode, server, misuse, serving, lastCid, cid, listed, clientEnd, serverEnd, failed, expired>>

(* test_receive: SERVER_UNSOL_TO_CLIENT *)
OnUnsolicited(c) ==
    LET m == Head(toClient[c]) IN
    /\ ClientReads(c) /\ IsCommand(m.seq) /\ m.cmd = "SERVER_UNSOL_TO_CLIENT"
    /\ client' = Set(client, c, "breaking")
    /\ UNCHANGED <<mode, server, session, misuse, serving, lastCid, cid, listed, replies, toServer,
                   clientEnd, serverEnd, failed, expired>>

(* An answer: it is dropped when no request waits for it; else test_receive *)
(* compares SERVER_REPLIES with the context of the request.                 *)
OnServerReply(c) ==
    LET m == Head(toClient[c])
        r == Matching(clientPending[c], m)
    IN
    /\ ClientReads(c) /\ ~IsCommand(m.seq)
    /\ clientPending' = Set(clientPending, c, clientPending[c] \ r)
    /\ IF \E x \in r : x.ctx = m.arg
       THEN Counts(c, m.arg)
       ELSE UNCHANGED <<client, replies>>
    /\ failed' = IF \E x \in r : x.ctx # m.arg THEN failed \cup {c} ELSE failed
    /\ UNCHANGED <<mode, server, session, misuse, serving, lastCid, cid, listed, toServer,
                   clientLast, serverEnd, expired>>

(* Mutant: nothing to read is taken for the end of the stream *)
OnServerGoneTooSoon(c) ==
    /\ ClientRuns(c) /\ Connected(c) /\ toClient[c] = <<>>
    /\ session' = Set(session, c, "freed")
    /\ client' = Set(client, c, "breaking")
    /\ clientPending' = Set(clientPending, c, {})
    /\ UNCHANGED <<mode, server, misuse, serving, lastCid, cid, listed, replies, toServer, toClient,
                   clientLast, serverEnd, failed, expired>>

(* The end of the stream: the library frees the session and its requests;   *)
(* the program has no close callback and keeps its pointer.  No event is    *)
(* left, and event_base_dispatch returns.                                   *)
OnServerGone(c) ==
    /\ ClientRuns(c) /\ Connected(c) /\ toClient[c] = <<>> /\ ~ServerRuns
    /\ session' = Set(session, c, "freed")
    /\ client' = Set(client, c, "breaking")
    /\ clientPending' = Set(clientPending, c, {})
    /\ UNCHANGED <<mode, server, misuse, serving, lastCid, cid, listed, replies, toServer, toClient,
                   clientLast, serverEnd, failed, expired>>

(* on_recv has read everything, the loop was left, and main closes the      *)
(* session.                                                                 *)
ClientEnds(c) ==
    /\ client[c] = "breaking" /\ (Connected(c) => toClient[c] = <<>>)
    /\ client' = Set(client, c, "done")
    /\ session' = Set(session, c, "freed")
    /\ misuse' = IF session[c] = "freed" THEN misuse \cup {c} ELSE misuse
    /\ clientPending' = Set(clientPending, c, {})
    /\ UNCHANGED <<mode, server, serving, lastCid, cid, listed, replies, toServer, toClient,
                   clientLast, serverEnd, failed, expired>>

(* af_ipc_on_timeout: the callback gets AF_IPC_STATUS_TIMEOUT and returns *)
ClientTimesOut(c) ==
    /\ c \in Slow /\ client[c] = "loop"
    /\ \E r \in clientPending[c] :
          clientPending' = Set(clientPending, c, clientPending[c] \ {r})
    /\ expired' = expired \cup {c}
    /\ UNCHANGED <<life, replies, toServer, toClient, clientLast, serverEnd, failed>>

-----------------------------------------------------------------------------
(* The server program *)

(* on_accept: the new client goes on the list; no id comes round here *)
ServerAccepts(c) ==
    /\ server = "loop" /\ serving = NoClient
    /\ session[c] # "none" /\ cid[c] = 0
    /\ lastCid' = lastCid + 1
    /\ cid' = Set(cid, c, lastCid + 1)
    /\ listed' = listed \cup {c}
    /\ UNCHANGED <<process, session, misuse, serving, replies, toServer, toClient,
                   clientEnd, serverEnd, failed, expired>>

(* libevent calls on_recv *)
ServerOnRecv(c) ==
    /\ server = "loop" /\ serving = NoClient /\ c \in listed
    /\ toServer[c] # <<>> \/ ~Connected(c)
    /\ serving' = c
    /\ UNCHANGED <<process, session, misuse, lastCid, cid, listed, replies, toServer, toClient,
                   clientEnd, serverEnd, failed, expired>>

ServerReads ==
    /\ ServerRuns /\ serving # NoClient /\ toServer[serving] # <<>>
    /\ toServer' = Set(toServer, serving, Tail(toServer[serving]))

Received == Head(toServer[serving])

(* The number subsys_test1_receive gets for a command *)
SeqNum == ToApplication(cid[serving], Received.seq)

CommandIs(cmd) == ServerReads /\ IsCommand(Received.seq) /\ Received.cmd = cmd

(* find_client_by_cid *)
ClientWith(n) == {c \in listed : cid[c] = AF_IPC_GET_CLIENT_ID(n)}

(* Messages to the clients of a set, in the order of their list, which has  *)
(* the newest first, up to one that has gone.                               *)
ServerSends(to, ms) ==
    LET reached == {c \in to : \A d \in to : cid[d] >= cid[c] => Connected(d)} IN
    /\ toClient' = [c \in Clients |-> IF c \in reached THEN toClient[c] \o ms ELSE toClient[c]]
    /\ server' = IF reached = to THEN server ELSE "killed"

(* CLIENT_TEST_BROADCAST_CLIENTCMDS *)
OnTestBroadcast ==
    /\ CommandIs("CLIENT_TEST_BROADCAST_CLIENTCMDS")
    /\ ServerSends(listed, <<Unsolicited("SERVER_BROADCAST_TO_CLIENTS")>>)
    /\ UNCHANGED <<mode, client, session, misuse, serving, lastCid, cid, listed, replies,
                   clientEnd, serverEnd, failed, expired>>

(* A send to a client that is not found is a failure *)
ServerFails ==
    /\ failed' = failed \cup {"server"}
    /\ UNCHANGED <<toClient, server>>

(* CLIENT_TEST_SERVERCMDS *)
OnTestServerCommands ==
    /\ CommandIs("CLIENT_TEST_SERVERCMDS")
    /\ IF ClientWith(SeqNum) = {}
       THEN ServerFails /\ UNCHANGED serverEnd
       ELSE \E c \in ClientWith(SeqNum) :
             /\ ServerSends({c}, Requests("SERVER_COMMANDS_TO_CLIENT", serverLast[c]))
             /\ serverPending' = Set(serverPending, c, serverPending[c] \cup Records(serverLast[c]))
             /\ serverLast' = Set(serverLast, c, serverLast[c] + MAX_REQUESTS)
             /\ UNCHANGED failed
    /\ UNCHANGED <<mode, client, session, misuse, serving, lastCid, cid, listed, replies,
                   clientEnd, expired>>

(* CLIENT_TEST_SERVERUNSOL *)
OnTestUnsolicited ==
    /\ CommandIs("CLIENT_TEST_SERVERUNSOL")
    /\ IF ClientWith(SeqNum) = {}
       THEN ServerFails
       ELSE /\ ServerSends(ClientWith(SeqNum), <<Unsolicited("SERVER_UNSOL_TO_CLIENT")>>)
            /\ UNCHANGED failed
    /\ UNCHANGED <<mode, client, session, misuse, serving, lastCid, cid, listed, replies,
                   clientEnd, serverEnd, expired>>

(* CLIENT_SERVEREXIT *)
OnServerExit ==
    /\ CommandIs("CLIENT_SERVEREXIT")
    /\ server' = "breaking"
    /\ UNCHANGED <<mode, client, session, misuse, serving, lastCid, cid, listed, replies, toClient,
                   clientEnd, serverEnd, failed, expired>>

(* CLIENT_COMMANDS: answered with the number it came with.  An answer that  *)
(* finds no client or has no id is a failure.                               *)
OnClientCommand ==
    /\ CommandIs("CLIENT_COMMANDS")
    /\ IF AF_IPC_GET_SEQ_ID(SeqNum) # 0 /\ ClientWith(SeqNum) # {}
       THEN /\ ServerSends(ClientWith(SeqNum),
                  <<[seq |-> SeqNum, cmd |-> "SERVER_REPLIES", arg |-> Received.arg]>>)
            /\ UNCHANGED failed
       ELSE ServerFails
    /\ UNCHANGED <<mode, client, session, misuse, serving, lastCid, cid, listed, replies,
                   clientEnd, serverEnd, expired>>

(* An answer: CLIENT_REPLIES is compared with the context of its request *)
OnClientReply ==
    LET r == Matching(serverPending[serving], Received) IN
    /\ ServerReads /\ ~IsCommand(Received.seq)
    /\ serverPending' = Set(serverPending, serving, serverPending[serving] \ r)
    /\ failed' = IF \E x \in r : x.ctx # Received.arg THEN failed \cup {"server"} ELSE failed
    /\ UNCHANGED <<life, replies, toClient, clientEnd, serverLast, expired>>

(* on_recv has read everything that is there *)
ServerReadsNothing ==
    /\ ServerRuns /\ serving # NoClient /\ toServer[serving] = <<>> /\ Connected(serving)
    /\ serving' = NoClient
    /\ UNCHANGED <<process, session, misuse, lastCid, cid, listed, replies, toServer, toClient,
                   clientEnd, serverEnd, failed, expired>>

(* The end of the stream: close_client *)
ServerClosesClient ==
    /\ ServerRuns /\ serving # NoClient /\ toServer[serving] = <<>> /\ ~Connected(serving)
    /\ listed' = listed \ {serving}
    /\ serverPending' = Set(serverPending, serving, {})
    /\ serving' = NoClient
    /\ UNCHANGED <<process, session, misuse, lastCid, cid, replies, toServer, toClient,
                   clientEnd, serverLast, failed, expired>>

(* The loop was left: af_ipcs_close, and the process ends *)
ServerEnds ==
    /\ server = "breaking" /\ serving = NoClient
    /\ server' = "done"
    /\ UNCHANGED <<mode, client, session, misuse, serving, lastCid, cid, listed, replies,
                   toServer, toClient, clientEnd, serverEnd, failed, expired>>

ServerTimesOut(c) ==
    /\ c \in Slow /\ server = "loop" /\ serving = NoClient
    /\ \E r \in serverPending[c] :
          serverPending' = Set(serverPending, c, serverPending[c] \ {r})
    /\ expired' = expired \cup {c}
    /\ UNCHANGED <<life, replies, toServer, toClient, clientEnd, serverLast, failed>>

-----------------------------------------------------------------------------
ClientStep(c) ==
    \/ OnBroadcast(c) \/ OnServerCommand(c) \/ OnUnsolicited(c) \/ OnServerReply(c)
    \/ OnServerGone(c) \/ ClientEnds(c)

ServerStep ==
    \/ OnTestBroadcast \/ OnTestServerCommands \/ OnTestUnsolicited \/ OnServerExit
    \/ OnClientCommand \/ OnClientReply
    \/ ServerReadsNothing \/ ServerClosesClient \/ ServerEnds

(* Every client has ended, or waits for a reply that timed out *)
Ended ==
    /\ \A c \in Clients : client[c] \in {"done", "killed"} \/ c \in expired
    /\ UNCHANGED vars

Next ==
    \/ \E c \in Clients : ClientStarts(c) \/ ClientStep(c) \/ ClientTimesOut(c)
    \/ \E c \in Clients : ServerAccepts(c) \/ ServerOnRecv(c) \/ ServerTimesOut(c)
    \/ ServerStep \/ Ended

Spec == Init /\ [][Next]_vars

(* Each program gets on with what it does; the server's event loop serves   *)
(* every connection that is due in each round.                              *)
FairSpec ==
    /\ Spec
    /\ \A c \in Clients : WF_vars(ClientStep(c)) /\ SF_vars(ServerAccepts(c)) /\ SF_vars(ServerOnRecv(c))
    /\ WF_vars(ServerStep)

-----------------------------------------------------------------------------
(* No program counts a failure: an answer comes back to the callback of its *)
(* own request, with requests of both ends crossing under the same ids, and *)
(* an answer of the server finds its client.                                *)
NoFailures == failed = {}

(* A client program closes a session that the library has freed, and that   *)
(* only when the server went away first: no close callback tells it.        *)
FreedOnlyAfterServer == misuse # {} => ~ServerRuns

(* The server is killed by writing to a client that has left, and a client  *)
(* on its own never leaves before the last message to it was sent.          *)
KilledOnlyInCompany ==
    server = "killed" => Cardinality({c \in Clients : session[c] # "none"}) > 1

(* A test ends: a client program that was started leaves its loop, unless   *)
(* one of its requests timed out.                                           *)
TestEnds ==
    \A c \in Clients : client[c] = "loop" ~> (~ClientRuns(c) \/ c \in expired)

=============================================================================

------------------------------ MODULE IpcServer ------------------------------
(***************************************************************************)
(* The server side of a connection (af_ipc_server.c): accepting clients,    *)
(* their ids, the list of clients and its mutex, on_recv, the send          *)
(* functions with their close-on-failure path, close_client and             *)
(* af_ipcs_close.                                                           *)
(*                                                                         *)
(* The actors are the event loop, which runs on_accept, on_recv and the     *)
(* application's callbacks, and further application threads that call the   *)
(* af_ipcs_ functions.  A client is named by its connection; its memory is  *)
(* "live" from add_client to af_mempool_free, and a freed client keeps its  *)
(* contents, so that code that goes on using it goes on with these.         *)
(***************************************************************************)
EXTENDS Integers, FiniteSets

CONSTANTS
    Conns,           \* connections clients make
    Threads,         \* application threads besides the event loop
    Loop,            \* the event loop's thread
    NoConn, NoOne,   \* NULL, and the owner of a free mutex
    MaxCid,          \* largest client id, 0xffff in the code
    MaxFds,          \* how many sockets fit below FD_SETSIZE
    MaxMsgs,         \* bound: messages a peer sends on one connection
    CloseIn,         \* the callbacks of a client in which it may get closed
    ThreadsClose,    \* may threads other than the loop close a client?
    EventFails,      \* may event_new fail in add_client, and event_add in on_accept?
    MayClose,        \* may the application call af_ipcs_close?
    KeepCids         \* is a client id reused only when no request of its old owner is held?

ASSUME ServerConstants ==
    /\ Loop \notin Threads /\ NoOne \notin Threads \cup {Loop} /\ NoConn \notin Conns
    /\ IsFiniteSet(Conns)
    /\ MaxCid \in Nat /\ MaxFds \in 1..MaxCid
    /\ MaxMsgs \in Nat
    /\ CloseIn \subseteq {"accept_cb", "receive_cb"}
    /\ {ThreadsClose, EventFails, MayClose, KeepCids} \subseteq BOOLEAN

Actors == Threads \cup {Loop}

VARIABLES
    open,       \* the server exists
    lastCid,    \* server->lastCid
    clients,    \* the list server->clients
    cid,        \* client->cid
    mem,        \* the client's memory: "none", "live", "freed"
    fd,         \* the client's socket: "none", "queued", "open", "closed"
    evt,        \* the client's recv_event: "null", "new", "added"
    mutex,      \* who holds server->clnt_mutex
    loop,       \* what the event loop runs
    closing,    \* how far each actor is in close_client
    sent,       \* messages the peer has sent
    inbox,      \* those of them in the socket, not yet read
    gone,       \* the peer has closed its end, or the read side was shut down
    edge,       \* the edge-triggered read event is due
    held,       \* requests the application has received and not answered
    answered,   \* <<c, d>>: the answer to a request of d was sent to c
    accepts,    \* calls of the accept callback
    closes,     \* calls of the close callback
    misuse      \* clients used after they were freed

list == <<lastCid, clients, cid>>
sock == <<sent, inbox, gone, edge>>
app == <<held, answered>>
calls == <<accepts, closes>>
vars == <<open, list, mem, fd, evt, mutex, loop, closing, sock, app, calls, misuse>>

Idle == [at |-> "idle", conn |-> NoConn, left |-> 0]
NotClosing == [at |-> "no", conn |-> NoConn, tell |-> FALSE]

TypeOK ==
    /\ open \in BOOLEAN
    /\ lastCid \in 0..MaxCid
    /\ clients \subseteq Conns
    /\ cid \in [Conns -> 0..MaxCid]
    /\ mem \in [Conns -> {"none", "live", "freed"}]
    /\ fd \in [Conns -> {"none", "queued", "open", "closed"}]
    /\ evt \in [Conns -> {"null", "new", "added"}]
    /\ mutex \in Actors \cup {NoOne}
    /\ loop \in [at : {"idle", "accept_cb", "recv", "handle", "receive_cb"},
                 conn : Conns \cup {NoConn}, left : 0..MaxMsgs]
    /\ closing \in [Actors -> [at : {"no", "begin", "unlink", "free", "notify"},
                               conn : Conns \cup {NoConn}, tell : BOOLEAN]]
    /\ sent \in [Conns -> 0..MaxMsgs]
    /\ inbox \in [Conns -> 0..MaxMsgs]
    /\ gone \in [Conns -> BOOLEAN]
    /\ edge \in [Conns -> BOOLEAN]
    /\ held \subseteq Conns
    /\ answered \subseteq Conns \X Conns
    /\ accepts \in [Conns -> Nat]
    /\ closes \in [Conns -> Nat]
    /\ misuse \subseteq Conns

(* af_ipcs_open has succeeded *)
Init ==
    /\ open = TRUE
    /\ lastCid = 0 /\ clients = {} /\ cid = [c \in Conns |-> 0]
    /\ mem = [c \in Conns |-> "none"]
    /\ fd = [c \in Conns |-> "none"]
    /\ evt = [c \in Conns |-> "null"]
    /\ mutex = NoOne
    /\ loop = Idle
    /\ closing = [a \in Actors |-> NotClosing]
    /\ sent = [c \in Conns |-> 0] /\ inbox = [c \in Conns |-> 0]
    /\ gone = [c \in Conns |-> FALSE]
    /\ edge = [c \in Conns |-> FALSE]
    /\ held = {} /\ answered = {}
    /\ accepts = [c \in Conns |-> 0]
    /\ closes = [c \in Conns |-> 0]
    /\ misuse = {}

Set(f, c, v) == [f EXCEPT ![c] = v]

(* Touching a client that was freed *)
Use(c) == misuse' = IF mem[c] = "freed" THEN misuse \cup {c} ELSE misuse

At(place, c, n) == loop' = [at |-> place, conn |-> c, left |-> n]

(* An actor that is free to call a function of the server: a thread outside *)
(* of it, or the event loop in an accept, receive or response callback or   *)
(* in a handler of the application's own.                                   *)
MayCall(a) ==
    /\ open /\ closing[a].at = "no"
    /\ a = Loop => loop.at \in {"idle", "accept_cb", "receive_cb"}

(* Whether a may get to close c, given what the application does *)
MayEnd(a, c) ==
    /\ a # Loop => ThreadsClose
    /\ a = Loop /\ loop.conn = c => loop.at \in CloseIn

(* Actor a calls close_client for c; tell: the close callback is wanted *)
StartClose(a, c, tell) ==
    closing' = [closing EXCEPT ![a] = [at |-> "begin", conn |-> c, tell |-> tell]]

Advance(a, place) ==
    closing' = [closing EXCEPT ![a] =
        [at |-> place, conn |-> closing[a].conn, tell |-> closing[a].tell]]

-----------------------------------------------------------------------------
(* The peers *)
PeerConnects(c) ==
    /\ open /\ fd[c] = "none"
    /\ fd' = Set(fd, c, "queued")
    /\ UNCHANGED <<open, list, mem, evt, mutex, loop, closing, sock, app, calls, misuse>>

PeerSends(c) ==
    /\ fd[c] \in {"queued", "open"} /\ ~gone[c] /\ sent[c] < MaxMsgs
    /\ sent' = Set(sent, c, sent[c] + 1)
    /\ inbox' = Set(inbox, c, inbox[c] + 1)
    /\ edge' = Set(edge, c, TRUE)
    /\ UNCHANGED <<open, list, mem, fd, evt, mutex, loop, closing, gone, app, calls, misuse>>

PeerCloses(c) ==
    /\ fd[c] \in {"queued", "open"} /\ ~gone[c]
    /\ gone' = Set(gone, c, TRUE)
    /\ edge' = Set(edge, c, TRUE)
    /\ UNCHANGED <<open, list, mem, fd, evt, mutex, loop, closing, sent, inbox, app, calls, misuse>>

-----------------------------------------------------------------------------
(* Mutants: the id does not wrap; ids in use are not skipped *)
NextCidUnbounded(last, used) == last + 1
NextCidUnchecked(last, used) == IF last = MaxCid THEN 1 ELSE last + 1

(* get_next_cid: the first id after last, 0 skipped, that no client has *)
NextCid(last, used) ==
    LET dist(k) == IF k > last THEN k - last ELSE k + MaxCid - last
    IN  CHOOSE k \in (1..MaxCid) \ used :
            \A j \in (1..MaxCid) \ used : dist(k) <= dist(j)

UsedCids == {cid[c] : c \in clients}

(* The sockets the process has open *)
OpenFds == {c \in Conns : fd[c] = "open"}

LoopAt(place) == loop.at = place /\ closing[Loop].at = "no"
LoopFree == LoopAt("idle")

(* The cid of c is not the cid of a client that is gone but owed an answer *)
CidForgotten(k) == \A d \in held \ clients : cid[d] # k

(* on_accept closes the socket: it is beyond FD_SETSIZE, or add_client has  *)
(* no memory for the client.                                                *)
AcceptRefused(c) ==
    /\ open /\ LoopFree /\ fd[c] = "queued"
    /\ fd' = Set(fd, c, "closed")
    /\ UNCHANGED <<open, list, mem, evt, mutex, loop, closing, sock, app, calls, misuse>>

(* af_ipc_util_init_requests fails: the client is given back, its id stays  *)
(* used up, and the socket is closed.                                       *)
AcceptNoRequests(c) ==
    /\ open /\ LoopFree /\ fd[c] = "queued" /\ Cardinality(OpenFds) < MaxFds /\ mutex = NoOne
    /\ lastCid' = NextCid(lastCid, UsedCids)
    /\ fd' = Set(fd, c, "closed")
    /\ UNCHANGED <<open, clients, cid, mem, evt, mutex, loop, closing, sock, app, calls, misuse>>

(* add_client inside the mutex: the client is on the list from here on *)
NewClient(c) ==
    /\ open /\ LoopFree /\ fd[c] = "queued" /\ Cardinality(OpenFds) < MaxFds /\ mutex = NoOne
    /\ KeepCids => CidForgotten(NextCid(lastCid, UsedCids))
    /\ lastCid' = NextCid(lastCid, UsedCids)
    /\ cid' = Set(cid, c, NextCid(lastCid, UsedCids))
    /\ clients' = clients \cup {c}
    /\ mem' = Set(mem, c, "live")
    /\ fd' = Set(fd, c, "open")

AcceptClient(c) ==
    /\ NewClient(c)
    /\ evt' = Set(evt, c, "new")
    /\ accepts' = Set(accepts, c, accepts[c] + 1)
    /\ At("accept_cb", c, 0)
    /\ UNCHANGED <<open, mutex, closing, sock, app, closes, misuse>>

(* event_new fails: close_client is called with the mutex held *)
AcceptNoEvent(c) ==
    /\ EventFails /\ NewClient(c)
    /\ mutex' = Loop
    /\ StartClose(Loop, c, FALSE)
    /\ UNCHANGED <<open, evt, loop, sock, app, calls, misuse>>

(* The accept callback, called outside the mutex, returns, and on_accept    *)
(* adds the event, without a look at what event_add returns.  It fires at   *)
(* once when data or the end of the stream is there.                        *)
AcceptDone ==
    /\ LoopAt("accept_cb")
    /\ Use(loop.conn)
    /\ \/ evt' = IF evt[loop.conn] = "new" THEN Set(evt, loop.conn, "added") ELSE evt
       \/ EventFails /\ UNCHANGED evt
    /\ edge' = Set(edge, loop.conn, inbox[loop.conn] > 0 \/ gone[loop.conn])
    /\ loop' = Idle
    /\ UNCHANGED <<open, list, mem, fd, mutex, closing, sent, inbox, gone, app, calls>>

-----------------------------------------------------------------------------
(* libevent calls on_recv *)
OnRecv(c) ==
    /\ LoopFree /\ evt[c] = "added" /\ edge[c]
    /\ edge' = Set(edge, c, FALSE)
    /\ At("recv", c, 0)
    /\ UNCHANGED <<open, list, mem, fd, evt, mutex, closing, sent, inbox, gone, app, calls, misuse>>

(* recv fills the buffer with n messages; CLIENT_FLAGS_IN_RECEIVE is set in *)
(* the client.                                                              *)
RecvMessages ==
    /\ LoopAt("recv") /\ fd[loop.conn] = "open"
    /\ \E n \in 1..inbox[loop.conn] :
          /\ At("handle", loop.conn, n)
          /\ inbox' = Set(inbox, loop.conn, inbox[loop.conn] - n)
    /\ Use(loop.conn)
    /\ UNCHANGED <<open, list, mem, fd, evt, mutex, closing, sent, gone, edge, app, calls>>

(* recv returns -1 with EAGAIN: MSG_DONTWAIT never lets it wait, so that no *)
(* signal interrupts it.                                                    *)
RecvNothing ==
    /\ LoopAt("recv") /\ fd[loop.conn] = "open"
    /\ inbox[loop.conn] = 0 /\ ~gone[loop.conn]
    /\ loop' = Idle
    /\ UNCHANGED <<open, list, mem, fd, evt, mutex, closing, sock, app, calls, misuse>>

(* Mutants: on_recv goes on reading after close_client; the end of the      *)
(* stream is taken for EAGAIN.                                              *)
RecvEndsNoBreak ==
    /\ LoopAt("recv")
    /\ (inbox[loop.conn] = 0 /\ gone[loop.conn]) \/ fd[loop.conn] = "closed"
    /\ StartClose(Loop, loop.conn, TRUE)
    /\ UNCHANGED <<open, list, mem, fd, evt, mutex, loop, sock, app, calls, misuse>>

RecvEndsIgnored ==
    /\ LoopAt("recv")
    /\ (inbox[loop.conn] = 0 /\ gone[loop.conn]) \/ fd[loop.conn] = "closed"
    /\ loop' = Idle
    /\ UNCHANGED <<open, list, mem, fd, evt, mutex, closing, sock, app, calls, misuse>>

(* recv returns 0 at the end of the stream, or an error on a closed socket *)
RecvEnds ==
    /\ LoopAt("recv")
    /\ (inbox[loop.conn] = 0 /\ gone[loop.conn]) \/ fd[loop.conn] = "closed"
    /\ StartClose(Loop, loop.conn, TRUE)
    /\ loop' = Idle
    /\ UNCHANGED <<open, list, mem, fd, evt, mutex, sock, app, calls, misuse>>

(* af_ipc_handle_receive_message takes the next message.  It calls back for *)
(* a request, whose sequence number the application may keep for an answer, *)
(* and for an unsolicited message.  For a reply it searches the requests in *)
(* the client, and calls back if one is waiting.                            *)
HandleMessage ==
    /\ LoopAt("handle") /\ loop.left > 0
    /\ \/ /\ At("receive_cb", loop.conn, loop.left - 1)
          /\ held' \in {held, held \cup {loop.conn}}
          /\ UNCHANGED misuse
       \/ /\ \E place \in {"receive_cb", "handle"} : At(place, loop.conn, loop.left - 1)
          /\ Use(loop.conn)
          /\ UNCHANGED held
    /\ UNCHANGED <<open, list, mem, fd, evt, mutex, closing, sock, answered, calls>>

CallbackReturns ==
    /\ LoopAt("receive_cb")
    /\ At("handle", loop.conn, loop.left)
    /\ UNCHANGED <<open, list, mem, fd, evt, mutex, closing, sock, app, calls, misuse>>

(* Mutant: on_recv reads only once *)
HandleDoneOnce ==
    /\ LoopAt("handle") /\ loop.left = 0
    /\ Use(loop.conn)
    /\ loop' = Idle
    /\ UNCHANGED <<open, list, mem, fd, evt, mutex, closing, sock, app, calls>>

(* All messages of the buffer are handled: on_recv clears IN_RECEIVE in the *)
(* client (nothing sets MARKED_FOR_SHUTDOWN) and reads again.               *)
HandleDone ==
    /\ LoopAt("handle") /\ loop.left = 0
    /\ Use(loop.conn)
    /\ At("recv", loop.conn, 0)
    /\ UNCHANGED <<open, list, mem, fd, evt, mutex, closing, sock, app, calls>>

-----------------------------------------------------------------------------
(* af_ipcs_send_response to a request of d: the client is found by the id   *)
(* in the sequence number, and the send holds the mutex.                    *)
SendResponse(a, d) ==
    /\ MayCall(a) /\ mutex = NoOne /\ d \in held
    /\ held' = held \ {d}
    /\ answered' = answered \cup {<<c, d>> : c \in {x \in clients : cid[x] = cid[d]}}
    /\ UNCHANGED <<open, list, mem, fd, evt, mutex, loop, closing, sock, calls, misuse>>

(* A send_response, send_unsolicited or send_request to c fails: the mutex  *)
(* is released, and then the client is closed.                              *)
SendFails(a, c) ==
    /\ MayCall(a) /\ mutex = NoOne /\ c \in clients /\ MayEnd(a, c)
    /\ StartClose(a, c, TRUE)
    /\ UNCHANGED <<open, list, mem, fd, evt, mutex, loop, sock, app, calls, misuse>>

(* af_ipcs_close_client: the list is searched without the mutex *)
CloseByCid(a, c) ==
    /\ MayCall(a) /\ c \in clients /\ MayEnd(a, c)
    /\ StartClose(a, c, TRUE)
    /\ UNCHANGED <<open, list, mem, fd, evt, mutex, loop, sock, app, calls, misuse>>

(* Mutants: the receive event is not freed; the mutex is not released *)
CloseBeginKeepsEvent(a) ==
    /\ closing[a].at = "begin"
    /\ Use(closing[a].conn)
    /\ gone' = Set(gone, closing[a].conn, TRUE)
    /\ Advance(a, "unlink")
    /\ UNCHANGED <<open, list, mem, fd, evt, mutex, loop, sent, inbox, edge, app, calls>>

CloseUnlinkHolds(a) ==
    /\ closing[a].at = "unlink" /\ mutex = NoOne
    /\ clients' = clients \ {closing[a].conn}
    /\ mutex' = a
    /\ Advance(a, "free")
    /\ UNCHANGED <<open, lastCid, cid, mem, fd, evt, loop, sock, app, calls, misuse>>

(* close_client, in the order of the code.  An event_free in one thread     *)
(* while the event loop runs the event's callback waits for it only when    *)
(* the application has turned libevent's locking on: here it never does.    *)
CloseBegin(a) ==
    LET c == closing[a].conn IN
    /\ closing[a].at = "begin"
    /\ Use(c)
    /\ gone' = Set(gone, c, TRUE)
    /\ evt' = Set(evt, c, "null")
    /\ Advance(a, "unlink")
    /\ UNCHANGED <<open, list, mem, fd, mutex, loop, sent, inbox, edge, app, calls>>

CloseUnlink(a) ==
    /\ closing[a].at = "unlink" /\ mutex = NoOne
    /\ clients' = clients \ {closing[a].conn}
    /\ Advance(a, "free")
    /\ UNCHANGED <<open, lastCid, cid, mem, fd, evt, mutex, loop, sock, app, calls, misuse>>

CloseFree(a) ==
    /\ closing[a].at = "free"
    /\ Use(closing[a].conn)
    /\ mem' = Set(mem, closing[a].conn, "freed")
    /\ fd' = Set(fd, closing[a].conn, "closed")
    /\ Advance(a, "notify")
    /\ UNCHANGED <<open, list, evt, mutex, loop, sock, app, calls>>

CloseNotify(a) ==
    LET c == closing[a].conn IN
    /\ closing[a].at = "notify"
    /\ closes' = IF closing[a].tell THEN Set(closes, c, closes[c] + 1) ELSE closes
    /\ closing' = [closing EXCEPT ![a] = NotClosing]
    /\ UNCHANGED <<open, list, mem, fd, evt, mutex, loop, sock, app, accepts, misuse>>

CloseStep(a) == CloseBegin(a) \/ CloseUnlink(a) \/ CloseFree(a) \/ CloseNotify(a)

(* af_ipcs_close: SERVER_FLAGS_MUTEX_INITIALIZED is never set, so that the  *)
(* clients keep their sockets and events; the pool they are in is freed.    *)
ServerClose ==
    /\ MayClose /\ open /\ LoopFree /\ \A a \in Actors : closing[a].at = "no"
    /\ open' = FALSE
    /\ mem' = [c \in Conns |-> IF mem[c] = "live" THEN "freed" ELSE mem[c]]
    /\ UNCHANGED <<list, fd, evt, mutex, loop, closing, sock, app, calls, misuse>>

(* The server is closed, or every connection of the model has been used up *)
Ended ==
    /\ LoopFree /\ \A a \in Actors : closing[a].at = "no"
    /\ ~open \/ \A c \in Conns : fd[c] = "closed"
    /\ UNCHANGED vars

LoopStep ==
    \/ AcceptDone \/ RecvMessages \/ RecvNothing \/ RecvEnds
    \/ HandleMessage \/ CallbackReturns \/ HandleDone \/ CloseStep(Loop)

Next ==
    \/ \E c \in Conns :
          \/ PeerConnects(c) \/ PeerSends(c) \/ PeerCloses(c)
          \/ AcceptRefused(c) \/ AcceptNoRequests(c) \/ AcceptClient(c) \/ AcceptNoEvent(c)
          \/ OnRecv(c)
    \/ LoopStep
    \/ \E a \in Actors, c \in Conns : SendResponse(a, c) \/ SendFails(a, c) \/ CloseByCid(a, c)
    \/ \E a \in Threads : CloseStep(a)
    \/ ServerClose \/ Ended

Spec == Init /\ [][Next]_vars

(* The event loop gets on with what it runs and calls on_recv for events    *)
(* that are due; a thread inside close_client gets on with it.              *)
Fairness ==
    /\ WF_vars(LoopStep)
    /\ \A c \in Conns : SF_vars(OnRecv(c))
    /\ \A a \in Threads : WF_vars(CloseStep(a))

FairSpec == Spec /\ Fairness

-----------------------------------------------------------------------------
(* Whoever finds a client on the list may use it: it is not freed, its      *)
(* socket is open, and no other client has its id.  The send functions      *)
(* depend on it; close_client unlinks before it frees.                      *)
ListedClientUsable ==
    \A c \in clients :
        /\ open => mem[c] = "live" /\ fd[c] = "open"
        /\ cid[c] \in 1..MaxCid
        /\ \A d \in clients : cid[c] = cid[d] => c = d

(* While the server is open, no code uses a client after close_client has   *)
(* freed it: not on_recv when the receive callback returns, not on_accept   *)
(* after the accept callback, not a second close_client.                    *)
NoUseAfterFree == open => misuse = {}

(* The close callback is called at most once for a client, and only for a   *)
(* client the accept callback was called for.                               *)
ClosedOnce == \A c \in Conns : closes[c] <= 1 /\ closes[c] <= accepts[c]

(* An answer goes to the client whose request it answers, or nowhere *)
AnswersGoHome == \A p \in answered : p[1] = p[2]

(* A client that close_client is called for gets closed: the call does not  *)
(* wait for the mutex for ever.                                             *)
CloseCompletes ==
    \A c \in Conns : (\E a \in Actors : closing[a].conn = c) ~> fd[c] = "closed"

(* When af_ipcs_close has returned, every client that was accepted has had  *)
(* its close callback.                                                      *)
ServerCloseTellsAll ==
    ~open => \A c \in Conns : accepts[c] > 0 => closes[c] > 0

(* A client whose peer goes away is closed and reported: the edge-triggered *)
(* event is not lost between two reads.                                     *)
EndIsReported ==
    \A c \in Conns : (gone[c] /\ accepts[c] > 0) ~> (closes[c] > 0 \/ ~open)

(* Every message that reaches an accepted client is read, unless the client *)
(* is closed.                                                               *)
DataIsRead ==
    \A c \in Conns : (inbox[c] > 0 /\ evt[c] = "added") ~>
        (inbox[c] = 0 \/ evt[c] = "null" \/ ~open)

=============================================================================

------------------------------ MODULE IpcClient ------------------------------
(***************************************************************************)
(* The client side of a connection (af_ipc_client.c): opening it, reading   *)
(* it in af_ipcc_client_on_recv, the sends that free it when they fail, and *)
(* af_ipcc_close, which is put off while a receive callback runs.           *)
(*                                                                         *)
(* Everything runs in the thread of the event loop: the read handler, the   *)
(* callbacks it makes, and the application's own handlers and time-out      *)
(* callbacks, which run while the loop is idle.  A session is one           *)
(* af_ipcc_server_t; freed memory keeps its contents.  As the header asks,  *)
(* the application does not use a session it has closed or was told is      *)
(* closed.                                                                  *)
(***************************************************************************)
EXTENDS Integers

CONSTANTS
    Sessions,        \* the connections the application opens
    NoSession,       \* NULL
    MaxMsgs,         \* bound: messages the peer sends on one connection
    SendFailsInside  \* may a send fail inside a receive callback of its session?

ASSUME ClientConstants ==
    /\ NoSession \notin Sessions
    /\ MaxMsgs \in Nat
    /\ SendFailsInside \in BOOLEAN

VARIABLES
    mem,        \* "none", "live", "freed", or "lost": allocated and unreachable
    fd,         \* the socket: "none", "open", "closed"
    evt,        \* the read event is added
    inReceive,  \* FLAGS_IN_RECEIVE
    marked,     \* FLAGS_MARKED_FOR_SHUTDOWN
    loop,       \* what the event loop runs
    sent,       \* messages the peer has sent
    inbox,      \* those of them not yet read
    gone,       \* the peer has closed its end
    edge,       \* the edge-triggered read event is due
    asked,      \* the sessions af_ipcc_close was called for
    closes,     \* calls of the close callback
    misuse      \* sessions used after they were freed

flags == <<inReceive, marked>>
sock == <<sent, inbox, gone, edge>>
seen == <<asked, closes>>
vars == <<mem, fd, evt, flags, loop, sock, seen, misuse>>

Idle == [at |-> "idle", sess |-> NoSession, left |-> 0]

TypeOK ==
    /\ mem \in [Sessions -> {"none", "live", "freed", "lost"}]
    /\ fd \in [Sessions -> {"none", "open", "closed"}]
    /\ evt \in [Sessions -> BOOLEAN]
    /\ inReceive \in [Sessions -> BOOLEAN]
    /\ marked \in [Sessions -> BOOLEAN]
    /\ loop \in [at : {"idle", "recv", "handle", "receive_cb"},
                 sess : Sessions \cup {NoSession}, left : 0..MaxMsgs]
    /\ sent \in [Sessions -> 0..MaxMsgs]
    /\ inbox \in [Sessions -> 0..MaxMsgs]
    /\ gone \in [Sessions -> BOOLEAN]
    /\ edge \in [Sessions -> BOOLEAN]
    /\ asked \subseteq Sessions
    /\ closes \in [Sessions -> Nat]
    /\ misuse \subseteq Sessions

Init ==
    /\ mem = [s \in Sessions |-> "none"]
    /\ fd = [s \in Sessions |-> "none"]
    /\ evt = [s \in Sessions |-> FALSE]
    /\ inReceive = [s \in Sessions |-> FALSE]
    /\ marked = [s \in Sessions |-> FALSE]
    /\ loop = Idle
    /\ sent = [s \in Sessions |-> 0] /\ inbox = [s \in Sessions |-> 0]
    /\ gone = [s \in Sessions |-> FALSE]
    /\ edge = [s \in Sessions |-> FALSE]
    /\ asked = {}
    /\ closes = [s \in Sessions |-> 0]
    /\ misuse = {}

Set(f, s, v) == [f EXCEPT ![s] = v]

(* Touching a session that was freed *)
Use(s) == misuse' = IF mem[s] = "freed" THEN misuse \cup {s} ELSE misuse

At(place, s, n) == loop' = [at |-> place, sess |-> s, left |-> n]

(* The application has control: in a receive callback or outside the read   *)
(* handler.                                                                 *)
AppRuns == loop.at \in {"idle", "receive_cb"}

-----------------------------------------------------------------------------
(* The server at the other end *)
PeerSends(s) ==
    /\ fd[s] = "open" /\ ~gone[s] /\ sent[s] < MaxMsgs
    /\ sent' = Set(sent, s, sent[s] + 1)
    /\ inbox' = Set(inbox, s, inbox[s] + 1)
    /\ edge' = Set(edge, s, TRUE)
    /\ UNCHANGED <<mem, fd, evt, flags, loop, gone, seen, misuse>>

PeerCloses(s) ==
    /\ fd[s] = "open" /\ ~gone[s]
    /\ gone' = Set(gone, s, TRUE)
    /\ edge' = Set(edge, s, TRUE)
    /\ UNCHANGED <<mem, fd, evt, flags, loop, sent, inbox, seen, misuse>>

-----------------------------------------------------------------------------
(* af_ipcc_open_server *)
Open(s) ==
    /\ AppRuns /\ mem[s] = "none"
    /\ mem' = Set(mem, s, "live")
    /\ fd' = Set(fd, s, "open")
    /\ evt' = Set(evt, s, TRUE)
    /\ UNCHANGED <<flags, loop, sock, seen, misuse>>

(* socket, connect or init_requests fails: NULL is returned and the memory  *)
(* allocated for the session is not freed.                                  *)
OpenFails(s) ==
    /\ AppRuns /\ mem[s] = "none"
    /\ mem' = Set(mem, s, "lost")
    /\ UNCHANGED <<fd, evt, flags, loop, sock, seen, misuse>>

(* close_and_free_server, the close callback included.  What the callback   *)
(* does to other sessions is done by the actions that follow.               *)
CloseAndFree(s) ==
    /\ Use(s)
    /\ evt' = Set(evt, s, FALSE)
    /\ fd' = Set(fd, s, "closed")
    /\ mem' = Set(mem, s, "freed")
    /\ closes' = Set(closes, s, closes[s] + 1)

-----------------------------------------------------------------------------
(* libevent calls af_ipcc_client_on_recv *)
OnRecv(s) ==
    /\ loop.at = "idle" /\ evt[s] /\ edge[s]
    /\ edge' = Set(edge, s, FALSE)
    /\ At("recv", s, 0)
    /\ UNCHANGED <<mem, fd, evt, flags, sent, inbox, gone, seen, misuse>>

(* recv fills the buffer with n messages; FLAGS_IN_RECEIVE is set *)
RecvMessages ==
    /\ loop.at = "recv" /\ fd[loop.sess] = "open"
    /\ \E n \in 1..inbox[loop.sess] :
          /\ At("handle", loop.sess, n)
          /\ inbox' = Set(inbox, loop.sess, inbox[loop.sess] - n)
    /\ inReceive' = Set(inReceive, loop.sess, TRUE)
    /\ Use(loop.sess)
    /\ UNCHANGED <<mem, fd, evt, marked, sent, gone, edge, seen>>

(* EAGAIN *)
RecvNothing ==
    /\ loop.at = "recv" /\ fd[loop.sess] = "open"
    /\ inbox[loop.sess] = 0 /\ ~gone[loop.sess]
    /\ loop' = Idle
    /\ UNCHANGED <<mem, fd, evt, flags, sock, seen, misuse>>

(* Mutant: the end of the stream is taken for EAGAIN *)
RecvEndsIgnored ==
    /\ loop.at = "recv"
    /\ (inbox[loop.sess] = 0 /\ gone[loop.sess]) \/ fd[loop.sess] = "closed"
    /\ loop' = Idle
    /\ UNCHANGED <<mem, fd, evt, flags, sock, seen, misuse>>

(* The end of the stream, or an error from a socket that is closed *)
RecvEnds ==
    /\ loop.at = "recv"
    /\ (inbox[loop.sess] = 0 /\ gone[loop.sess]) \/ fd[loop.sess] = "closed"
    /\ CloseAndFree(loop.sess)
    /\ loop' = Idle
    /\ UNCHANGED <<flags, sock, asked>>

(* af_ipc_handle_receive_message takes the next message.  It calls back for *)
(* a request or an unsolicited message.  For a reply it searches the        *)
(* requests in the session, and calls back if one is waiting.               *)
HandleMessage ==
    /\ loop.at = "handle" /\ loop.left > 0
    /\ \/ At("receive_cb", loop.sess, loop.left - 1) /\ UNCHANGED misuse
       \/ /\ \E place \in {"receive_cb", "handle"} : At(place, loop.sess, loop.left - 1)
          /\ Use(loop.sess)
    /\ UNCHANGED <<mem, fd, evt, flags, sock, seen>>

CallbackReturns ==
    /\ loop.at = "receive_cb"
    /\ At("handle", loop.sess, loop.left)
    /\ UNCHANGED <<mem, fd, evt, flags, sock, seen, misuse>>

(* Mutant: the mark is not looked at *)
HandleDoneUnmarked ==
    /\ loop.at = "handle" /\ loop.left = 0
    /\ inReceive' = Set(inReceive, loop.sess, FALSE)
    /\ Use(loop.sess)
    /\ At("recv", loop.sess, 0)
    /\ UNCHANGED <<mem, fd, evt, closes, marked, sock, asked>>

(* The buffer is done with: FLAGS_IN_RECEIVE is cleared, and a close that   *)
(* was put off is made; otherwise the socket is read again.                 *)
HandleDone ==
    /\ loop.at = "handle" /\ loop.left = 0
    /\ inReceive' = Set(inReceive, loop.sess, FALSE)
    /\ IF marked[loop.sess]
       THEN CloseAndFree(loop.sess) /\ loop' = Idle
       ELSE /\ Use(loop.sess) /\ At("recv", loop.sess, 0)
            /\ UNCHANGED <<mem, fd, evt, closes>>
    /\ UNCHANGED <<marked, sock, asked>>

-----------------------------------------------------------------------------
(* Mutant: the session is freed at once, in a receive callback too *)
CloseAtOnce(s) ==
    /\ AppRuns /\ mem[s] = "live" /\ s \notin asked
    /\ asked' = asked \cup {s}
    /\ CloseAndFree(s)
    /\ UNCHANGED <<flags, loop, sock>>

(* af_ipcc_close *)
Close(s) ==
    /\ AppRuns /\ mem[s] = "live" /\ s \notin asked
    /\ asked' = asked \cup {s}
    /\ IF inReceive[s]
       THEN marked' = Set(marked, s, TRUE) /\ UNCHANGED <<mem, fd, evt, closes, misuse>>
       ELSE CloseAndFree(s) /\ UNCHANGED marked
    /\ UNCHANGED <<inReceive, loop, sock>>

(* af_ipcc_send_request, af_ipcc_send_response or af_ipcc_send_unsolicited  *)
(* fails and frees the session, in a receive callback of it too.  One that  *)
(* succeeds changes nothing here.                                           *)
SendFails(s) ==
    /\ AppRuns /\ mem[s] = "live" /\ s \notin asked
    /\ s = loop.sess => SendFailsInside
    /\ CloseAndFree(s)
    /\ UNCHANGED <<flags, loop, sock, asked>>

(* Every session of the model has been used *)
Ended ==
    /\ loop.at = "idle" /\ \A s \in Sessions : mem[s] \in {"freed", "lost"}
    /\ UNCHANGED vars

LoopStep ==
    \/ RecvMessages \/ RecvNothing \/ RecvEnds
    \/ HandleMessage \/ CallbackReturns \/ HandleDone

Next ==
    \/ \E s \in Sessions :
          \/ PeerSends(s) \/ PeerCloses(s) \/ Open(s) \/ OpenFails(s)
          \/ OnRecv(s) \/ Close(s) \/ SendFails(s)
    \/ LoopStep \/ Ended

Spec == Init /\ [][Next]_vars

(* The event loop gets on with its handler, a callback returns, and every   *)
(* event that is due is handled in the end.                                 *)
Fairness ==
    /\ WF_vars(LoopStep)
    /\ \A s \in Sessions : SF_vars(OnRecv(s))

FairSpec == Spec /\ Fairness

-----------------------------------------------------------------------------
(* The close callback is called once for a session that is freed, and not   *)
(* before: the end of the stream, a close that was put off, a close made at *)
(* once and a failed send exclude each other.                               *)
CloseToldOnce ==
    \A s \in Sessions : closes[s] = IF mem[s] = "freed" THEN 1 ELSE 0

(* af_ipcc_client_on_recv does not touch the session when a callback it     *)
(* made, or a callback of another handler, has freed it.                    *)
NoUseAfterFree == misuse = {}

(* A close that was put off has a read handler on the stack that will make  *)
(* it: the mark is never left on a session nobody looks at.                 *)
MarkedIsAttended ==
    \A s \in Sessions : marked[s] /\ mem[s] = "live" =>
        loop.sess = s /\ loop.at \in {"handle", "receive_cb"}

(* Once af_ipcc_close was called, in a receive callback or outside, nothing *)
(* more is read from the session's socket: at most the messages of the      *)
(* buffer in hand are still delivered.                                      *)
NothingReadAfterClose ==
    [][\A s \in Sessions : inbox'[s] < inbox[s] => s \notin asked]_vars

(* A session for which af_ipcc_close was called gets its close callback *)
CloseIsReported == \A s \in Sessions : s \in asked ~> closes[s] > 0

(* A session whose peer goes away is closed and reported *)
EndIsReported == \A s \in Sessions : gone[s] ~> closes[s] > 0

=============================================================================

----------------------------- MODULE ReqControl -----------------------------
(***************************************************************************)
(* The pending-request database of one end of a connection                 *)
(* (af_ipc_common.c): requests sent with af_ipc_send, their timers, the     *)
(* replies af_ipc_handle_receive_message matches to them, and shutdown.     *)
(*                                                                         *)
(* Application threads call af_ipc_send; one event-loop thread runs the     *)
(* timers, the replies and the callbacks.  What the code does between       *)
(* pthread_mutex_lock and pthread_mutex_unlock is one action; a thread can  *)
(* be interrupted everywhere else.                                         *)
(*                                                                         *)
(* A request is named by its responseContext and issued once.  The peer     *)
(* answers what it was sent in any order, late, several times or never, so  *)
(* the messages under way are a set.                                       *)
(***************************************************************************)
EXTENDS Integers, Sequences

CONSTANTS
    Threads,        \* application threads that call af_ipc_send
    Requests,       \* requests (responseContext values)
    Slots,          \* af_ipc_request_t blocks the mempool can provide
    MaxSeqId,       \* largest sequence id, 0x7fff in the code
    NoTimeout,      \* the requests sent with timeoutMs = 0
    SlowSend,       \* may a request's timer expire before its sendmsg is over?
    KeepWindow,     \* is a sequence id reused only once it is forgotten?
    TIMEOUT,        \* AF_IPC_STATUS_TIMEOUT
    NoReq, NoSlot   \* NULL

ASSUME ConstantsAssumption ==
    /\ MaxSeqId \in Nat \ {0}
    /\ NoTimeout \subseteq Requests
    /\ SlowSend \in BOOLEAN
    /\ KeepWindow \in BOOLEAN
    /\ TIMEOUT \notin Requests \cup {NoReq}
    /\ NoReq \notin Requests
    /\ NoSlot \notin Slots

VARIABLES
    open,       \* the database is initialised (mutexCreated)
    lastSeqId,  \* req_control->lastSeqId
    mem,        \* contents of each block, kept when it is freed
    pending,    \* the blocks on the list pendingRequests
    thread,     \* where each application thread is in af_ipc_send
    loop,       \* where the event loop is
    ret,        \* what af_ipc_send returned for a request
    calls,      \* the invocations of a request's responseCallback
    peer,       \* the requests the peer has received and may still answer
    replies,    \* the requests an answer to which is under way
    seqOf,      \* the sequence id a request was sent with
    born,       \* the request was the born-th to be given a sequence id
    issued      \* how many sequence ids were generated

db == <<open, lastSeqId, mem, pending>>
net == <<peer, replies>>
history == <<seqOf, born, issued>>
vars == <<db, thread, loop, ret, calls, net, history>>

(* af_ipc_request_t.  An event is allocated with its timer running          *)
(* ("armed"), or is the one whose callback is running ("fired").            *)
RequestBlock == [seqNum : 0..MaxSeqId, event : {"none", "armed", "fired"},
                 context : Requests \cup {NoReq}]

Idle == [at |-> "idle", req |-> NoReq, slot |-> NoSlot]
Poll == [at |-> "poll", slot |-> NoSlot, req |-> NoReq, arg |-> NoReq]

(* The event loop in af_ipc_on_timeout for block s, before the lock, and    *)
(* about to call the response callback of r with a reply or TIMEOUT.        *)
InTimeout(s) == [at |-> "on_timeout", slot |-> s, req |-> NoReq, arg |-> NoReq]
InCallback(r, arg) == [at |-> "callback", slot |-> NoSlot, req |-> r, arg |-> arg]

(* A block with its event changed *)
WithEvent(block, event) ==
    [seqNum |-> block.seqNum, event |-> event, context |-> block.context]

TypeOK ==
    /\ open \in BOOLEAN
    /\ lastSeqId \in 0..MaxSeqId
    /\ mem \in [Slots -> RequestBlock]
    /\ pending \subseteq Slots
    /\ thread \in [Threads -> [at : {"idle", "sendmsg", "cleanup", "stuck"},
                               req : Requests \cup {NoReq},
                               slot : Slots \cup {NoSlot}]]
    /\ loop \in [at : {"poll", "on_timeout", "callback"},
                 slot : Slots \cup {NoSlot}, req : Requests \cup {NoReq},
                 arg : Requests \cup {TIMEOUT, NoReq}]
    /\ ret \in [Requests -> {"unused", "insend", "ok", "error"}]
    /\ calls \in [Requests -> Seq(Requests \cup {TIMEOUT})]
    /\ peer \subseteq Requests
    /\ replies \subseteq Requests
    /\ seqOf \in [Requests -> 0..MaxSeqId]
    /\ born \in [Requests -> Nat]
    /\ issued \in Nat

(* af_ipc_util_init_requests *)
Init ==
    /\ open = TRUE
    /\ lastSeqId = 0
    /\ mem = [s \in Slots |-> [seqNum |-> 0, event |-> "none", context |-> NoReq]]
    /\ pending = {}
    /\ thread = [t \in Threads |-> Idle]
    /\ loop = Poll
    /\ ret = [r \in Requests |-> "unused"]
    /\ calls = [r \in Requests |-> <<>>]
    /\ peer = {} /\ replies = {}
    /\ seqOf = [r \in Requests |-> 0]
    /\ born = [r \in Requests |-> 0]
    /\ issued = 0

-----------------------------------------------------------------------------
(* Mutants: the mask is forgotten; the id stays at its largest value *)
GenSeqIdUnmasked(last) == last + 1
GenSeqIdSaturates(last) == IF last = MaxSeqId THEN last ELSE last + 1

(* af_ipc_util_gen_seq_id: the id after last, 15 bits wide and never 0 *)
GenSeqId(last) ==
    LET next == (last + 1) % (MaxSeqId + 1) IN IF next = 0 THEN 1 ELSE next

(* The first block of the list with a sequence number.  The list is kept    *)
(* newest first: a new block is pushed at its head.                         *)
FirstWith(list, blocks, q) ==
    CHOOSE s \in list :
        /\ blocks[s].seqNum = q
        /\ \A u \in list : blocks[u].seqNum = q =>
               born[blocks[u].context] <= born[blocks[s].context]

(* Mutant: the head of the list is set to what follows the block found *)
RemoveRequestDropsHead(list, blocks, q) ==
    IF \E s \in list : blocks[s].seqNum = q
    THEN {u \in list : born[blocks[u].context] <
                       born[blocks[FirstWith(list, blocks, q)].context]}
    ELSE list

(* af_ipc_remove_request: unlink and free the first block with seqNum q *)
RemoveRequest(list, blocks, q) ==
    IF \E s \in list : blocks[s].seqNum = q
    THEN list \ {FirstWith(list, blocks, q)}
    ELSE list

(* req_control->mutex: only a thread stuck inside its critical section      *)
(* holds it from one action to the next.                                    *)
MutexFree == \A t \in Threads : thread[t].at # "stuck"

(* Tracked requests some thread is still sending *)
InSend == {thread[t].req : t \in {u \in Threads : thread[u].slot # NoSlot}}

(* Requests whose sequence id a message, a pending block or a sending       *)
(* thread still carries.                                                    *)
Live == peer \cup replies \cup {mem[s].context : s \in pending} \cup InSend

(* A new sequence id differs from every live one.  The code does not check  *)
(* it: it relies on 32767 ids lasting longer than any request does.         *)
InWindow == \A x \in Live : issued + 1 - born[x] < MaxSeqId

(* The block af_ipc_send fills in, its timer armed or not *)
NewBlock(r, event) ==
    [seqNum |-> GenSeqId(lastSeqId), event |-> event, context |-> r]

(* Generating a sequence id for r, the history of it included *)
TakeSeqId(r) ==
    /\ lastSeqId' = GenSeqId(lastSeqId)
    /\ issued' = issued + 1
    /\ born' = [born EXCEPT ![r] = issued + 1]
    /\ seqOf' = [seqOf EXCEPT ![r] = GenSeqId(lastSeqId)]

(* Thread t calls af_ipc_send for a request that was not sent before *)
Call(t, r) == open /\ thread[t].at = "idle" /\ ret[r] = "unused"

Return(r, value) == ret' = [ret EXCEPT ![r] = value]

(* The message is longer than AF_IPC_MAX_MSGLEN: EINVAL *)
SendTooLong(t, r) ==
    /\ Call(t, r)
    /\ Return(r, "error")
    /\ UNCHANGED <<db, thread, loop, calls, net, history>>

(* The mempool cannot provide a block: ENOMEM *)
SendNoMemory(t, r) ==
    /\ Call(t, r) /\ r \notin NoTimeout /\ MutexFree
    /\ pending = Slots
    /\ Return(r, "error")
    /\ UNCHANGED <<db, thread, loop, calls, net, history>>

(* evtimer_new fails: the block just pushed at the head is the first with   *)
(* its id and is removed; the id stays used.                                *)
SendNoTimer(t, r, s) ==
    /\ Call(t, r) /\ r \notin NoTimeout /\ MutexFree
    /\ s \notin pending
    /\ KeepWindow => InWindow
    /\ mem' = [mem EXCEPT ![s] = NewBlock(r, "none")]
    /\ TakeSeqId(r)
    /\ Return(r, "error")
    /\ UNCHANGED <<open, pending, thread, loop, calls, net>>

(* Mutant: evtimer_add is forgotten *)
SendRegisterNoTimer(t, r, s) ==
    /\ Call(t, r) /\ r \notin NoTimeout /\ MutexFree
    /\ s \notin pending
    /\ KeepWindow => InWindow
    /\ mem' = [mem EXCEPT ![s] = NewBlock(r, "none")]
    /\ TakeSeqId(r)
    /\ pending' = pending \cup {s}
    /\ thread' = [thread EXCEPT ![t] = [at |-> "sendmsg", req |-> r, slot |-> s]]
    /\ Return(r, "insend")
    /\ UNCHANGED <<open, loop, calls, net>>

(* The request is registered and its timer armed, up to the unlock *)
SendRegister(t, r, s) ==
    /\ Call(t, r) /\ r \notin NoTimeout /\ MutexFree
    /\ s \notin pending
    /\ KeepWindow => InWindow
    /\ mem' = [mem EXCEPT ![s] = NewBlock(r, "armed")]
    /\ TakeSeqId(r)
    /\ pending' = pending \cup {s}
    /\ thread' = [thread EXCEPT ![t] = [at |-> "sendmsg", req |-> r, slot |-> s]]
    /\ Return(r, "insend")
    /\ UNCHANGED <<open, loop, calls, net>>

(* timeoutMs = 0: the request is sent with sequence id 0 and not recorded *)
SendUntracked(t, r) ==
    /\ Call(t, r) /\ r \in NoTimeout
    /\ thread' = [thread EXCEPT ![t] = [at |-> "sendmsg", req |-> r, slot |-> NoSlot]]
    /\ Return(r, "insend")
    /\ UNCHANGED <<db, loop, calls, net, history>>

(* sendmsg succeeds.  A message with sequence id 0 asks for no answer. *)
SendmsgOk(t) ==
    /\ thread[t].at = "sendmsg"
    /\ peer' = IF thread[t].slot = NoSlot THEN peer ELSE peer \cup {thread[t].req}
    /\ Return(thread[t].req, "ok")
    /\ thread' = [thread EXCEPT ![t] = Idle]
    /\ UNCHANGED <<db, loop, calls, replies, history>>

(* sendmsg fails: a request with a block goes on to its cleanup *)
SendmsgFails(t) ==
    /\ thread[t].at = "sendmsg"
    /\ IF thread[t].slot = NoSlot
       THEN /\ Return(thread[t].req, "error")
            /\ thread' = [thread EXCEPT ![t] = Idle]
       ELSE /\ thread' = [thread EXCEPT ![t] =
                   [at |-> "cleanup", req |-> thread[t].req, slot |-> thread[t].slot]]
            /\ UNCHANGED ret
    /\ UNCHANGED <<db, loop, calls, net, history>>

(* Mutant: the request stays registered when sendmsg fails *)
CleanupSkipped(t) ==
    /\ thread[t].at = "cleanup" /\ MutexFree
    /\ Return(thread[t].req, "error")
    /\ thread' = [thread EXCEPT ![t] = Idle]
    /\ UNCHANGED <<db, loop, calls, net, history>>

(* The cleanup after a failed sendmsg: delete the block's timer, whoever    *)
(* uses the block by now, and remove the first request with its own id.     *)
Cleanup(t) ==
    /\ thread[t].at = "cleanup" /\ MutexFree
    /\ mem' = [mem EXCEPT ![thread[t].slot] = WithEvent(mem[thread[t].slot], "none")]
    /\ pending' = RemoveRequest(pending, mem, seqOf[thread[t].req])
    /\ Return(thread[t].req, "error")
    /\ thread' = [thread EXCEPT ![t] = Idle]
    /\ UNCHANGED <<open, lastSeqId, loop, calls, net, history>>

(* libevent's event_del waits for a callback of the event that another      *)
(* thread is running; that callback waits for the mutex this thread holds.  *)
CleanupBlocks(t) ==
    /\ thread[t].at = "cleanup" /\ MutexFree
    /\ loop.at = "on_timeout" /\ loop.slot = thread[t].slot
    /\ mem[thread[t].slot].event = "fired"
    /\ thread' = [thread EXCEPT ![t] =
          [at |-> "stuck", req |-> thread[t].req, slot |-> thread[t].slot]]
    /\ UNCHANGED <<db, loop, ret, calls, net, history>>

-----------------------------------------------------------------------------
(* A timer expires: the event loop enters af_ipc_on_timeout, which reads    *)
(* its argument before it takes the mutex.                                  *)
TimerFires(s) ==
    /\ open /\ loop.at = "poll" /\ mem[s].event = "armed"
    /\ SlowSend \/ \A t \in Threads : thread[t].slot # s
    /\ mem' = [mem EXCEPT ![s] = WithEvent(mem[s], "fired")]
    /\ loop' = InTimeout(s)
    /\ UNCHANGED <<open, lastSeqId, pending, thread, ret, calls, net, history>>

(* Mutant: the request expires without its callback *)
OnTimeoutSilent ==
    /\ loop.at = "on_timeout" /\ MutexFree
    /\ mem' = [mem EXCEPT ![loop.slot] = WithEvent(mem[loop.slot], "none")]
    /\ pending' = RemoveRequest(pending, mem, mem[loop.slot].seqNum)
    /\ loop' = Poll
    /\ UNCHANGED <<open, lastSeqId, thread, ret, calls, net, history>>

(* The critical section of af_ipc_on_timeout *)
OnTimeout ==
    /\ loop.at = "on_timeout" /\ MutexFree
    /\ mem' = [mem EXCEPT ![loop.slot] = WithEvent(mem[loop.slot], "none")]
    /\ pending' = RemoveRequest(pending, mem, mem[loop.slot].seqNum)
    /\ loop' = InCallback(mem[loop.slot].context, TIMEOUT)
    /\ UNCHANGED <<open, lastSeqId, thread, ret, calls, net, history>>

(* Mutants: the request stays on the list after its reply; any pending      *)
(* request takes the reply.                                                 *)
HandleReplyKeeps(x) ==
    /\ open /\ loop.at = "poll" /\ x \in replies /\ MutexFree
    /\ replies' = replies \ {x}
    /\ loop' = IF \E s \in pending : mem[s].seqNum = seqOf[x]
               THEN InCallback(mem[FirstWith(pending, mem, seqOf[x])].context, x)
               ELSE loop
    /\ UNCHANGED <<db, thread, ret, calls, peer, history>>

HandleReplyUnchecked(x) ==
    /\ open /\ loop.at = "poll" /\ x \in replies /\ MutexFree
    /\ replies' = replies \ {x}
    /\ \E s \in pending :
          /\ mem' = [mem EXCEPT ![s] = WithEvent(mem[s], "none")]
          /\ pending' = pending \ {s}
          /\ loop' = InCallback(mem[s].context, x)
    /\ UNCHANGED <<open, lastSeqId, thread, ret, calls, peer, history>>

(* af_ipc_handle_receive_message gets the reply to x: the first pending     *)
(* request with the reply's sequence id is removed and its callback is      *)
(* called after the unlock; a reply with an unknown id is dropped.          *)
HandleReply(x) ==
    /\ open /\ loop.at = "poll" /\ x \in replies /\ MutexFree
    /\ replies' = replies \ {x}
    /\ IF \E s \in pending : mem[s].seqNum = seqOf[x]
       THEN LET s == FirstWith(pending, mem, seqOf[x])
            IN  /\ mem' = [mem EXCEPT ![s] = WithEvent(mem[s], "none")]
                /\ pending' = RemoveRequest(pending, mem, seqOf[x])
                /\ loop' = InCallback(mem[s].context, x)
       ELSE UNCHANGED <<mem, pending, loop>>
    /\ UNCHANGED <<open, lastSeqId, thread, ret, calls, peer, history>>

(* The responseCallback runs outside the mutex, with a reply or TIMEOUT *)
RunCallback ==
    /\ loop.at = "callback"
    /\ calls' = [calls EXCEPT ![loop.req] = Append(calls[loop.req], loop.arg)]
    /\ loop' = Poll
    /\ UNCHANGED <<db, thread, ret, net, history>>

(* The peer's application answers a request it holds, and may do so again *)
PeerAnswers(x) ==
    /\ open /\ x \in peer \ replies
    /\ replies' = replies \cup {x}
    /\ UNCHANGED <<db, thread, loop, ret, calls, peer, history>>

PeerForgets(x) ==
    /\ open /\ x \in peer
    /\ peer' = peer \ {x}
    /\ UNCHANGED <<db, thread, loop, ret, calls, replies, history>>

(* af_ipc_util_shutdown_requests.  Its callers see to it that nobody is     *)
(* inside af_ipc_send or a callback (what happens when they do not is the   *)
(* subject of the modules of the callers).  No callback is called.          *)
Shutdown ==
    /\ open /\ loop.at = "poll"
    /\ \A t \in Threads : thread[t].at = "idle"
    /\ mem' = [s \in Slots |-> IF s \in pending THEN WithEvent(mem[s], "none") ELSE mem[s]]
    /\ pending' = {}
    /\ open' = FALSE
    /\ UNCHANGED <<lastSeqId, thread, loop, ret, calls, net, history>>

(* After shutdown the database is not used again *)
Closed == ~open /\ UNCHANGED vars

SendStep(t) ==
    \/ SendmsgOk(t) \/ SendmsgFails(t)
    \/ Cleanup(t) \/ CleanupBlocks(t)

Next ==
    \/ \E t \in Threads, r \in Requests :
          \/ SendTooLong(t, r) \/ SendNoMemory(t, r) \/ SendUntracked(t, r)
          \/ \E s \in Slots : SendNoTimer(t, r, s) \/ SendRegister(t, r, s)
    \/ \E t \in Threads : SendStep(t)
    \/ \E s \in Slots : TimerFires(s)
    \/ \E x \in Requests : HandleReply(x) \/ PeerAnswers(x) \/ PeerForgets(x)
    \/ OnTimeout \/ RunCallback \/ Shutdown \/ Closed

Spec == Init /\ [][Next]_vars

(* A thread inside af_ipc_send finishes it; the event loop runs every timer *)
(* that is due, finishes the handler it is in, and calls the callback.      *)
(* Nothing is assumed of the peer or of the application.                    *)
Fairness ==
    /\ \A t \in Threads : WF_vars(SendStep(t))
    /\ \A s \in Slots : WF_vars(TimerFires(s))
    /\ WF_vars(OnTimeout) /\ WF_vars(RunCallback)

FairSpec == Spec /\ Fairness

-----------------------------------------------------------------------------
(* The request is on the list, its timer running or its time-out being      *)
(* handled.                                                                 *)
Registered(r) ==
    \E s \in pending : mem[s].context = r /\
        \/ mem[s].event = "armed"
        \/ mem[s].event = "fired" /\ loop.at = "on_timeout" /\ loop.slot = s

(* An invocation of a response callback that carries an answer carries the  *)
(* answer to its own request: the sequence id a reply is matched by in      *)
(* af_ipc_handle_receive_message never belongs to another request.          *)
AnswersMatch ==
    \A r \in Requests : \A i \in 1..Len(calls[r]) : calls[r][i] \in {r, TIMEOUT}

(* The response callback of a request is called at most once, although the  *)
(* timer, a reply and a second reply to it race: each of them removes the   *)
(* request from the list before the callback is called.                     *)
CalledAtMostOnce == \A r \in Requests : Len(calls[r]) <= 1

(* A request for which af_ipc_send returned -1 is never called back: its    *)
(* timer is deleted and its block removed before the call returns.          *)
FailedSendIsSilent ==
    \A r \in Requests : ret[r] = "error" =>
        calls[r] = <<>> /\ loop.req # r /\ \A s \in pending : mem[s].context # r

(* While the connection is open, a request af_ipc_send accepted has been    *)
(* called back, is being called back, or is registered with a timer that    *)
(* will end it.                                                             *)
NoRequestLost ==
    \A r \in Requests \ NoTimeout :
        (open /\ ret[r] = "ok" /\ calls[r] = <<>>) => (Registered(r) \/ loop.req = r)

(* When af_ipc_send cleans up after a failed sendmsg, the block its req     *)
(* points to still is its own pending request.                              *)
CleanupOwnsRequest ==
    \A t \in Threads : thread[t].at \in {"cleanup", "stuck"} =>
        /\ thread[t].slot \in pending
        /\ mem[thread[t].slot].context = thread[t].req

(* No two pending requests have the same sequence id, so that the search of *)
(* the list by id that replies, time-outs and cleanups rely on is exact.    *)
PendingIdsDistinct ==
    \A s, u \in pending : mem[s].seqNum = mem[u].seqNum => s = u

(* Every request whose af_ipc_send began ends: the send fails, the callback *)
(* is called, or the database is shut down.                                 *)
EveryRequestEnds ==
    \A r \in Requests \ NoTimeout :
        ret[r] = "insend" ~> (ret[r] = "error" \/ calls[r] # <<>> \/ ~open)

-----------------------------------------------------------------------------
(* What the application sees of a request *)
StateOf(r) ==
    CASE ret[r] = "unused" -> "unused"
      [] ret[r] = "insend" -> "sending"
      [] ret[r] = "error"  -> "failed"
      [] ret[r] = "ok"     -> IF calls[r] # <<>>
                              THEN IF calls[r] = <<TIMEOUT>> THEN "expired" ELSE "answered"
                              ELSE IF open THEN "waiting" ELSE "dropped"

Contract == INSTANCE RequestContract WITH
    Requests <- Requests \ NoTimeout,
    state <- [r \in Requests \ NoTimeout |-> StateOf(r)]

(* The database keeps the contract of RequestContract, its liveness         *)
(* included, for every request sent with a timeout.                         *)
ImplementsContract == Contract!FairSpec

=============================================================================

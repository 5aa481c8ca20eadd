---------------------------- MODULE ReqControlInv ----------------------------
(***************************************************************************)
(* The inductive invariant behind the properties of ReqControl.  Shape      *)
(* holds for every value of the constants; the rest needs a timer that      *)
(* outlasts its request's sendmsg (~SlowSend) and sequence ids that are     *)
(* not reused while they are remembered (KeepWindow).                       *)
(***************************************************************************)
EXTENDS ReqControl

(* Which local variables are set at which point of af_ipc_send and of the  *)
(* event loop's handlers.                                                   *)
Shape ==
    /\ \A t \in Threads :
          IF thread[t].at = "idle" THEN thread[t] = Idle ELSE thread[t].req \in Requests
    /\ loop.at = "poll" => loop = Poll
    /\ loop.at = "on_timeout" =>
          loop.slot \in Slots /\ loop.req = NoReq /\ mem[loop.slot].context \in Requests
    /\ loop.at = "callback" =>
          loop.slot = NoSlot /\ loop.req \in Requests /\ loop.arg # NoReq
    /\ \A s \in Slots : s \in pending \/ mem[s].event # "none" =>
          mem[s].context \in Requests
    /\ \A r \in Requests : born[r] <= issued

(* A pending block: its request was not called back, and its timer runs or  *)
(* is what the event loop is handling.                                      *)
BlockInv == \A s \in pending :
    /\ mem[s].context \in Requests \ NoTimeout
    /\ mem[s].seqNum = seqOf[mem[s].context]
    /\ ret[mem[s].context] \in {"insend", "ok"}
    /\ calls[mem[s].context] = <<>>
    /\ loop.req # mem[s].context
    /\ \/ mem[s].event = "armed" /\ loop.slot # s
       \/ mem[s].event = "fired" /\ loop.slot = s
ListInv ==
    /\ \A s, u \in pending : mem[s].context = mem[u].context => s = u
    /\ \A s \in Slots \ pending : mem[s].event = "none"

(* A thread in af_ipc_send owns its request, alone *)
ThreadInv ==
    /\ \A t \in Threads : thread[t].at # "idle" =>
          /\ thread[t].at # "stuck"
          /\ ret[thread[t].req] = "insend"
          /\ calls[thread[t].req] = <<>>
          /\ thread[t].slot = NoSlot <=> thread[t].req \in NoTimeout
          /\ thread[t].slot = NoSlot => thread[t].at = "sendmsg"
          /\ thread[t].slot # NoSlot =>
                /\ thread[t].slot \in pending
                /\ mem[thread[t].slot].context = thread[t].req
                /\ loop.slot # thread[t].slot
    /\ \A t, u \in Threads :
          thread[t].at # "idle" /\ thread[t].req = thread[u].req => t = u
    /\ \A r \in Requests : ret[r] = "insend" =>
          \E t \in Threads : thread[t].at # "idle" /\ thread[t].req = r

(* What the event loop handles was taken off the list, or is about to be *)
LoopInv ==
    /\ loop.at = "on_timeout" => loop.slot \in pending
    /\ loop.at = "callback" =>
          /\ ret[loop.req] = "ok"
          /\ calls[loop.req] = <<>>
          /\ loop.arg \in {loop.req, TIMEOUT}

CallsInv == \A r \in Requests : calls[r] # <<>> =>
    ret[r] = "ok" /\ (calls[r] = <<r>> \/ calls[r] = <<TIMEOUT>>)

NetInv == \A x \in peer \cup replies : x \in Requests \ NoTimeout /\ ret[x] = "ok"

AwaitedInv == \A r \in Requests \ NoTimeout :
    (open /\ ret[r] = "ok" /\ calls[r] = <<>>) =>
        (loop.req = r \/ \E s \in pending : mem[s].context = r)

ClosedInv == ~open =>
    /\ pending = {} /\ loop.at = "poll"
    /\ \A t \in Threads : thread[t].at = "idle"

(* The distance in ids from a live request to the last one issued is the    *)
(* number of requests issued since, around the wrap at MaxSeqId or not.     *)
OnCircle(x) ==
    /\ born[x] \in 1..issued /\ issued - born[x] < MaxSeqId
    /\ seqOf[x] \in 1..MaxSeqId
    /\ \/ lastSeqId = seqOf[x] + (issued - born[x])
       \/ lastSeqId = seqOf[x] + (issued - born[x]) - MaxSeqId
WindowInv ==
    /\ \A x \in Live : OnCircle(x)
    /\ \A x, y \in Live : born[x] = born[y] => x = y

(* Everything at once: inductive when ~SlowSend and KeepWindow *)
IInv ==
    /\ TypeOK /\ Shape
    /\ BlockInv /\ ListInv /\ ThreadInv /\ LoopInv
    /\ CallsInv /\ NetInv /\ AwaitedInv /\ ClosedInv /\ WindowInv

=============================================================================

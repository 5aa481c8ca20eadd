------------------------------- MODULE IpcTools -------------------------------
(***************************************************************************)
(* The command-line tools.  ipc_send makes one request of the parameters   *)
(* on its command line and prints the answer; ipc_wait prints a message    *)
(* the server sends by itself.  Both give up after a time, and both may    *)
(* meet a server that goes away.                                           *)
(*                                                                         *)
(* One thread: every action is a callback of the event loop, or a stretch  *)
(* of main.  event_base_loopexit ends the loop a little later: whatever is *)
(* due by then still happens.  The server is the environment.              *)
(***************************************************************************)
EXTENDS ToolArgs, ToolText, FiniteSets

CONSTANTS
    CommandLines,         \* the options ipc_send may be started with
    Answers,              \* what a server sends to ipc_send: parameters, or Garbled
    Messages,             \* what it sends to ipc_wait
    Garbled,              \* bytes that are no message of parameters
    Nothing,
    IPC_SEND_MAX_PARAMS,  \* room in in_params and ret_params, 16 in the code
    TxRoom,               \* sizeof(txBuffer), 256 in the code
    MaxMsgs               \* messages the server sends

ASSUME ToolConstants ==
    /\ CommandLines \subseteq Seq(Option)
    /\ Answers \cup Messages \subseteq Seq(Param) \cup {Garbled}
    /\ Garbled \notin Seq(Param) /\ Nothing \notin Answers \cup Messages
    /\ Nothing \notin [answer : BOOLEAN, body : Answers \cup Messages]
    /\ IPC_SEND_MAX_PARAMS \in Nat \ {0} /\ TxRoom \in Nat /\ MaxMsgs \in Nat

VARIABLES
    tool,      \* "ipc_send" or "ipc_wait"
    pc,        \* "options", "base", "open", "loop", "end", "done"; "killed" by a signal
    given,     \* the command line
    next,      \* the option that is looked at next
    params,    \* in_params
    heap,      \* what main holds: parameters' memory, the base, the events
    s_server,  \* is the pointer set?
    session,   \* what it points to: "none", "live", "freed"
    timers,    \* timers that are armed: "send", "guard", "request", "exit"
    up,        \* does the server keep the connection?
    sent,      \* messages the server has sent
    inbox,     \* those not yet read
    asked,     \* was the request sent?
    outBuffer, \* the message received last, Nothing while dataReceived is 0
    heard,     \* history: the message a callback was last given
    output,    \* what was printed
    retVal

main == <<tool, given, next, params>>
server == <<up, sent, inbox>>
result == <<output, retVal>>
vars == <<main, pc, heap, s_server, session, timers, server, asked, outBuffer, heard, result>>

Memory(i) == <<"param", i>>
Objects(names) == {<<x, 0>> : x \in names}

Init ==
    /\ tool \in {"ipc_send", "ipc_wait"}
    /\ given \in IF tool = "ipc_send" THEN CommandLines ELSE {<<>>}
    /\ pc = "options" /\ next = 1 /\ params = <<>>
    /\ heap = {} /\ s_server = FALSE /\ session = "none" /\ timers = {}
    /\ up = TRUE /\ sent = 0 /\ inbox = <<>>
    /\ asked = FALSE /\ outBuffer = Nothing /\ heard = Nothing /\ output = Nothing /\ retVal = 1

-----------------------------------------------------------------------------
(* Mutant: the loop goes to num_in_params, which a wrong option leaves at 0 *)
DeallocCounted(held) ==
    held \ {Memory(i) : i \in {k \in DOMAIN params : next > Len(given) /\ IsAllocated(params[k])}}

(* dealloc_params: whatever parameters have memory, in all of in_params *)
Dealloc(held) ==
    held \ {Memory(i) : i \in {k \in 1 .. IPC_SEND_MAX_PARAMS :
                                  k \in DOMAIN params /\ IsAllocated(params[k])}}

(* main returns before it has a base *)
GiveUp ==
    /\ pc' = "done"
    /\ heap' = Dealloc(heap)

(* param_parser: one option.  -d names the server. *)
ParseOption ==
    LET o == given[next]
        p == Format(o)
    IN
    /\ pc = "options" /\ next <= Len(given)
    /\ next' = next + 1
    /\ \/ o.letter = "d" /\ UNCHANGED <<params, pc, heap>>
       \/ /\ o.letter # "d" /\ p # Error /\ Len(params) < IPC_SEND_MAX_PARAMS
          /\ params' = Append(params, p)
          /\ heap' = IF IsAllocated(p) THEN heap \cup {Memory(Len(params'))} ELSE heap
          /\ UNCHANGED pc
       \/ /\ o.letter # "d" /\ (p = Error \/ Len(params) >= IPC_SEND_MAX_PARAMS \/ IsAllocated(p))
          /\ GiveUp /\ UNCHANGED params   \* too many, malformed, or no memory
    /\ UNCHANGED <<tool, given, s_server, session, timers, server, asked, outBuffer, heard, result>>

(* The options are read: ipc_send needs a parameter *)
OptionsDone ==
    /\ pc = "options" /\ next > Len(given)
    /\ IF tool = "ipc_send" /\ params = <<>>
       THEN GiveUp
       ELSE pc' = "base" /\ UNCHANGED heap
    /\ UNCHANGED <<main, s_server, session, timers, server, asked, outBuffer, heard, result>>

(* The arguments are wrong in number or form: ipc_send wants an even count  *)
(* of them, ipc_wait nothing or -t and a time behind the server's name.    *)
Usage ==
    /\ pc = "options" /\ next = 1
    /\ GiveUp
    /\ UNCHANGED <<main, s_server, session, timers, server, asked, outBuffer, heard, result>>

(* event_base_new *)
NewBase ==
    /\ pc = "base"
    /\ \/ GiveUp
       \/ pc' = "open" /\ heap' = heap \cup Objects({"base"})
    /\ UNCHANGED <<main, s_server, session, timers, server, asked, outBuffer, heard, result>>

(* af_ipcc_open_server fails: event_base_free, dealloc_params *)
OpenFails ==
    /\ pc = "open"
    /\ pc' = "done"
    /\ heap' = Dealloc(heap \ Objects({"base"}))
    /\ UNCHANGED <<main, s_server, session, timers, server, asked, outBuffer, heard, result>>

(* The timers main has *)
Events == IF tool = "ipc_send" THEN {"send", "guard"} ELSE {"guard"}

(* The session, the timers, and event_base_dispatch *)
Open ==
    /\ pc = "open"
    /\ pc' = "loop"
    /\ s_server' = TRUE /\ session' = "live"
    /\ timers' = Events
    /\ heap' = heap \cup Objects(Events)
    /\ UNCHANGED <<main, server, asked, outBuffer, heard, result>>

-----------------------------------------------------------------------------
(* Mutant: the pointer is kept *)
OnCloseKeeps ==
    /\ session' = "freed"
    /\ timers' = (timers \ {"request"}) \cup {"exit"}
    /\ UNCHANGED s_server

(* The library frees the session and its request, and calls on_close *)
OnClose ==
    /\ session' = "freed"
    /\ timers' = (timers \ {"request"}) \cup {"exit"}
    /\ s_server' = FALSE

TxSize == FoldLeft(LAMBDA n, p : n + EncodedSize(p), 2, params)

(* ipc_send_wrapper.  Without a session, or when the parameters are too    *)
(* long, nothing is sent; a send that fails frees the session; to a server *)
(* that is gone, SIGPIPE ends the program.                                 *)
Wrapper ==
    /\ pc = "loop" /\ "send" \in timers
    /\ \/ /\ TxSize > TxRoom \/ ~s_server
          /\ timers' = timers \ {"send"} /\ UNCHANGED <<pc, s_server, session, asked>>
       \/ /\ TxSize <= TxRoom /\ s_server /\ up
          /\ asked' = TRUE /\ timers' = (timers \ {"send"}) \cup {"request"}
          /\ UNCHANGED <<pc, s_server, session>>
       \/ /\ TxSize <= TxRoom /\ s_server /\ up
          /\ session' = "freed" /\ s_server' = FALSE
          /\ timers' = (timers \ {"send"}) \cup {"exit"} /\ UNCHANGED <<pc, asked>>
       \/ /\ TxSize <= TxRoom /\ s_server /\ ~up
          /\ pc' = "killed" /\ UNCHANGED <<timers, s_server, session, asked>>
    /\ UNCHANGED <<main, heap, server, outBuffer, heard, result>>

Reads ==
    /\ pc = "loop" /\ session = "live" /\ inbox # <<>>
    /\ inbox' = Tail(inbox)
    /\ UNCHANGED <<main, pc, heap, s_server, session, up, sent, asked, result>>

(* ipc_send_rx_callback, handle_receive *)
Receive ==
    /\ outBuffer' = Head(inbox).body /\ heard' = Head(inbox)
    /\ timers' = (timers \ {"request"}) \cup {"exit"}

(* The answer to the request *)
OnAnswer ==
    /\ Reads /\ Head(inbox).answer /\ "request" \in timers
    /\ Receive

(* ipc_wait: a message that is no answer *)
OnMessage ==
    /\ Reads /\ ~Head(inbox).answer /\ tool = "ipc_wait"
    /\ Receive

(* An answer nobody waits for; ipc_send has no receive callback *)
OnOther ==
    /\ Reads /\ (IF Head(inbox).answer THEN "request" \notin timers ELSE tool = "ipc_send")
    /\ UNCHANGED <<outBuffer, heard, timers>>

(* Mutant: the end of the stream discards what was received *)
OnEndForgets ==
    /\ pc = "loop" /\ session = "live" /\ inbox = <<>> /\ ~up
    /\ OnClose /\ outBuffer' = Nothing
    /\ UNCHANGED <<main, pc, heap, server, asked, heard, result>>

(* The end of the stream *)
OnEnd ==
    /\ pc = "loop" /\ session = "live" /\ inbox = <<>> /\ ~up
    /\ OnClose
    /\ UNCHANGED <<main, pc, heap, server, asked, outBuffer, heard, result>>

(* The request times out: the callback gets no data *)
RequestTimesOut ==
    /\ pc = "loop" /\ "request" \in timers
    /\ timers' = (timers \ {"request"}) \cup {"exit"}
    /\ UNCHANGED <<main, pc, heap, s_server, session, server, asked, outBuffer, heard, result>>

(* Mutant: the callback leaves the loop running *)
GuardFiresIdle ==
    /\ pc = "loop" /\ "guard" \in timers /\ "send" \notin timers
    /\ timers' = timers \ {"guard"}
    /\ UNCHANGED <<main, pc, heap, s_server, session, server, asked, outBuffer, heard, result>>

(* ipc_send_tmout_callback after 5.5 seconds, and after the send timer: its *)
(* 0.2 seconds are over before; handle_timeout.  The request's 3 seconds    *)
(* are over too, unless the program was stopped for a while.                *)
GuardFires ==
    /\ pc = "loop" /\ "guard" \in timers /\ "send" \notin timers
    /\ timers' = (timers \ {"guard"}) \cup {"exit"}
    /\ UNCHANGED <<main, pc, heap, s_server, session, server, asked, outBuffer, heard, result>>

LeaveLoop ==
    /\ pc = "loop" /\ "exit" \in timers
    /\ pc' = "end"
    /\ timers' = timers \ {"exit"}
    /\ UNCHANGED <<main, heap, s_server, session, server, asked, outBuffer, heard, result>>

-----------------------------------------------------------------------------
(* af_rpc_get_params_from_buffer of a message of parameters: more than     *)
(* there is room for count as none.                                        *)
Parsed(m) == IF Len(m) > IPC_SEND_MAX_PARAMS THEN <<>> ELSE m

(* main after event_base_dispatch: the text is made and printed; then       *)
(* dealloc_params, af_ipcc_close, which calls on_close, event_free and      *)
(* event_base_free.                                                         *)
Succeeds ==
    /\ outBuffer \notin {Nothing, Garbled}
    /\ Printing(Parsed(outBuffer)).state # "failed"

Finish ==
    /\ pc = "end"
    /\ pc' = "done"
    /\ IF Succeeds
       THEN output' = Printing(Parsed(outBuffer)).cells /\ retVal' = 0
       ELSE UNCHANGED result
    /\ heap' = Dealloc(heap) \ Objects(Events \cup {"base"})
    /\ timers' = {}
    /\ s_server' = FALSE
    /\ session' = IF s_server THEN "freed" ELSE session
    /\ UNCHANGED <<main, server, asked, outBuffer, heard>>

-----------------------------------------------------------------------------
(* The server: it answers once it was asked, sends other messages, leaves  *)
ServerSends ==
    /\ up /\ session = "live" /\ sent < MaxMsgs
    /\ \E body \in IF tool = "ipc_send" THEN Answers ELSE Messages, answer \in {FALSE, asked} :
          inbox' = Append(inbox, [answer |-> answer, body |-> body])
    /\ sent' = sent + 1
    /\ UNCHANGED <<main, pc, heap, s_server, session, timers, up, asked, outBuffer, heard, result>>

ServerLeaves ==
    /\ up /\ session = "live"
    /\ up' = FALSE
    /\ UNCHANGED <<main, pc, heap, s_server, session, timers, sent, inbox, asked, outBuffer, heard, result>>

Ended == pc \in {"done", "killed"} /\ UNCHANGED vars

ToolStep ==
    \/ ParseOption \/ OptionsDone \/ Usage \/ NewBase \/ OpenFails \/ Open
    \/ Wrapper \/ OnAnswer \/ OnMessage \/ OnOther \/ OnEnd
    \/ RequestTimesOut \/ GuardFires \/ LeaveLoop \/ Finish

Next == ToolStep \/ ServerSends \/ ServerLeaves \/ Ended

Spec == Init /\ [][Next]_vars

(* main goes on, and every timer that is armed fires unless it is disarmed *)
FairSpec ==
    /\ Spec
    /\ WF_vars(ParseOption) /\ WF_vars(OptionsDone) /\ WF_vars(NewBase) /\ WF_vars(Open \/ OpenFails)
    /\ WF_vars(Wrapper) /\ WF_vars(RequestTimesOut) /\ WF_vars(GuardFires)
    /\ WF_vars(LeaveLoop) /\ WF_vars(Finish)

-----------------------------------------------------------------------------
TypeOK ==
    /\ tool \in {"ipc_send", "ipc_wait"}
    /\ pc \in {"options", "base", "open", "loop", "end", "done", "killed"}
    /\ given \in Seq(Option) /\ next \in 1 .. Len(given) + 1
    /\ Len(params) < next /\ Len(params) <= IPC_SEND_MAX_PARAMS
    /\ heap \subseteq {Memory(i) : i \in DOMAIN params} \cup Objects({"base", "send", "guard"})
    /\ s_server \in BOOLEAN /\ session \in {"none", "live", "freed"}
    /\ timers \subseteq {"send", "guard", "request", "exit"}
    /\ up \in BOOLEAN /\ sent \in 0 .. MaxMsgs /\ asked \in BOOLEAN
    /\ inbox \in Seq([answer : BOOLEAN, body : Answers \cup Messages])
    /\ outBuffer \in Answers \cup Messages \cup {Nothing}
    /\ retVal \in {0, 1}

(* The pointer is set exactly as long as the session lives: on_close comes *)
(* in time, and neither a send nor the close at the end meets a session    *)
(* that the library has freed.                                             *)
PointerIsSession == s_server <=> session = "live"

(* However main ends, it has released what it took: the parameters' memory *)
(* also when a later option is wrong, the session, the events and the base *)
ReleasedAtEnd == pc = "done" => heap = {} /\ session # "live"

(* Whatever main and the library take is released, and a session once: by   *)
(* the library or by main, never by both.                                  *)
ReleasedOnce == PointerIsSession /\ ReleasedAtEnd

(* The place among the parameters of the k-th option: -d is none *)
Place(k) == Cardinality({j \in 1 .. k : given[j].letter # "d"})

(* The request holds what the command line states, in its order: a number  *)
(* that fits its type is kept, one that does not is refused; strings and   *)
(* blobs have their sizes.  Numbers of more than 32 bits are not told from *)
(* what their low bits say, nor blobs of 16384 bytes from empty ones.      *)
RequestAsStated ==
    asked =>
        /\ Len(params) = Place(Len(given))
        /\ \A k \in DOMAIN given :
              given[k].letter # "d" /\ InWord(given[k]) => AsStated(params[Place(k)], given[k])

(* The message that a callback was given last decides the exit status: it  *)
(* is not lost when a time-out or the end of the stream is handled before  *)
(* the loop is left.  Success of ipc_send means the answer to its request. *)
StatusTellsAnswer ==
    pc = "done" =>
        /\ retVal = 0 <=> /\ heard # Nothing /\ heard.body # Garbled
                          /\ Printing(Parsed(heard.body)).state # "failed"
        /\ retVal = 0 /\ tool = "ipc_send" => heard.answer /\ asked

(* ret_string is not written behind its end, and it ends with a NUL *)
TextStaysInside ==
    output # Nothing => Len(output) = Room /\ output[Room] = NUL

(* A message whose only integer comes first and whose only string comes    *)
(* last is shown whole.  Of others the tools show less: an integer further *)
(* on takes the place of everything before it, nothing follows a string,   *)
(* and a string without a terminator shows as one quote.                   *)
ShowsWholeMessage ==
    output # Nothing /\ Showable(heard.body) /\ Len(heard.body) <= IPC_SEND_MAX_PARAMS
        => Printed(output) = WholeText(heard.body)

(* What is printed lies in ret_string and shows the message *)
TextIsWhole == TextStaysInside /\ ShowsWholeMessage

(* A tool ends, whether the server answers, stays silent or goes away, and *)
(* when there was nothing to send                                          *)
ToolEnds == <>(pc \in {"done", "killed"})

=============================================================================

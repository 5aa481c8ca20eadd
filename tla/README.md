# Verification of libaf_ipc

libaf_ipc is a C library for processes on one machine that talk over a Unix
stream socket: one server, several clients, requests with a time limit,
answers, and messages nobody answers. This directory holds TLA+ models of it,
the TLC configurations that check them, and TLAPS proofs of what the models
promise for every size. File and line references are to `src/pkg/src/`.

## 1. The system

| Component | State | Operations | What makes it correct |
|---|---|---|---|
| Request database (`af_ipc_common.c`, one per connection end) | list of pending requests, pool, last sequence id, mutex, one timer per request | `af_ipc_send`, `af_ipc_on_timeout`, the reply branch of `af_ipc_handle_receive_message`, init, shutdown | a callback gets its own answer or a time-out, once; a failed send is silent; an accepted request ends |
| Framing (`af_ipc_handle_receive_message`) | a read buffer | split it into messages, call back for each | messages arrive whole, in order |
| Sequence numbers (`af_ipc_prv.h`) | 16-bit client id, NEW bit, 15-bit id | build, take apart | an answer is routed to the client and the request it belongs to |
| Server (`af_ipc_server.c`) | list of clients, its mutex, last client id, per client: socket, read event, flags, request database | accept, read, three sends, close a client, close | a client on the list is usable; it is freed and reported once; ids differ |
| Client (`af_ipc_client.c`) | session: socket, read event, flags, request database | open, read, three sends, close | freed and reported once; a deferred close happens |
| RPC codec (`af_rpc.c`) | the caller's buffer | begin a buffer, add parameters, create it at once, parse it, read it in turn | what is encoded parses to itself; what is accepted is nothing but its parameters |
| Tools (`ipc_send.c`, `ipc_wait.c`) | parameters, session pointer, timers, last answer | read the command line, connect, send, wait, print | the request is what was stated; exit status and text are those of the answer; everything is released; they end |
| Test programs (`libaf_ipc_test_*.c`) | pending tests, replies counted, failures | the four tests, in both directions | no failure is counted; a test ends |

How they interact: the application calls the client or the server from its own
threads and from callbacks; both use `af_ipc_send` to send and
`af_ipc_handle_receive_message` for what they read; the latter calls the
application back, which may call any function of the library. One thread, the
event loop of libevent, runs the read handlers, the timers and all callbacks.
The request database has a mutex of its own, the server has one for its
client list, the client has none.

The hard parts: a send racing its own timer and its reply; code that goes on
with a pointer after a callback or an unlock in which the object may have been
freed; two threads that close one client; ids that wrap; edge-triggered events;
a mutex taken twice; failures half-way; a stream that is read in pieces;
requests of both ends that cross under the same id; programs that leave while
others write to them. `PROJECT.json` lists them as hazards
with their lines.

## 2. Modules

| Module | Models | Kind |
|---|---|---|
| `RequestContract` | what a request's sender may rely on | abstract specification |
| `ReqControl` | the request database | detailed specification, properties, refinement |
| `ReqControlInv` | its inductive invariant | invariant |
| `IpcServer` | the server | specification and properties |
| `IpcClient` | the client | specification and properties |
| `IpcFraming` | messages on a stream of bytes | specification and properties |
| `IpcSeqNum` | the 32-bit sequence number | operators |
| `TestPrograms` | test server and test clients over the library, end to end; uses `IpcSeqNum` | composition and properties |
| `RpcTlv` | the RPC codec | specification and properties |
| `ToolArgs`, `ToolText` | the command line of `ipc_send`; the text both tools print | operators |
| `IpcTools` | `ipc_send` and `ipc_wait`; uses both | specification and properties |
| `ReqControlProofs`, `IpcServerProofs`, `IpcClientProofs`, `IpcFramingProofs`, `RpcTlvProofs`, `IpcToolsProofs`, `TestProgramsProofs` (with the layout of `IpcSeqNum`) | | lemmas and theorems |
| `NatLemmas` | | lemmas on numbers and sets of them, induction among them |
| `MCReqControl`, `MCIpcServer`, `MCIpcClient`, `MCIpcTools`, `MCRpcTlv` | | symmetry sets and constants for TLC |

The modules meet in their abstractions. `IpcFraming` shows when a stream
delivers whole messages in order; `IpcServer`, `IpcClient`, `IpcTools` and
`TestPrograms` take messages that are whole. `ReqControl` shows what a request
database does with its threads and timers; `TestPrograms` takes it as a set of
pending requests. `RpcTlv` shows when a message is its parameters; `ToolText`
takes the parameters.

Definitions marked "Mutant" are deliberate mistakes of the kind the code could
have; replacing the definition that follows by one of them must break a
property (`PROJECT.json`, `mutants`). Nothing else uses them.

### ReqControl

`thread[t]` is where an application thread is in `af_ipc_send`: outside
(`idle`), registered and about to call or inside `sendmsg`, about to clean up,
or blocked in `event_del` (`stuck`). `loop` is where the event loop is: between
handlers (`poll`), in `af_ipc_on_timeout` before its lock, or about to call a
response callback. A critical section is one action. `mem` holds the blocks of
the pool, freed ones with their old contents, and `pending` those on the list;
the list is newest first, which `FirstWith` recovers from `born`, the order in
which ids were taken. The code searches by sequence id, so the model does too:
`RemoveRequest` removes the first block with an id, whoever's it is.

The peer is external: it holds the requests it got, answers any of them at any
time, twice if it likes, or forgets them. The messages under way are a set:
the order of a stream is not used, since the two ends of one connection answer
in any order anyway.

`seqOf`, `born`, `issued`, `ret` and `calls` are history.

Two constants switch assumptions about the surroundings on and off:

* `SlowSend`: may a timer expire before its own `sendmsg` has returned?
  `sendmsg` is called without `MSG_DONTWAIT`; on a blocking socket it can take
  any time.
* `KeepWindow`: a new id is given only when no message, block or sender still
  carries it. The code does not check this. It relies on 32767 ids lasting
  longer than any request does, and so do the proofs.

`af_ipc_util_shutdown_requests` is taken when no thread is in `af_ipc_send` and
no callback runs. That it is called so is up to the server and the client.

A request sent with `timeoutMs` = 0 (`NoTimeout`) goes out with sequence id 0
and nothing is recorded: its callback is never called, although the client's
header offers 0 as "no timeout" (`af_ipc_client.h:91`). The properties about
answers leave these requests out.

### RequestContract

A request is unused, sending, failed, waiting, answered, expired or, when the
connection is closed while it waits, dropped without a callback. `ReqControl`
refines it through `StateOf`, for the requests with a timeout.

### IpcServer

A client is named by its connection. `mem` tells whether its memory is live or
freed; using a freed client puts it in `misuse`. `closing[a]` is how far actor
`a` is in `close_client`, which is four steps: shut down the socket and free the
event; unlink under the mutex; free and close; call back. The mutex is held
from one action to the next only by an event loop that waits for itself
(`AcceptNoEvent`). `loop` is the position in `on_accept` or `on_recv`. The
request databases of the clients are left to `ReqControl`; of a request that a
client sent only the client id matters (`held`, `answered`). A send that
succeeds changes nothing here; broadcasts ignore failures and change nothing
at all.

Switches: `CloseIn` (in which of its own callbacks a client may be closed or a
send to it fail), `ThreadsClose` (may threads other than the loop come to close
a client), `EventFails` (`event_new` in `add_client` and `event_add` in
`on_accept`, whose result nobody looks at), `MayClose` (`af_ipcs_close`),
`KeepCids` (an id is not reused while the application holds a request of its
old owner).

A reply is looked up in the request database, which is part of the client, so
handling one is a use of the client like `on_recv`'s own; the same holds of
the session in `IpcClient`.

`af_ipcs_close` leaves sockets and events of its clients as they are, because
the flag it tests is never set; `ServerClose` does the same.

### IpcClient

One event-loop thread. `inReceive` and `marked` are the two flags. The session
is freed by the end of the stream, by `af_ipcc_close` at once, by
`af_ipcc_close` later (`HandleDone`), or by a failing send. The application
keeps to the header: it does not touch a session it has closed or was told is
closed. Several sessions live side by side, so that callbacks of one can open
and close others. `SendFailsInside` says whether a send may fail inside a
receive callback of its session. `NothingReadAfterClose` says how far a close
inside a receive callback is put off: the messages of the buffer in hand are
still delivered (the flag is looked at behind the loop, `af_ipc_client.c:211`),
but nothing more is read.

### IpcFraming

A byte is its place in the stream, so a message is an interval (`msgs`), and so
is the buffer that `recv` filled (`buf`) and what the callback was given
(`got`). `pos` is the parser's. Where a header begins the length is that of the
message (`Stated`); anywhere else the parser reads the middle of a payload, and
any length may stand there. `lag` remembers that a `recv` found more than its
buffer holds: from then on a message may be cut, the rest of the buffer is
dropped (`IgnoreRest`), and what follows may be anything, until the receiver
has read all there is (`fresh`, `RecoversWhenDrained`).

The header has 8 bytes, four for the number, two for the length and two of
padding; `af_ipc_common.h:21` still counts 6. The code uses `sizeof`.

### IpcSeqNum and TestPrograms

`IpcSeqNum` has the macros of `af_ipc_prv.h` and the two places of
`af_ipc_common.c` that build and take apart a number. `TestPrograms` puts two
ends together: every message in it carries such a number. The server program
and each client program are one thread each; a callback with its sends is one
action. `mode` is the option of the client program. Requests of both ends
start from the same id, so that `CLIENT_COMMANDS` and `SERVER_COMMANDS_TO_CLIENT`
cross with equal ids.

The failures that the programs count are the test's own verdict
(`NoFailures`). A broadcast restarts the tests of every client that is
connected, while replies to the round before are still coming. A program that
leaves closes its socket; the other end then reads the end of the stream, or
writes first and is killed by SIGPIPE, which nothing in the library turns off
(`KilledOnlyInCompany`). The client program passes no close callback and
closes its session after the loop: when the server has gone, that session is
freed already (`misuse`, `FreedOnlyAfterServer`). Requests between the server
and the clients in `Slow` may time out; a test that lost a reply never ends,
and `TestEnds` excepts it.

### ToolArgs, ToolText and IpcTools

An option is a letter, a size and what the parser looks at in the text behind
it: its sign, whether it is digits, its value and its length. The widths of the
C types are parameters. `strtol` gives a long that is cut to 32 bits before its
bounds are looked at (`ipc_send.c:129`), and a minus or an empty text counts as
digits; the model has both. The size of a string or a blob is cut to the 14
bits (`SizeBits`) a type word has for it (`af_rpc.h:129-139`): an `-h` of 16384
bytes is asked as an empty blob, and is sent, though its bytes are not.
`RequestAsStated` is about numbers of up to 32 bits, and strings and blobs
whose size can be told.

`ToolText` is the loop over the parameters of an answer, on cells that are
named, not spelled. An integer is copied to the front of the text
(`ipc_send.c:562`, `ipc_wait.c:224`), over what was there, and a string ends
the loop (`ipc_send.c:581`): that the text is whole is said of messages to
which neither happens; that it stays in its array is said of all. Strings and
blobs may be empty: of an empty blob nothing is written, not even a NUL, and a
string that lacks its terminator shows as one quote, its closing quote taking
the place of the opening one (`ipc_send.c:575`). A message with more parameters than there is room for is
printed as an empty line, with exit status 0, since the parser returns 0
(`af_rpc.c:431`).

`IpcTools` is both programs' `main` and callbacks; `heap` is what `main` has
to release: the memory of each string or blob, the base once `event_base_new`
has made it (`NewBase`), the events. `Dealloc` is `dealloc_params`, which goes
by the parameters and not by their count, since the count is not set when an
option was wrong. `timers` is what is armed, `heard` the message a callback got last.
`event_base_loopexit` ends the loop a moment later, which is the timer "exit":
other events come in between.

### RpcTlv

One buffer, in real bytes, and the program that builds a message in it (`tx`)
or has received one into it (`rx`). Each function that writes is an action; the
readers at a position are actions too, since a program calls them in turn with
the position the last one returned (`cursor`). `get_params_from_buffer` changes
nothing but its caller's array and is the operator `GetParams`, which the
properties apply to every buffer that is reached. Values are sequences of
bytes, so that widening, narrowing and the wire order are what the code does.

`built` and `reads` are history. `Encoded` defines the wire form on its own,
independent of the code: `BufferIsEncoding` compares buffers with it, and
`ParseIsExact` asks that an accepted message be the wire form of the result.
Two things the code does are visible here: a message of two bytes counts as
empty whatever length below three it states, and more parameters than the
caller has room for make `get_params_from_buffer` return 0, not an error. No
property calls either wrong.

After `create_buffer_with_params` has failed, the buffer is not used until it
is begun again: its length is the old one and its contents may be new.

## 3. Runs

| Run | Instance | Result |
|---|---|---|
| `requests` | 2 threads, 3 requests, 2 blocks, 2 ids | all safety properties hold; every request ends; the contract is kept |
| `req_slow` | 2 threads, 4 requests (one without timeout), 2 blocks, 2 ids, slow sends | `AnswersMatch` holds |
| `req_slow_cleanup` | slow sends | violated: cleanup on a freed block |
| `server_safety` | 3 connections, 2 sockets, 2 ids, 1 thread, `event_new` or `event_add` may fail, the server may close | list, ids, single close, routing hold |
| `server_live` | 2 connections, 2 messages each | messages are read, ends are reported, a close ends |
| `server_close_in_callback` | a client is closed in its receive callback | violated: used after free |
| `server_close_all` | `af_ipcs_close` | violated: no close callbacks |
| `client` | 2 sessions, 2 messages | freed and reported once, no use after free, nothing read after a close, every close and every end reported |
| `framing` | 4 messages, header of 2, buffer of 6 bytes | loss only after a burst longer than the buffer; order; recovery; the stream is read |
| `test_programs` | 2 clients in all modes, 2 requests a test, one client with time-outs | no failures; answers find their requests; who may be killed or misuse a session; tests end |
| `tools` | all numbers around 2-, 3- and 4-bit types, sizes around a 3-bit one, up to 3 options, text of 10 cells, 2 messages | requests, exit status and text are right; all is released; the tools end |
| `rpc_tlv` | 8-byte buffers begun twice; received messages of up to 7 bytes over 5 byte values | building, parsing and reading agree |

The type invariants of `IpcClient`, `IpcFraming` and `RpcTlv` are proved and
those of `TestPrograms` and `IpcTools` only say what the variables hold; the
runs spend their time on the other properties.

A run that ends in a violation stands for a disagreement between the code and a
sentence of the repository; `PROJECT.json` quotes it under `findings`.

The passing runs rest on the switches, and each one matters. Turned the other
way, TLC finds:

* `KeepWindow = FALSE` in `Requests.cfg`: two pending requests with the same id,
  and an answer given to a later request that has it.
* `KeepCids = FALSE` in `ServerSafety.cfg`: an answer sent to another client with
  the same id.
* `ThreadsClose = TRUE` there: a client closed, freed and reported twice, because
  the mutex is released before `close_client` is called.
* `EventFails = TRUE` in `ServerLive.cfg`: the deadlock of `add_client`, which
  calls `close_client` with the mutex that it then waits for (and with
  `CHECK_DEADLOCK FALSE` a broken `CloseCompletes`); and a client whose event was
  not added, so that neither its data nor its end is noticed (`DataIsRead`,
  `EndIsReported`).
* `SendFailsInside = TRUE` in `Client.cfg`: a session that a failing send freed
  inside its receive callback and that `af_ipcc_client_on_recv` goes on using
  (`NoUseAfterFree`).

What is switched off in a passing run is a hazard that no property of that run
covers; `PROJECT.json` says so at each.

**Bounds.** Two blocks and three or four requests make a block serve twice and
the pool run out; two ids for them make the id wrap while requests are
pending. Two sockets for three connections make a refused connection, a reused
id and two clients at a time happen; two ids make the search in `get_next_cid`
skip an id in use. Two messages make a read that takes part of what is
there, a callback with more messages behind it and an arrival between two reads
happen. Eight bytes hold two integers or three blobs and overflow on most
third parameters; seven received bytes hold two parameters with a byte to spare
or to miss, and the five byte values make up valid types, a type without a size,
stray bits and blob sizes. There is one blob of each length
up to `MaxBlob`, since the codec does not look into them, and the words are a
negative number and one that needs the highest bit of a byte. `MaxStarts` = 2 builds each message over fresh bytes
and over older messages. Four messages of 2 to 6 bytes
over a buffer of 6 make a buffer with one, two and three messages, a message
that is cut, a parser out of step and its recovery; a header of two bytes tells
a missing header from half a one, and a length field up to 7 states too little,
too much and the right length. Two test clients are the least that a broadcast,
a killed server and a mixed round need, and two requests are the least whose
answers can be exchanged. Numbers 0 to 17 with both signs lie on both sides of
every bound of types of 2, 3 and 4 bits; blobs of 6 to 9 bytes lie on both sides of
what three bits of size can tell and of what the buffer can hold; ten cells of
text hold two parameters or fall one short, and empty strings and blobs come
first and second among them. `MaxMsgs` bounds what a peer sends altogether: on an endless stream
`on_recv` never returns, and nothing holds for the other clients.

**Deadlock** is checked but for `rpc_tlv` (a sequential program that is done),
`req_slow` and `server_safety`: with slow sends `event_del` and
`af_ipc_on_timeout` may wait for each other, and after a failed `event_new` the
event loop waits for itself.

**Fairness.** A thread in `af_ipc_send` goes on (weak fairness of its steps;
`sendmsg` returns). libevent runs a timer that is due, and the event loop
finishes the handler it is in. `OnRecv` is strongly fair: libevent serves all
events that are due in a round before it starts another, so one that is due
again and again is served even though the loop is busy in between; for the test
server the same holds of accepting and reading. A program of its own goes on
(`IpcTools`, `TestPrograms`: weak fairness of its steps), and an armed timer of
a tool fires unless it is disarmed. Nothing is assumed of peers, users or
applications: a server need not answer a tool, and a client program need not be
started.

## 4. Proofs

All theorems hold for every value of the constants that the named assumptions
allow. `PROJECT.json` lists them with the properties they state.

### The request database (`ReqControlProofs`)

For any number of threads, requests, blocks and ids:

* `TypeCorrect`: `Spec => []TypeOK`, whatever the switches.
* Assuming `~SlowSend` and `KeepWindow`: `Invariance` (`IInv`), and from it
  `CallbackOnce`, `AnswersToOwnRequest`, `FailedSendStaysSilent`,
  `AcceptedRequestKept`, `CleanupIsOwn`, `PendingIdsStayDistinct`, and
  `KeepsContract`: `Spec => Contract!Spec`, every step being a step of
  `RequestContract` or a stutter.

The argument. The properties speak of callbacks made; what keeps them true is
who owns a block. `IInv` (module `ReqControlInv`) says so:

* `BlockInv`, `ListInv`: a pending block is its request's only one, the request
  was not called back, and the block's timer runs, or has fired and is what the
  event loop handles. So a time-out and a reply never both find it.
* `ThreadInv`: a sender's block is pending and its own until it has returned.
  This is where `~SlowSend` is needed.
* `LoopInv`, `CallsInv`: a callback about to be made is the first one.
* `NetInv`, `AwaitedInv`, `ClosedInv`: what the peer holds was accepted; an
  accepted request is pending or called back; a closed database is empty.
* `WindowInv`: the distance from the id of a live request to the last id is the
  number of ids given out since, modulo the wrap. With `KeepWindow` that number
  is below `MaxSeqId`, so equal ids mean the same request (`SameIdSameRequest`),
  and the search by id, in `RemoveRequest` and `HandleReply`, finds the right
  block. This carries the arithmetic of the wrap through the proof.

TLC agrees: `IInv` may be added to the invariants of `Requests.cfg`.

### The server (`IpcServerProofs`)

* For all switches, threads that close and callbacks that close included:
  `TypeCorrect`, and `ListIsUsable`, since a client is unlinked before it is
  freed. The type invariant holds the end of `get_next_cid`'s loop: `MaxFds` is
  at most `MaxCid`, so that by counting there is a free id (`FreeCidExists`), and
  the operator returns one (`NextCidIsFree`). `ListInv` adds what
  `close_client` knows of the client it takes apart.
* Assuming `CloseIn = {}` and `~ThreadsClose`: `FreedClientUnused` and
  `ClientToldOnce`. `CloserInv` says that only the event loop closes, and never
  the client whose handler it is in; `ToldInv` that a client on the list was
  not yet reported closed.
* Assuming `KeepCids` too: `AnswersFindHome`. `HeldInv` says that a client on the
  list has the id of a held request only if it has sent it.

### The client (`IpcClientProofs`)

`TypeCorrect` for both values of the switch. Assuming `~SendFailsInside`:
`ClosedSessionToldOnce`, `FreedSessionUnused`, `MarkIsSeen` and, as an action
property, `ClosedSessionUnread`. The invariant: the handler's session lives
(`LoopInv`); socket, event, memory and the close callback go together
(`LifeInv`); the flag says whether a handler has a buffer in hand, and a session
that was to be closed is freed or marked under such a handler (`FlagInv`).

### Framing (`IpcFramingProofs`)

Unconditional, for every header, buffer and length field: `TypeCorrect`,
`KeptUpNothingLost`, `BytesInOrder`, `DrainedRecovers`. The
messages lie without gaps (`MsgInv`). While nothing was left behind, the
parser's place and the buffer's end are boundaries of messages (`InStep`); a
message sent to an idle receiver is still unread, is first in the buffer, or was
given out (`FreshInv`).

### The RPC codec (`RpcTlvProofs`)

For every buffer below 64 KiB, all words, blobs and received bytes, and lists of
parameters of every length: `WireTypes` (the type invariant), `MessageAsBuilt`,
`BuiltIsParsed`, `AcceptedIsExact`, `ReadersAreParser`. The assumptions are
`SizeAssumption`, the 16 bits of the length and the largest blob, and
`BytesAssumption`, which says that bytes are bytes.

The argument. `Carries(b, s)` says that the bytes `s` stand in `b` behind the
length, and `Body(ps)` is the wire form of the parameters `ps` without it. The
invariant `WireInv` has two parts besides the types: `BuiltInv`, a message under
construction carries the body of what was put in and states its length; and
`ReadInv`, what the readers returned since they last began is what stands
between the length and the cursor, taken parameter by parameter. `ReadInv` is
not about the message but about the bytes, and has to be: a buffer that was
received, or that was written over, holds whatever it holds. TLC agrees:
`WireInv` is an invariant of the instance of `RpcTlv.cfg`.

The rest is about the loop of `get_params_from_buffer`, which the prover follows
round by round:

* `RoundsFollow`: a buffer that carries the body of `ps` makes it find `ps`, the
  k-th in the k-th round, whatever stands behind them. With `BuiltInv` this is
  `BuiltIsParsed`; with `ReadInv`, and since a later round only adds to what was
  found (`RoundsGrow`), it is `ReadersAreParser`.
* `RoundsExact`: whatever the bytes are, the buffer carries the body of what was
  found, and the position is right behind it. So when the checks behind the loop
  pass, the position is the end of the buffer and of the message, and all of it
  is the wire form of the result: `AcceptedIsExact`.

Both rest on what integers become: widening the narrowed bytes of a C value
gives the value back (`ValueComesBack`), which is where the sign bit matters.

### Tools (`IpcToolsProofs`)

For every command line, answer and message:

* `AllReleased`, by `ReleaseInv`. `SessionInv`: no session before the loop, none
  at the end, and the pointer set as long as it lives. `HeapInv`: while `main`
  runs, what it holds is the memory that `dealloc_params` will find by the
  parameters (`Allocs`) and what it made besides so far (`Made`); so every way
  out, which releases both, leaves nothing.
* `StatusIsTrue`, by `HeardInv`: `outBuffer` is what was heard last.
* `AskedAsStated`, for all widths of the types and of a size. `ArgsInv`: each option that was
  read, but for `-d`, has its parameter at its place, the place being the number
  of such options up to it; and no session is opened before all are read.
* `PrintedWhole`, for every length of `ret_string`. After any number of
  parameters the text keeps its length and its last NUL and the position lies in
  it (`Inside`); as long as nothing failed, the characters up to the first NUL
  are the text of the parameters so far, and while the loop goes on all behind
  them is NUL (`Shows`), which an empty blob relies on. The proof is an induction
  over the parameters, for a message that can be shown and for any message.

### Test programs (`TestProgramsProofs`)

* `AnswerComesHome` and `NumbersTellApart`, for all 65535 client ids and 32767
  request ids.
* `FreedSessionMeansNoServer`: a program in its loop has its session, and one
  that has lost it outside has seen the server go (`SessionInv`).
* `NoFailureIsCounted`, for any number of clients that test at once, with time-outs
  or without. `NumberInv` has these parts: client ids are given once and the server
  serves a listed client (`SeatInv`); every message on its way is one that its
  sender can send, with the number of a request in the row that is tested, and
  every pending request has its number in that row (`FlowInv`); a test command
  is the first thing a client says (`FirstInv`); the rows a client was asked for
  are no more than there are clients to ask (`RowInv`). So an answer carries an id
  from which its number in the row follows, and the context found by it is the one
  that was stored with it.
* `KilledInCompany`. `LoneInv` follows a client that was started alone: what it
  said and what it is told answer one another, and it does not leave while the
  server still has something to tell it.

They assume `IdsDoNotWrap`: the clients, times the requests of a test, are fewer
than the 32768 ids of a request. A client program makes a row of requests of its
own for its own test and for each broadcast it hears, and there is one broadcast
at most per client, so its ids do not come round; with the four requests of the
code this allows more than eight thousand clients at a time.

### Induction

Induction over data is done with sets of numbers. `SetInduction` (`NatLemmas`)
says that a set which holds 0, and with every number the next one, holds all; a
recursive function over a list is first unfolded (`BodiesUnfold`,
`RoundsUnfold`, `PrintsUnfold`), and the set of the numbers up to which a fact
holds is then shown to be of this kind. This is why the loops are functions on
`0 .. n` and not RECURSIVE operators.

### Only model-checked

Every invariant, and every action property, that a run checks and that holds is
stated by a theorem. What is left to TLC is liveness, since fairness is beyond the
prover: `EveryRequestEnds`, the liveness of `RequestContract` (so that of
`ImplementsContract` the prover knows `Spec => Contract!Spec`), `DataIsRead`,
`EndIsReported`, `CloseCompletes`, `CloseIsReported`, `StreamIsRead`, `TestEnds`,
`ToolEnds`; and `AnswersMatch` with slow sends, whose theorem assumes `~SlowSend`.

## 5. Not modelled

* A `sendmsg` that writes part of a message. `af_ipc_send` takes it for success
  (`af_ipc_common.c:351`), and what follows on the stream is as after a cut read.
* The walk along the list in `af_ipcs_close_client` and `find_client_by_cid`
  without the mutex, step by step (`af_ipc_server.c:405`): the search is one
  step, so that a `next` pointer of a freed client is never followed.
* In the request database, an `evtimer_add` that fails: its result is not
  looked at (`af_ipc_common.c:322`), and the request would have no time-out.
  `EveryRequestEnds` and `NoRequestLost` assume that it succeeds. A `sendmsg`
  that succeeds delivers and returns in one step: an answer that comes before
  `sendmsg` has returned is one that comes right behind it, since the sender
  touches nothing shared any more.
* A signal that interrupts `recv` (EINTR): it is taken for an end of reading
  (`af_ipc_server.c:433`, as for EAGAIN), and with edge triggering data could
  be overlooked. The sockets are read with `MSG_DONTWAIT`, where `recv` does
  not wait and so is not interrupted.
* An `event_new` that fails in `af_ipcc_open_server`, which the code does not
  check before it adds the event (`af_ipc_client.c:130-132`).
* Reuse of freed memory by something else: a use after free is reported where it
  happens and not followed.
* In the codec, NULL buffers, negative sizes and buffers of 64 KiB and more,
  whose length does not fit the 16-bit field. The blob reader looks at the type
  before it has compared the position with the length (`af_rpc.c:805-806`); at
  the end of the buffer that reads bytes that are not the model's, and `ReadBlob`
  takes either outcome. An error is returned in both.
* In the codec, a buffer after `create_buffer_with_params` has failed: it is
  there, but no property is about it before it is begun again.
* In the tools, answers longer than `outBuffer` (256 bytes, while a message may
  have 4088), an `evtimer_new` that fails, and integers of eleven characters:
  `tmp[11]` (`ipc_send.c:543`, `ipc_wait.c:205`) has room for ten, which is not
  enough for an int32 of -1000000000 or less.
* A test client without an option, which only waits for the broadcasts of
  others, and `test_rpc.c`, a list of calls of the codec.
* Logging, and the contents of messages beyond what decides where they go.

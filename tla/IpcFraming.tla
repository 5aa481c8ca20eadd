------------------------------ MODULE IpcFraming ------------------------------
(***************************************************************************)
(* How messages cross a stream that knows no messages: af_ipc_send puts a    *)
(* header with the length before a payload, on_recv reads as many bytes as   *)
(* its buffer holds, and af_ipc_handle_receive_message cuts the buffer up    *)
(* by the lengths it finds (af_ipc_common.c).                                *)
(*                                                                         *)
(* A byte is named by its place in the stream, a message by the bytes it     *)
(* takes.  What a header that is really the middle of a payload says is      *)
(* anything.                                                                 *)
(***************************************************************************)
EXTENDS Integers, Sequences

CONSTANTS
    HdrLen,     \* AF_IPC_MSGHDR_LEN, 8 in the code
    MaxMsgLen,  \* AF_IPC_MAX_MSGLEN, 4096 in the code
    MaxWord,    \* largest length a header can state, 0xffff in the code
    MaxPayload, \* bound: largest payload a program asks to send
    MaxSends    \* bound: messages sent

ASSUME FramingConstants ==
    /\ HdrLen \in Nat \ {0}
    /\ MaxMsgLen \in Nat /\ HdrLen < MaxMsgLen
    /\ MaxWord \in Nat /\ MaxMsgLen <= MaxWord
    /\ MaxPayload \in Nat /\ MaxSends \in Nat

VARIABLES
    msgs,     \* the messages sent, in order
    written,  \* bytes written to the stream
    buf,      \* the bytes recv put into the buffer: the stream from buf.at on
    pos,      \* how far the parser is in the buffer
    got,      \* what the receive callback was given, in order
    lag,      \* a recv found more bytes waiting than its buffer holds
    fresh     \* the messages sent while the receiver had nothing to read

history == <<lag, fresh>>
vars == <<msgs, written, buf, pos, got, history>>

Bytes == [at : Nat, len : Nat]

TypeOK ==
    /\ msgs \in Seq(Bytes)
    /\ written \in Nat
    /\ buf \in Bytes
    /\ pos \in 0..buf.len
    /\ got \in Seq(Bytes)
    /\ lag \in BOOLEAN
    /\ fresh \subseteq 1..Len(msgs)

Init ==
    /\ msgs = <<>> /\ written = 0
    /\ buf = [at |-> 0, len |-> 0] /\ pos = 0
    /\ got = <<>>
    /\ lag = FALSE /\ fresh = {}

BufEnd == buf.at + buf.len     \* the first byte not yet read
Place == buf.at + pos          \* the byte the parser is at
Waiting == written - BufEnd    \* the bytes in the socket

-----------------------------------------------------------------------------
(* Mutant: the header is not counted *)
FitsWithoutHeader(n) == n <= MaxMsgLen

(* af_ipc_send's check of the total size *)
Fits(n) == n + HdrLen <= MaxMsgLen

(* af_ipc_send with n bytes of payload.  One sendmsg writes header and      *)
(* payload; one that fails writes nothing, and a payload that does not fit  *)
(* is refused, which changes nothing either.                                *)
Send(n) ==
    /\ Len(msgs) < MaxSends /\ Fits(n)
    /\ msgs' = Append(msgs, [at |-> written, len |-> HdrLen + n])
    /\ written' = written + HdrLen + n
    /\ fresh' = IF Waiting = 0 THEN fresh \cup {Len(msgs) + 1} ELSE fresh
    /\ UNCHANGED <<buf, pos, got, lag>>

(* on_recv, when the buffer before is dealt with *)
Recv ==
    /\ pos = buf.len /\ Waiting > 0
    /\ buf' = [at |-> BufEnd, len |-> IF Waiting > MaxMsgLen THEN MaxMsgLen ELSE Waiting]
    /\ pos' = 0
    /\ lag' = (lag \/ Waiting > MaxMsgLen)
    /\ UNCHANGED <<msgs, written, got, fresh>>

-----------------------------------------------------------------------------
(* The lengths the header at byte p may state *)
Stated(p) ==
    IF \E k \in DOMAIN msgs : msgs[k].at = p
    THEN {msgs[k].len : k \in {j \in DOMAIN msgs : msgs[j].at = p}}
    ELSE 0..MaxWord

(* The message lies in the buffer and has room for its own header *)
Plausible(l) == pos + l <= buf.len /\ l >= HdrLen

(* Mutant: the last byte of the buffer is not used *)
HeaderThereTight == pos + HdrLen + 1 < buf.len

(* A header is there, and something behind it *)
HeaderThere == pos + HdrLen < buf.len

(* Mutant: the parser goes on at the same place *)
IgnoreNothing ==
    /\ pos < buf.len
    /\ HeaderThere => \E l \in Stated(Place) : ~Plausible(l)
    /\ UNCHANGED vars

(* The rest of the buffer is ignored *)
IgnoreRest ==
    /\ pos < buf.len
    /\ HeaderThere => \E l \in Stated(Place) : ~Plausible(l)
    /\ pos' = buf.len
    /\ UNCHANGED <<msgs, written, buf, got, history>>

(* Mutant: the parser goes on behind the payload's length, not behind the   *)
(* message's.                                                              *)
DeliverOverlapping ==
    /\ HeaderThere
    /\ \E l \in Stated(Place) :
          /\ Plausible(l)
          /\ got' = Append(got, [at |-> Place, len |-> l])
          /\ pos' = IF l = HdrLen THEN pos + HdrLen ELSE pos + l - HdrLen
    /\ UNCHANGED <<msgs, written, buf, history>>

(* A message is given to the callback *)
Deliver ==
    /\ HeaderThere
    /\ \E l \in Stated(Place) :
          /\ Plausible(l)
          /\ got' = Append(got, [at |-> Place, len |-> l])
          /\ pos' = pos + l
    /\ UNCHANGED <<msgs, written, buf, history>>

(* Nothing more is sent, and everything was read *)
Ended ==
    /\ Len(msgs) = MaxSends /\ Waiting = 0 /\ pos = buf.len
    /\ UNCHANGED vars

Parse == IgnoreRest \/ Deliver
Next == (\E n \in 0..MaxPayload : Send(n)) \/ Recv \/ Parse \/ Ended

Spec == Init /\ [][Next]_vars

(* The event loop runs the read handler while there is something to read,   *)
(* and the handler its loop.                                                *)
FairSpec == Spec /\ WF_vars(Recv) /\ WF_vars(Parse)

-----------------------------------------------------------------------------
Messages == {msgs[k] : k \in DOMAIN msgs}
Given == {got[i] : i \in DOMAIN got}
End(b) == b.at + b.len
HasPayload(b) == b.len > HdrLen

(* The callback is given whole messages, and each but those without a       *)
(* payload.                                                                 *)
PayloadsArrive ==
    ~lag => /\ Given \subseteq Messages
            /\ \A m \in Messages : HasPayload(m) /\ End(m) <= Place => m \in Given

(* A message without a payload is lost only as the last one of a buffer:    *)
(* the parser wants a byte behind the header, whatever the length says.     *)
EmptyLostOnlyAtEnd ==
    ~lag => \A m \in Messages :
        m.at >= buf.at /\ End(m) <= Place /\ End(m) < BufEnd => m \in Given

(* As long as the receiver keeps up, that is, no recv finds more than its   *)
(* buffer holds, nothing is lost but an empty message at the end of a       *)
(* buffer: what is cut off there is never the first half of a message.      *)
LossNeedsLag == PayloadsArrive /\ EmptyLostOnlyAtEnd

(* Whatever the lengths found, the callback never sees a byte twice, and    *)
(* sees later bytes later.                                                  *)
GivenInOrder ==
    /\ \A i, j \in DOMAIN got : i < j => End(got[i]) <= got[j].at
    /\ \A i \in DOMAIN got : End(got[i]) <= Place

(* A receiver that has lost its place in the stream finds it again as soon  *)
(* as it has read everything: the message sent to it after that arrives.    *)
RecoversWhenDrained ==
    \A k \in fresh : HasPayload(msgs[k]) /\ End(msgs[k]) <= Place => msgs[k] \in Given

(* The parser comes to the end of every buffer, and the socket is emptied:  *)
(* no length found in a header keeps it at its place.                       *)
StreamIsRead == \A k \in 1..MaxSends : Len(msgs) = k ~> (Place = written \/ Len(msgs) > k)

=============================================================================

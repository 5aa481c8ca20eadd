--------------------------- MODULE IpcFramingProofs ---------------------------
(***************************************************************************)
(* Proofs about IpcFraming, for every header and buffer size: as long as   *)
(* the receiver keeps up, buffers begin and end where messages do, so that *)
(* no message with a payload is lost; a receiver that has lost its place   *)
(* finds it again; and no byte is given out twice, kept up or not.         *)
(***************************************************************************)
EXTENDS IpcFraming, TLAPS

(* The messages lie one behind the other and fill what was written *)
MsgInv ==
    /\ \A k \in DOMAIN msgs : /\ HdrLen <= msgs[k].len /\ msgs[k].len <= MaxMsgLen
                              /\ End(msgs[k]) <= written
    /\ \A j, k \in DOMAIN msgs : j < k => End(msgs[j]) <= msgs[k].at
    /\ \A k \in DOMAIN msgs : End(msgs[k]) = written \/ \E j \in DOMAIN msgs : msgs[j].at = End(msgs[k])

TypeInv == TypeOK /\ BufEnd <= written /\ MsgInv

(* A message begins at byte p, or the next one will *)
Boundary(p) == p = written \/ \E k \in DOMAIN msgs : msgs[k].at = p
InStep == ~lag => Boundary(Place) /\ Boundary(BufEnd)

(* A message sent to a receiver that had nothing to read is still to come, *)
(* is the first of the buffer, or was given to the callback.               *)
FreshInv ==
    \A k \in fresh : HasPayload(msgs[k]) =>
        \/ BufEnd = msgs[k].at
        \/ buf.at = msgs[k].at /\ pos = 0 /\ End(msgs[k]) <= BufEnd
        \/ msgs[k] \in Given

FramingInv ==
    /\ TypeInv /\ InStep /\ FreshInv
    /\ PayloadsArrive /\ EmptyLostOnlyAtEnd /\ GivenInOrder

-----------------------------------------------------------------------------
LEMMA MsgTypes ==
    ASSUME TypeOK
    PROVE  /\ Len(msgs) \in Nat /\ DOMAIN msgs = 1..Len(msgs)
           /\ \A k \in DOMAIN msgs : msgs[k] \in Bytes /\ msgs[k].at \in Nat /\ msgs[k].len \in Nat
           /\ buf.at \in Nat /\ buf.len \in Nat /\ pos \in Nat /\ pos <= buf.len
           /\ written \in Nat
<1>1. Len(msgs) \in Nat /\ DOMAIN msgs = 1..Len(msgs)
  BY DEF TypeOK
<1>2. \A k \in DOMAIN msgs : msgs[k] \in Bytes
  BY DEF TypeOK
<1>3. \A b \in Bytes : b.at \in Nat /\ b.len \in Nat
  BY DEF Bytes
<1>4. buf \in Bytes /\ pos \in 0..buf.len /\ written \in Nat
  BY DEF TypeOK
<1>5. pos \in Nat /\ pos <= buf.len
  BY <1>3, <1>4
<1> QED BY <1>1, <1>2, <1>3, <1>4, <1>5

(* What Append does to the messages *)
LEMMA SendAppends ==
    ASSUME TypeInv, NEW n \in 0..MaxPayload, Send(n)
    PROVE  /\ Len(msgs') = Len(msgs) + 1 /\ DOMAIN msgs' = 1..Len(msgs) + 1
           /\ DOMAIN msgs = 1..Len(msgs)
           /\ \A k \in DOMAIN msgs : msgs'[k] = msgs[k]
           /\ msgs'[Len(msgs) + 1] = [at |-> written, len |-> HdrLen + n]
           /\ msgs' \in Seq(Bytes)
BY FramingConstants DEF Send, TypeInv, TypeOK, Bytes

(* A header that is where a message begins states that message's length *)
LEMMA HeaderIsTrue ==
    ASSUME TypeInv, NEW k \in DOMAIN msgs, msgs[k].at = Place
    PROVE  Stated(Place) = {msgs[k].len}
<1>1. \A j \in DOMAIN msgs : msgs[j].at = Place => j = k
  <2> SUFFICES ASSUME NEW j \in DOMAIN msgs, msgs[j].at = Place, j # k PROVE FALSE
    OBVIOUS
  <2>1. j \in Nat /\ k \in Nat /\ msgs[j] \in Bytes /\ msgs[k] \in Bytes
    BY DEF TypeInv, TypeOK
  <2> QED BY <2>1, FramingConstants DEF TypeInv, MsgInv, End, Bytes
<1> QED BY <1>1 DEF Stated

LEMMA TypeInvInit == Init => TypeInv
<1> SUFFICES ASSUME Init PROVE TypeInv
  OBVIOUS
<1>1. /\ msgs \in Seq(Bytes) /\ Len(msgs) = 0 /\ DOMAIN msgs = {}
      /\ got \in Seq(Bytes)
  BY DEF Init
<1>2. buf \in Bytes /\ buf.at = 0 /\ buf.len = 0
  BY DEF Init, Bytes
<1>3. /\ pos \in 0..buf.len /\ written \in Nat /\ lag \in BOOLEAN /\ fresh \subseteq 1..Len(msgs)
      /\ buf.at + buf.len <= written
  <2>1. pos = 0 /\ written = 0 /\ fresh = {}
    BY DEF Init
  <2>2. lag \in BOOLEAN
    BY Zenon DEF Init
  <2> QED BY <1>2, <2>1, <2>2
<1>4. TypeOK
  BY <1>1, <1>2, <1>3, Zenon DEF TypeOK
<1>5. MsgInv
  BY <1>1 DEF MsgInv
<1> QED BY <1>3, <1>4, <1>5 DEF TypeInv, BufEnd

LEMMA TypeInvNext == TypeInv /\ [Next]_vars => TypeInv'
<1> SUFFICES ASSUME TypeInv, [Next]_vars PROVE TypeInv'
  OBVIOUS
<1> USE FramingConstants DEF BufEnd
<1>1. ASSUME NEW n \in 0..MaxPayload, Send(n) PROVE TypeInv'
  <2>1. /\ written' = written + HdrLen + n /\ n + HdrLen <= MaxMsgLen
        /\ fresh' \subseteq fresh \cup {Len(msgs) + 1}
        /\ UNCHANGED <<buf, pos, got, lag>>
    BY <1>1 DEF Send, Fits
  <2>2. Len(msgs) \in Nat
    BY DEF TypeInv, TypeOK
  <2>3. TypeOK'
    <3>1. fresh \subseteq 1..Len(msgs)
      BY DEF TypeInv, TypeOK
    <3>2. Len(msgs') = Len(msgs) + 1 /\ msgs' \in Seq(Bytes)
      BY <1>1, SendAppends
    <3>3. fresh' \subseteq 1..Len(msgs')
      BY <2>1, <2>2, <3>1, <3>2
    <3>4. written' \in Nat
      BY <2>1 DEF TypeInv, TypeOK
    <3>5. /\ buf' \in Bytes /\ pos' \in 0..buf'.len /\ got' \in Seq(Bytes)
          /\ lag' \in BOOLEAN
      BY <2>1 DEF TypeInv, TypeOK
    <3> QED BY <3>2, <3>3, <3>4, <3>5, Zenon DEF TypeOK
  <2>4. MsgInv'
    <3> DEFINE new == Len(msgs) + 1
    <3>1. /\ \A k \in DOMAIN msgs : msgs[k].at \in Nat /\ msgs[k].len \in Nat /\ k \in Nat /\ k < new
          /\ written \in Nat
      BY MsgTypes DEF TypeInv
    <3>2. /\ DOMAIN msgs' = DOMAIN msgs \cup {new} /\ new \notin DOMAIN msgs /\ new \in Nat
          /\ \A k \in DOMAIN msgs : msgs'[k] = msgs[k]
          /\ msgs'[new].at = written /\ msgs'[new].len = HdrLen + n
      <4>1. /\ DOMAIN msgs' = 1..Len(msgs) + 1 /\ DOMAIN msgs = 1..Len(msgs)
            /\ \A k \in DOMAIN msgs : msgs'[k] = msgs[k]
            /\ msgs'[Len(msgs) + 1] = [at |-> written, len |-> HdrLen + n]
        BY <1>1, SendAppends
      <4> QED BY <2>2, <4>1
    <3> HIDE DEF new
    <3>3. \A k \in DOMAIN msgs' : /\ HdrLen <= msgs'[k].len /\ msgs'[k].len <= MaxMsgLen
                                  /\ msgs'[k].at + msgs'[k].len <= written'
      BY <2>1, <3>1, <3>2 DEF TypeInv, MsgInv, End
    <3>4. \A j, k \in DOMAIN msgs' : j < k => msgs'[j].at + msgs'[j].len <= msgs'[k].at
      BY <3>1, <3>2 DEF TypeInv, MsgInv, End
    <3>5. \A k \in DOMAIN msgs' : \/ msgs'[k].at + msgs'[k].len = written'
                                  \/ \E j \in DOMAIN msgs' : msgs'[j].at = msgs'[k].at + msgs'[k].len
      BY <2>1, <3>1, <3>2 DEF TypeInv, MsgInv, End
    <3> QED BY <3>3, <3>4, <3>5 DEF MsgInv, End
  <2> QED BY <2>1, <2>3, <2>4 DEF TypeInv, TypeOK, Bytes
<1>2. CASE Recv
  <2> DEFINE n == IF Waiting > MaxMsgLen THEN MaxMsgLen ELSE Waiting
  <2>0. /\ buf.at \in Nat /\ buf.len \in Nat /\ written \in Nat
        /\ buf.at + buf.len <= written
    BY MsgTypes DEF TypeInv
  <2>a. n \in Nat /\ buf.at + buf.len + n <= written
    BY <1>2, <2>0 DEF Recv, Waiting
  <2>b. /\ buf' = [at |-> buf.at + buf.len, len |-> n] /\ pos' = 0
        /\ lag' = (lag \/ Waiting > MaxMsgLen)
        /\ UNCHANGED <<msgs, written, got, fresh>>
    BY <1>2 DEF Recv
  <2> HIDE DEF n
  <2>c. /\ buf' \in Bytes /\ pos' \in 0..buf'.len /\ buf'.at + buf'.len <= written'
    BY <2>0, <2>a, <2>b DEF Bytes
  <2>d. lag' \in BOOLEAN
    BY <2>b, Zenon
  <2>e. /\ msgs' \in Seq(Bytes) /\ written' \in Nat /\ got' \in Seq(Bytes)
        /\ fresh' \subseteq 1..Len(msgs')
    BY <2>b DEF TypeInv, TypeOK
  <2>1. TypeOK' /\ BufEnd' <= written'
    BY <2>c, <2>d, <2>e DEF TypeOK
  <2> QED BY <1>2, <2>1 DEF Recv, TypeInv, MsgInv, End
<1>3. CASE IgnoreRest
  BY <1>3 DEF IgnoreRest, history, TypeInv, TypeOK, MsgInv, Bytes, End
<1>4. CASE Deliver
  <2>1. PICK l \in Stated(Place) : /\ Plausible(l)
                                   /\ got' = Append(got, [at |-> Place, len |-> l])
                                   /\ pos' = pos + l
    BY <1>4 DEF Deliver
  <2>2. l \in Nat
    BY MsgTypes DEF Stated, TypeInv
  <2>3. UNCHANGED <<msgs, written, buf, lag, fresh>>
    BY <1>4 DEF Deliver, history
  <2> QED BY <2>1, <2>2, <2>3 DEF Plausible, Place, TypeInv, TypeOK, MsgInv, Bytes, End
<1>5. CASE UNCHANGED vars
  BY <1>5 DEF vars, history, TypeInv, TypeOK, MsgInv, End
<1> QED BY <1>1, <1>2, <1>3, <1>4, <1>5 DEF Next, Parse, Ended

(* The variables keep their types: the parser stays in its buffer, whatever *)
(* length a header states.                                                 *)
THEOREM TypeCorrect == Spec => []TypeOK
<1>1. TypeInv => TypeOK
  BY DEF TypeInv
<1> QED BY <1>1, TypeInvInit, TypeInvNext, PTL DEF Spec

-----------------------------------------------------------------------------
LEMMA FramingInvInit == Init => FramingInv
<1> SUFFICES ASSUME Init PROVE FramingInv
  OBVIOUS
<1>1. TypeInv
  BY TypeInvInit
<1>2. DOMAIN msgs = {} /\ DOMAIN got = {} /\ fresh = {} /\ written = 0 /\ buf.at = 0 /\ buf.len = 0 /\ pos = 0
  BY DEF Init
<1>3. Messages = {} /\ Given = {}
  BY <1>2 DEF Messages, Given
<1> QED BY <1>1, <1>2, <1>3 DEF FramingInv, InStep, Boundary, Place, BufEnd, FreshInv,
            PayloadsArrive, EmptyLostOnlyAtEnd, GivenInOrder

(* The messages and what was given out, as numbers *)
LEMMA Numbers ==
    ASSUME TypeInv
    PROVE  /\ \A k \in DOMAIN msgs : /\ k \in Nat /\ msgs[k].at \in Nat /\ msgs[k].len \in Nat
                                     /\ End(msgs[k]) \in Nat /\ msgs[k].at < End(msgs[k])
           /\ \A i \in DOMAIN got : got[i].at \in Nat /\ got[i].len \in Nat /\ End(got[i]) \in Nat
           /\ Place \in Nat /\ BufEnd \in Nat /\ Place <= BufEnd /\ BufEnd <= written
           /\ written \in Nat
<1>1. \A k \in DOMAIN msgs : HdrLen <= msgs[k].len
  BY DEF TypeInv, MsgInv
<1>2. \A i \in DOMAIN got : got[i].at \in Nat /\ got[i].len \in Nat
  <2>1. \A i \in DOMAIN got : got[i] \in Bytes
    BY DEF TypeInv, TypeOK
  <2> QED BY <2>1 DEF Bytes
<1>3. BufEnd <= written
  BY DEF TypeInv
<1>4. /\ Len(msgs) \in Nat /\ DOMAIN msgs = 1..Len(msgs)
      /\ \A k \in DOMAIN msgs : msgs[k].at \in Nat /\ msgs[k].len \in Nat
      /\ buf.at \in Nat /\ buf.len \in Nat /\ pos \in Nat /\ pos <= buf.len
      /\ written \in Nat
  BY MsgTypes DEF TypeInv
<1>5. /\ Place \in Nat /\ BufEnd \in Nat /\ Place <= BufEnd
  BY <1>4 DEF Place, BufEnd
<1>6. \A k \in DOMAIN msgs : k \in Nat
  BY <1>4
<1>7. \A k \in DOMAIN msgs : End(msgs[k]) \in Nat /\ msgs[k].at < End(msgs[k])
  BY <1>1, <1>4, FramingConstants DEF End
<1>8. \A i \in DOMAIN got : End(got[i]) \in Nat
  BY <1>2 DEF End
<1> QED BY <1>2, <1>3, <1>4, <1>5, <1>6, <1>7, <1>8

(* Sending: the new message lies behind everything that was read *)
LEMMA SendKeeps ==
    ASSUME FramingInv, TypeInv', NEW n \in 0..MaxPayload, Send(n)
    PROVE  FramingInv'
<1> DEFINE new == Len(msgs) + 1
<1>1. /\ DOMAIN msgs' = DOMAIN msgs \cup {new}
      /\ \A k \in DOMAIN msgs : msgs'[k] = msgs[k]
      /\ msgs'[new].at = written /\ msgs'[new].len = HdrLen + n
      /\ new \notin DOMAIN msgs
  <2>1. Len(msgs) \in Nat
    BY MsgTypes DEF FramingInv, TypeInv
  <2>2. /\ DOMAIN msgs' = 1..Len(msgs) + 1 /\ DOMAIN msgs = 1..Len(msgs)
        /\ \A k \in DOMAIN msgs : msgs'[k] = msgs[k]
        /\ msgs'[Len(msgs) + 1] = [at |-> written, len |-> HdrLen + n]
    BY SendAppends DEF FramingInv
  <2> QED BY <2>1, <2>2
<1>2. /\ UNCHANGED <<buf, pos, got, lag>> /\ written < written'
      /\ fresh' \subseteq fresh \cup {new} /\ (new \in fresh' => Waiting = 0 \/ new \in fresh)
  <2>1. written \in Nat /\ written' = written + HdrLen + n
    BY MsgTypes DEF FramingInv, TypeInv, Send
  <2> QED BY <2>1, FramingConstants DEF Send
<1>3. fresh \subseteq DOMAIN msgs
  BY MsgTypes DEF FramingInv, TypeInv, TypeOK
<1>4. Given' = Given /\ Place' = Place /\ BufEnd' = BufEnd
  BY <1>2 DEF Given, Place, BufEnd
<1>5. Messages' = Messages \cup {msgs'[new]}
  BY <1>1 DEF Messages
<1>6. /\ Place \in Nat /\ BufEnd \in Nat /\ Place <= BufEnd /\ BufEnd <= written /\ written \in Nat
      /\ End(msgs'[new]) \in Nat /\ written < End(msgs'[new])
  <2>1. /\ Place \in Nat /\ BufEnd \in Nat /\ Place <= BufEnd /\ BufEnd <= written
        /\ written \in Nat
    BY Numbers DEF FramingInv
  <2> QED BY <1>1, <2>1, FramingConstants DEF End
<1>7. InStep'
  BY <1>1, <1>2, <1>4 DEF FramingInv, InStep, Boundary
<1>8. FreshInv'
  <2> SUFFICES ASSUME NEW k \in fresh', HasPayload(msgs'[k])
               PROVE  \/ BufEnd' = msgs'[k].at
                      \/ buf'.at = msgs'[k].at /\ pos' = 0 /\ End(msgs'[k]) <= BufEnd'
                      \/ msgs'[k] \in Given'
    BY DEF FreshInv, HasPayload, End
  <2>1. CASE k \in fresh
    BY <1>1, <1>2, <1>3, <1>4, <2>1 DEF FramingInv, FreshInv
  <2>2. CASE k \notin fresh
    BY <1>1, <1>2, <1>4, <1>6, <2>2 DEF Waiting
  <2> QED BY <2>1, <2>2
<1>9. PayloadsArrive' /\ EmptyLostOnlyAtEnd'
  BY <1>2, <1>4, <1>5, <1>6 DEF FramingInv, PayloadsArrive, EmptyLostOnlyAtEnd, HasPayload, End
<1>10. GivenInOrder'
  BY <1>2, <1>4 DEF FramingInv, GivenInOrder, End
<1> QED BY <1>7, <1>8, <1>9, <1>10 DEF FramingInv

(* Reading: the next buffer begins where the last one ended *)
LEMMA RecvKeeps ==
    ASSUME FramingInv, TypeInv', Recv
    PROVE  FramingInv'
<1>1. /\ UNCHANGED <<msgs, written, got, fresh>> /\ Place = BufEnd
      /\ buf'.at = BufEnd /\ Place' = BufEnd /\ pos' = 0
      /\ BufEnd' = IF Waiting > MaxMsgLen THEN BufEnd + MaxMsgLen ELSE written
      /\ lag' = (lag \/ Waiting > MaxMsgLen) /\ Waiting > 0
      /\ buf.len = 0 => BufEnd = buf.at
  <2>1. /\ buf.at \in Nat /\ buf.len \in Nat /\ written \in Nat
    BY MsgTypes DEF FramingInv, TypeInv
  <2> QED BY <2>1, FramingConstants DEF Recv, Waiting, Place, BufEnd
<1>2. Messages' = Messages /\ Given' = Given
  BY <1>1 DEF Messages, Given
<1>3. InStep'
  BY <1>1 DEF FramingInv, InStep, Boundary
<1>4. FreshInv'
  <2> SUFFICES ASSUME NEW k \in fresh, HasPayload(msgs[k]), msgs[k] \notin Given
               PROVE  buf'.at = msgs[k].at /\ pos' = 0 /\ End(msgs[k]) <= BufEnd'
    BY <1>1, <1>2 DEF FreshInv, HasPayload, End
  <2>1. k \in DOMAIN msgs
    BY MsgTypes DEF FramingInv, TypeInv, TypeOK
  <2>2. /\ msgs[k].at < End(msgs[k]) /\ End(msgs[k]) \in Nat /\ msgs[k].at \in Nat
        /\ End(msgs[k]) <= written /\ End(msgs[k]) <= msgs[k].at + MaxMsgLen
    BY <2>1, Numbers, FramingConstants DEF FramingInv, TypeInv, MsgInv, End
  <2>3. BufEnd \in Nat /\ buf.at \in Nat /\ buf.len \in Nat /\ Place = buf.at + pos
    BY MsgTypes, Numbers DEF FramingInv, TypeInv, Place
  <2>4. BufEnd = msgs[k].at
    BY <1>1, <2>2, <2>3 DEF FramingInv, FreshInv
  <2> QED BY <1>1, <2>2, <2>4
<1>5. PayloadsArrive'
  BY <1>1, <1>2 DEF FramingInv, PayloadsArrive, HasPayload, End
<1>6. EmptyLostOnlyAtEnd'
  BY <1>1, <1>2, Numbers DEF FramingInv, EmptyLostOnlyAtEnd, Messages, End
<1>7. GivenInOrder'
  BY <1>1 DEF FramingInv, GivenInOrder, End
<1> QED BY <1>3, <1>4, <1>5, <1>6, <1>7 DEF FramingInv

(* Where the parser is in step, it gives out the message that begins there *)
LEMMA InStepDelivers ==
    ASSUME TypeInv, Boundary(Place), HeaderThere
    PROVE  \E k \in DOMAIN msgs :
              /\ msgs[k].at = Place /\ Stated(Place) = {msgs[k].len}
              /\ msgs[k] = [at |-> Place, len |-> msgs[k].len]
              /\ Boundary(End(msgs[k]))
<1>1. Place < written
  BY Numbers, MsgTypes, FramingConstants DEF HeaderThere, Place, BufEnd, TypeInv
<1>2. PICK k \in DOMAIN msgs : msgs[k].at = Place
  BY <1>1, Numbers DEF Boundary
<1>3. msgs[k] = [at |-> Place, len |-> msgs[k].len]
  <2>1. msgs[k] \in Bytes
    BY MsgTypes DEF TypeInv
  <2> QED BY <1>2, <2>1 DEF Bytes
<1>4. Boundary(End(msgs[k]))
  BY DEF TypeInv, MsgInv, Boundary
<1> QED BY <1>2, <1>3, <1>4, HeaderIsTrue

(* Two messages do not overlap: one ends before the other begins *)
LEMMA Apart ==
    ASSUME TypeInv, NEW p, Boundary(p), NEW k \in DOMAIN msgs
    PROVE  End(msgs[k]) <= p \/ p <= msgs[k].at
<1>1. CASE p = written
  BY <1>1 DEF TypeInv, MsgInv
<1>2. CASE \E j \in DOMAIN msgs : msgs[j].at = p
  <2>1. PICK j \in DOMAIN msgs : msgs[j].at = p
    BY <1>2
  <2>2. j \in Nat /\ k \in Nat /\ msgs[j].at < End(msgs[j]) /\ msgs[k].at \in Nat
        /\ msgs[j].at \in Nat /\ End(msgs[j]) \in Nat
    BY Numbers
  <2>3. CASE j < k
    BY <2>1, <2>2, <2>3 DEF TypeInv, MsgInv
  <2>4. CASE k < j
    BY <2>1, <2>2, <2>4 DEF TypeInv, MsgInv
  <2>5. CASE k = j
    BY <2>1, <2>2, <2>5
  <2> QED BY <2>2, <2>3, <2>4, <2>5
<1> QED BY <1>1, <1>2 DEF Boundary

(* Ignoring the rest: a receiver that is in step ignores nothing but a     *)
(* message without a payload at the end of the buffer.                     *)
LEMMA IgnoreKeeps ==
    ASSUME FramingInv, TypeInv', IgnoreRest
    PROVE  FramingInv'
<1>0. TypeInv
  BY DEF FramingInv
<1>1. /\ UNCHANGED <<msgs, written, buf, got, lag, fresh>>
      /\ pos < buf.len /\ pos' = buf.len
      /\ HeaderThere => \E l \in Stated(Place) : ~Plausible(l)
  BY DEF IgnoreRest, history
<1>2. /\ Messages' = Messages /\ Given' = Given /\ BufEnd' = BufEnd /\ Place' = BufEnd
  BY <1>1 DEF Messages, Given, BufEnd, Place
<1>3. /\ buf.at \in Nat /\ buf.len \in Nat /\ pos \in Nat /\ Place \in Nat /\ BufEnd \in Nat
      /\ Place < BufEnd /\ Place = buf.at + pos /\ BufEnd = buf.at + buf.len
  BY <1>0, <1>1, MsgTypes, Numbers DEF Place, BufEnd, TypeInv
<1>4. InStep'
  BY <1>1, <1>2 DEF FramingInv, InStep, Boundary
<1>5. FreshInv'
  <2> SUFFICES ASSUME NEW k \in fresh, HasPayload(msgs[k]),
                      buf.at = msgs[k].at, pos = 0, End(msgs[k]) <= BufEnd
               PROVE  FALSE
    BY <1>1, <1>2 DEF FramingInv, FreshInv, HasPayload, End
  <2>1. k \in DOMAIN msgs
    BY <1>0, MsgTypes DEF TypeInv, TypeOK
  <2>2. msgs[k].at \in Nat /\ msgs[k].len \in Nat /\ HdrLen <= msgs[k].len
    BY <1>0, <2>1, Numbers DEF TypeInv, MsgInv
  <2>3. Stated(Place) = {msgs[k].len}
    BY <1>0, <1>3, <2>1, HeaderIsTrue
  <2>4. HeaderThere /\ Plausible(msgs[k].len)
    BY <1>3, <2>2, FramingConstants DEF HeaderThere, Plausible, HasPayload, End
  <2> QED BY <1>1, <2>3, <2>4
<1>6. ASSUME ~lag PROVE ~HeaderThere
  <2> SUFFICES ASSUME HeaderThere PROVE FALSE
    OBVIOUS
  <2>1. Boundary(Place) /\ Boundary(BufEnd)
    BY <1>6 DEF FramingInv, InStep
  <2>2. PICK k \in DOMAIN msgs : msgs[k].at = Place /\ Stated(Place) = {msgs[k].len}
    BY <1>0, <2>1, InStepDelivers
  <2>3. msgs[k].at \in Nat /\ msgs[k].len \in Nat /\ HdrLen <= msgs[k].len
    BY <1>0, Numbers DEF TypeInv, MsgInv
  <2>4. End(msgs[k]) <= BufEnd \/ BufEnd <= msgs[k].at
    BY <1>0, <2>1, Apart
  <2>5. Plausible(msgs[k].len)
    BY <1>3, <2>2, <2>3, <2>4 DEF Plausible, End
  <2> QED BY <1>1, <2>2, <2>5
<1>7. ASSUME ~lag, NEW k \in DOMAIN msgs, End(msgs[k]) <= BufEnd
      PROVE  End(msgs[k]) <= Place \/ (End(msgs[k]) = BufEnd /\ msgs[k].len = HdrLen)
  <2>1. msgs[k].at \in Nat /\ msgs[k].len \in Nat /\ HdrLen <= msgs[k].len
    BY <1>0, Numbers DEF TypeInv, MsgInv
  <2>2. End(msgs[k]) <= Place \/ Place <= msgs[k].at
    BY <1>0, <1>7, Apart DEF FramingInv, InStep
  <2> QED BY <1>3, <1>6, <1>7, <2>1, <2>2, FramingConstants DEF HeaderThere, End
<1>8. PayloadsArrive' /\ EmptyLostOnlyAtEnd'
  <2>1. PayloadsArrive'
    <3>1. ASSUME ~lag, NEW k \in DOMAIN msgs, HasPayload(msgs[k]), End(msgs[k]) <= BufEnd
          PROVE  msgs[k] \in Given
      <4>1. End(msgs[k]) <= Place
        BY <1>7, <3>1, Numbers, <1>0, FramingConstants DEF HasPayload
      <4> QED BY <3>1, <4>1 DEF FramingInv, PayloadsArrive, Messages
    <3> QED BY <1>1, <1>2, <3>1 DEF FramingInv, PayloadsArrive, Messages, HasPayload, End
  <2>2. EmptyLostOnlyAtEnd'
    <3>1. ASSUME ~lag, NEW k \in DOMAIN msgs, msgs[k].at >= buf.at, End(msgs[k]) < BufEnd
          PROVE  msgs[k] \in Given
      <4>1. End(msgs[k]) <= Place
        BY <1>0, <1>3, <1>7, <3>1, Numbers
      <4> QED BY <3>1, <4>1 DEF FramingInv, EmptyLostOnlyAtEnd, Messages
    <3> QED BY <1>1, <1>2, <3>1 DEF EmptyLostOnlyAtEnd, Messages, End
  <2> QED BY <2>1, <2>2
<1>9. GivenInOrder'
  BY <1>0, <1>1, <1>2, <1>3, Numbers DEF FramingInv, GivenInOrder, End
<1> QED BY <1>4, <1>5, <1>8, <1>9 DEF FramingInv

(* Giving out a message: from a receiver that is in step, the one that     *)
(* begins at its place.                                                    *)
LEMMA DeliverKeeps ==
    ASSUME FramingInv, TypeInv', Deliver
    PROVE  FramingInv'
<1>0. TypeInv
  BY DEF FramingInv
<1>1. HeaderThere /\ UNCHANGED <<msgs, written, buf, lag, fresh>>
  BY DEF Deliver, history
<1>2. PICK l \in Stated(Place) : /\ Plausible(l)
                                 /\ got' = Append(got, [at |-> Place, len |-> l])
                                 /\ pos' = pos + l
  BY DEF Deliver
<1> DEFINE b == [at |-> Place, len |-> l]
           new == Len(got) + 1
<1>3. /\ buf.at \in Nat /\ buf.len \in Nat /\ pos \in Nat /\ Place \in Nat /\ BufEnd \in Nat
      /\ Place = buf.at + pos /\ BufEnd = buf.at + buf.len /\ l \in Nat
  <2>1. l \in Nat
    BY <1>0, MsgTypes DEF Stated, TypeInv
  <2> QED BY <1>0, <2>1, MsgTypes, Numbers DEF Place, BufEnd, TypeInv
<1>4. /\ Place' = Place + l /\ BufEnd' = BufEnd /\ Messages' = Messages /\ l > 0 /\ pos' # 0
  BY <1>1, <1>2, <1>3, FramingConstants DEF Place, BufEnd, Messages, Plausible
<1>5. /\ DOMAIN got' = DOMAIN got \cup {new} /\ new \notin DOMAIN got
      /\ \A i \in DOMAIN got : got'[i] = got[i] /\ i \in Nat /\ i < new
      /\ got'[new] = b /\ new \in Nat
  <2>1. got \in Seq(Bytes) /\ b \in Bytes
    BY <1>0, <1>3 DEF TypeInv, TypeOK, Bytes
  <2> HIDE DEF b
  <2>2. Len(got) \in Nat /\ DOMAIN got = 1..Len(got)
    BY <2>1
  <2>3. Len(got') = Len(got) + 1 /\ DOMAIN got' = 1..Len(got) + 1
    BY <1>2, <2>1 DEF b
  <2>4. \A i \in 1..Len(got) : got'[i] = got[i]
    BY <1>2, <2>1 DEF b
  <2>5. got'[Len(got) + 1] = b
    BY <1>2, <2>1 DEF b
  <2> QED BY <2>2, <2>3, <2>4, <2>5
<1> HIDE DEF new
<1>6. Given' = Given \cup {b}
  BY <1>5 DEF Given
<1>7. b.at = Place /\ b.len = l
  OBVIOUS
<1>8. ASSUME NEW k \in DOMAIN msgs, msgs[k].at = Place PROVE l = msgs[k].len /\ b = msgs[k]
  <2>1. l = msgs[k].len
    BY <1>0, <1>8, HeaderIsTrue
  <2>2. msgs[k] \in Bytes
    BY <1>0, MsgTypes DEF TypeInv
  <2> QED BY <1>8, <2>1, <2>2 DEF Bytes
<1> HIDE DEF b
<1>9. FreshInv'
  <2> SUFFICES ASSUME NEW k \in fresh, HasPayload(msgs[k]), buf.at = msgs[k].at, pos = 0
               PROVE  msgs[k] \in Given'
    BY <1>1, <1>4, <1>6 DEF FramingInv, FreshInv, HasPayload, End
  <2>1. k \in DOMAIN msgs
    BY <1>0, MsgTypes DEF TypeInv, TypeOK
  <2> QED BY <1>3, <1>6, <1>8, <2>1
<1>10. GivenInOrder'
  <2>1. \A i \in DOMAIN got : End(got[i]) \in Nat /\ End(got[i]) <= Place
    BY <1>0, Numbers DEF FramingInv, GivenInOrder
  <2>2. End(b) = Place'
    BY <1>4, <1>7 DEF End
  <2>3. \A i \in DOMAIN got' : End(got'[i]) <= Place'
    BY <1>3, <1>4, <1>5, <2>1, <2>2
  <2>4. \A i, j \in DOMAIN got' : i < j => End(got'[i]) <= got'[j].at
    BY <1>5, <1>7, <2>1 DEF FramingInv, GivenInOrder
  <2> QED BY <2>3, <2>4 DEF GivenInOrder, End
<1>11. ASSUME ~lag
       PROVE  /\ Boundary(Place')
              /\ \E k \in DOMAIN msgs : b = msgs[k]
              /\ \A j \in DOMAIN msgs : End(msgs[j]) <= Place' => End(msgs[j]) <= Place \/ msgs[j] = b
  <2>1. Boundary(Place)
    BY <1>11 DEF FramingInv, InStep
  <2>2. PICK k \in DOMAIN msgs : msgs[k].at = Place /\ Boundary(End(msgs[k]))
    BY <1>0, <1>1, <2>1, InStepDelivers
  <2>3. b = msgs[k] /\ Place' = End(msgs[k])
    BY <1>4, <1>8, <2>2 DEF End
  <2>4. ASSUME NEW j \in DOMAIN msgs, End(msgs[j]) <= Place', j # k PROVE End(msgs[j]) <= Place
    <3>1. /\ j \in Nat /\ k \in Nat /\ End(msgs[j]) \in Nat /\ msgs[j].at \in Nat
          /\ msgs[j].at < End(msgs[j]) /\ End(msgs[k]) \in Nat
      BY <1>0, Numbers
    <3>2. CASE j < k
      BY <1>0, <2>2, <3>2 DEF TypeInv, MsgInv
    <3>3. CASE k < j
      <4>1. End(msgs[k]) <= msgs[j].at
        BY <1>0, <3>3 DEF TypeInv, MsgInv
      <4> QED BY <2>3, <2>4, <3>1, <4>1
    <3> QED BY <2>4, <3>1, <3>2, <3>3
  <2> QED BY <2>2, <2>3, <2>4
<1>12. InStep'
  BY <1>1, <1>4, <1>11 DEF FramingInv, InStep, Boundary
<1>13. PayloadsArrive'
  BY <1>1, <1>4, <1>6, <1>11 DEF FramingInv, PayloadsArrive, Messages, HasPayload, End
<1>14. EmptyLostOnlyAtEnd'
  BY <1>1, <1>4, <1>6, <1>11 DEF FramingInv, EmptyLostOnlyAtEnd, Messages, End
<1> QED BY <1>9, <1>10, <1>12, <1>13, <1>14 DEF FramingInv

LEMMA FramingInvNext == FramingInv /\ [Next]_vars => FramingInv'
<1> SUFFICES ASSUME FramingInv, [Next]_vars PROVE FramingInv'
  OBVIOUS
<1>1. TypeInv'
  BY TypeInvNext DEF FramingInv
<1>2. CASE UNCHANGED vars
  <2>1. UNCHANGED <<msgs, written, buf, pos, got, lag, fresh>>
    BY <1>2 DEF vars, history
  <2>2. InStep' /\ FreshInv'
    BY <2>1 DEF FramingInv, InStep, FreshInv, Boundary, Place, BufEnd, HasPayload, End, Given
  <2>3. PayloadsArrive' /\ EmptyLostOnlyAtEnd' /\ GivenInOrder'
    BY <2>1 DEF FramingInv, PayloadsArrive, EmptyLostOnlyAtEnd, GivenInOrder,
                Messages, Given, Place, BufEnd, HasPayload, End
  <2> QED BY <1>1, <2>2, <2>3 DEF FramingInv
<1> QED BY <1>1, <1>2, SendKeeps, RecvKeeps, IgnoreKeeps, DeliverKeeps DEF Next, Parse, Ended

(* As long as no recv leaves bytes behind, the callback gets every message *)
(* with a payload, whole, and nothing but messages; one without a payload  *)
(* is lost only when it is the last one in its buffer.                     *)
THEOREM KeptUpNothingLost == Spec => []LossNeedsLag
<1>1. FramingInv => LossNeedsLag
  BY DEF FramingInv, LossNeedsLag
<1> QED BY <1>1, FramingInvInit, FramingInvNext, PTL DEF Spec

(* In step or not, the callback gets no byte twice and none out of order *)
THEOREM BytesInOrder == Spec => []GivenInOrder
<1>1. FramingInv => GivenInOrder
  BY DEF FramingInv
<1> QED BY <1>1, FramingInvInit, FramingInvNext, PTL DEF Spec

(* A receiver that has read everything is in step again: the next message  *)
(* with a payload reaches the callback.                                    *)
THEOREM DrainedRecovers == Spec => []RecoversWhenDrained
<1>1. FramingInv => RecoversWhenDrained
  <2> SUFFICES ASSUME FramingInv, NEW k \in fresh, HasPayload(msgs[k]), End(msgs[k]) <= Place
               PROVE  msgs[k] \in Given
    BY DEF RecoversWhenDrained
  <2>1. k \in DOMAIN msgs
    BY MsgTypes DEF FramingInv, TypeInv, TypeOK
  <2>2. /\ msgs[k].at < End(msgs[k]) /\ msgs[k].at \in Nat /\ End(msgs[k]) \in Nat
        /\ Place \in Nat /\ BufEnd \in Nat /\ Place <= BufEnd
    BY <2>1, Numbers DEF FramingInv
  <2>3. pos = 0 => Place = buf.at
    BY MsgTypes DEF FramingInv, TypeInv, Place
  <2> QED BY <2>2, <2>3 DEF FramingInv, FreshInv
<1> QED BY <1>1, FramingInvInit, FramingInvNext, PTL DEF Spec

=============================================================================

-------------------------- MODULE ReqControlProofs --------------------------
(***************************************************************************)
(* Proofs about ReqControl, for every set of threads, requests and blocks   *)
(* and every MaxSeqId.                                                      *)
(***************************************************************************)
EXTENDS ReqControlInv, NatLemmas

(* af_ipc_util_gen_seq_id counts 1, 2, ..., MaxSeqId, 1, ...: it never       *)
(* returns 0, the id of unsolicited messages.                               *)
LEMMA GenSeqIdSteps ==
    ASSUME NEW last \in 0..MaxSeqId
    PROVE  /\ GenSeqId(last) = IF last = MaxSeqId THEN 1 ELSE last + 1
           /\ GenSeqId(last) \in 1..MaxSeqId
<1> DEFINE M == MaxSeqId + 1
<1>1. MaxSeqId \in Nat /\ MaxSeqId >= 1 /\ last \in Nat /\ M \in Nat /\ M > 0
  BY ConstantsAssumption
<1>2. CASE last = MaxSeqId
  <2>1. (last + 1) % M = 0
    BY <1>1, <1>2, SMT
  <2> QED BY <1>1, <1>2, <2>1 DEF GenSeqId
<1>3. CASE last # MaxSeqId
  <2>1. (last + 1) % M = last + 1
    BY <1>1, <1>3, SMT
  <2> QED BY <1>1, <1>3, <2>1 DEF GenSeqId
<1> QED BY <1>2, <1>3

-----------------------------------------------------------------------------
TypeInv == TypeOK /\ Shape

(* Removing a request from the list leaves a list of blocks *)
LEMMA RemoveRequestSubset ==
    ASSUME NEW list, NEW blocks, NEW q
    PROVE  RemoveRequest(list, blocks, q) \subseteq list
BY DEF RemoveRequest

(* The search of the list by sequence id finds the newest match, if any *)
LEMMA FirstWithFound ==
    ASSUME TypeInv, NEW q, \E s \in pending : mem[s].seqNum = q
    PROVE  /\ FirstWith(pending, mem, q) \in pending
           /\ mem[FirstWith(pending, mem, q)].seqNum = q
<1> DEFINE Age(s) == issued - born[mem[s].context]
           Match == {s \in pending : mem[s].seqNum = q}
           Ages == {Age(s) : s \in Match}
<1>1. \A s \in pending : born[mem[s].context] \in Nat /\ Age(s) \in Nat
  BY DEF TypeInv, TypeOK, Shape
<1>2. Ages \subseteq Nat /\ Ages # {}
  BY <1>1
<1>3. PICK a \in Ages : \A y \in Ages : a <= y
  BY <1>2, NatSetMin
<1>4. PICK s \in Match : a = Age(s)
  OBVIOUS
<1>5. \A u \in Match : Age(s) <= Age(u)
  BY <1>3, <1>4
<1>6. \A u \in Match : born[mem[u].context] <= born[mem[s].context]
  <2>1. issued \in Nat
    BY DEF TypeInv, TypeOK
  <2> HIDE DEF Match
  <2> QED BY <1>1, <1>5, <2>1 DEF Match
<1> QED
  BY <1>6 DEF FirstWith

LEMMA TypeInit == Init => TypeInv
BY ConstantsAssumption
   DEF Init, TypeInv, TypeOK, Shape, RequestBlock, Idle, Poll

LEMMA NextSeqIdTyped == TypeOK => GenSeqId(lastSeqId) \in 0..MaxSeqId
<1> SUFFICES ASSUME TypeOK PROVE GenSeqId(lastSeqId) \in 0..MaxSeqId
  OBVIOUS
<1>1. lastSeqId \in 0..MaxSeqId
  BY DEF TypeOK
<1>2. GenSeqId(lastSeqId) \in 1..MaxSeqId
  BY <1>1, GenSeqIdSteps
<1> QED BY <1>2, ConstantsAssumption

LEMMA TakeSeqIdTyped ==
    ASSUME TypeOK, \A x \in Requests : born[x] <= issued,
           NEW r \in Requests, TakeSeqId(r)
    PROVE  /\ issued' \in Nat /\ born' \in [Requests -> Nat]
           /\ seqOf' \in [Requests -> 0..MaxSeqId]
           /\ \A x \in Requests : born'[x] <= issued'
<1>1. /\ issued \in Nat /\ born \in [Requests -> Nat] /\ seqOf \in [Requests -> 0..MaxSeqId]
      /\ GenSeqId(lastSeqId) \in 0..MaxSeqId
  BY NextSeqIdTyped DEF TypeOK
<1>2. /\ issued' = issued + 1
      /\ born' = [born EXCEPT ![r] = issued + 1]
      /\ seqOf' = [seqOf EXCEPT ![r] = GenSeqId(lastSeqId)]
  BY DEF TakeSeqId
<1> QED BY <1>1, <1>2

LEMMA TypeStep == TypeInv /\ [Next]_vars => TypeInv'
<1>0. SUFFICES ASSUME TypeInv, [Next]_vars PROVE TypeInv'
  OBVIOUS
<1>a. TypeOK /\ Shape
  BY <1>0 DEF TypeInv
<1>1. ASSUME NEW t \in Threads, NEW r \in Requests,
             SendTooLong(t, r) \/ SendNoMemory(t, r)
      PROVE  TypeOK' /\ Shape'
  <2>1. /\ ret' = [ret EXCEPT ![r] = "error"]
        /\ UNCHANGED <<db, thread, loop, calls, net, history>>
    BY <1>1 DEF SendTooLong, SendNoMemory, Return
  <2>2. TypeOK'
    BY <1>a, <2>1 DEF TypeOK, db, net, history
  <2>3. Shape'
    BY <1>a, <2>1 DEF Shape, db, net, history
  <2> QED BY <2>2, <2>3
<1>3. ASSUME NEW t \in Threads, NEW r \in Requests, SendUntracked(t, r)
      PROVE  TypeOK' /\ Shape'
  BY <1>a, <1>3 DEF SendUntracked, Call, Return, TypeOK, Shape, Idle, db, net, history
<1>4. ASSUME NEW t \in Threads, NEW r \in Requests, NEW s \in Slots, SendNoTimer(t, r, s)
      PROVE  TypeOK' /\ Shape'
  <2>1. mem' \in [Slots -> RequestBlock] /\ lastSeqId' \in 0..MaxSeqId
    BY <1>a, <1>4, NextSeqIdTyped DEF SendNoTimer, NewBlock, TakeSeqId, RequestBlock, TypeOK
  <2>2. /\ issued' \in Nat /\ born' \in [Requests -> Nat]
        /\ seqOf' \in [Requests -> 0..MaxSeqId]
        /\ \A x \in Requests : born'[x] <= issued'
    BY <1>a, <1>4, TakeSeqIdTyped DEF SendNoTimer, Shape
  <2>3. TypeOK'
    BY <1>a, <1>4, <2>1, <2>2 DEF SendNoTimer, Return, TypeOK, net
  <2>4. \A u \in Slots : mem'[u].context \in Requests \/ mem'[u] = mem[u]
    BY <1>a, <1>4 DEF SendNoTimer, NewBlock, TypeOK
  <2>5. Shape'
    BY <1>a, <1>4, <2>2, <2>4 DEF SendNoTimer, TypeOK, Shape, Poll, Idle
  <2> QED BY <2>3, <2>5
<1>5. ASSUME NEW t \in Threads, NEW r \in Requests, NEW s \in Slots, SendRegister(t, r, s)
      PROVE  TypeOK' /\ Shape'
  <2>1. mem' \in [Slots -> RequestBlock] /\ lastSeqId' \in 0..MaxSeqId
    BY <1>a, <1>5, NextSeqIdTyped DEF SendRegister, NewBlock, TakeSeqId, RequestBlock, TypeOK
  <2>2. /\ issued' \in Nat /\ born' \in [Requests -> Nat]
        /\ seqOf' \in [Requests -> 0..MaxSeqId]
        /\ \A x \in Requests : born'[x] <= issued'
    BY <1>a, <1>5, TakeSeqIdTyped DEF SendRegister, Shape
  <2>3. TypeOK'
    BY <1>a, <1>5, <2>1, <2>2 DEF SendRegister, Return, TypeOK, net
  <2>4. \A u \in Slots : mem'[u].context \in Requests \/ (mem'[u] = mem[u] /\ u # s)
    BY <1>a, <1>5 DEF SendRegister, NewBlock, TypeOK
  <2>5. Shape'
    BY <1>a, <1>5, <2>2, <2>4 DEF SendRegister, TypeOK, Shape, Poll, Idle
  <2> QED BY <2>3, <2>5
<1>6. ASSUME NEW t \in Threads, SendmsgOk(t)
      PROVE  TypeOK' /\ Shape'
  <2>1. thread' \in [Threads -> [at : {"idle", "sendmsg", "cleanup", "stuck"},
                                 req : Requests \cup {NoReq}, slot : Slots \cup {NoSlot}]]
    BY <1>a, <1>6 DEF SendmsgOk, TypeOK, Idle
  <2>2. TypeOK'
    BY <1>a, <1>6, <2>1 DEF SendmsgOk, Return, TypeOK, Shape, db, history
  <2>3. Shape'
    BY <1>a, <1>6 DEF SendmsgOk, TypeOK, Shape, Idle, db, history
  <2> QED BY <2>2, <2>3
<1>7. ASSUME NEW t \in Threads, SendmsgFails(t)
      PROVE  TypeOK' /\ Shape'
  <2>1. thread' \in [Threads -> [at : {"idle", "sendmsg", "cleanup", "stuck"},
                                 req : Requests \cup {NoReq}, slot : Slots \cup {NoSlot}]]
    <3>1. thread[t].req \in Requests \cup {NoReq} /\ thread[t].slot \in Slots \cup {NoSlot}
      BY <1>a DEF TypeOK
    <3>2. PICK v \in [at : {"idle", "sendmsg", "cleanup", "stuck"},
                      req : Requests \cup {NoReq}, slot : Slots \cup {NoSlot}] :
               thread' = [thread EXCEPT ![t] = v]
      BY <1>7, <3>1 DEF SendmsgFails, Idle
    <3> QED BY <1>a, <3>2 DEF TypeOK
  <2>2. TypeOK'
    BY <1>a, <1>7, <2>1 DEF SendmsgFails, Return, TypeOK, db, net, history
  <2>3. \A u \in Threads : IF thread'[u].at = "idle" THEN thread'[u] = Idle
                                                   ELSE thread'[u].req \in Requests
    BY <1>a, <1>7 DEF SendmsgFails, TypeOK, Shape, Idle
  <2>4. Shape'
    BY <1>a, <1>7, <2>3 DEF SendmsgFails, Shape, Idle, Poll, db, net, history
  <2> QED BY <2>2, <2>4
<1>8. ASSUME NEW t \in Threads, Cleanup(t)
      PROVE  TypeOK' /\ Shape'
  <2>1. thread' \in [Threads -> [at : {"idle", "sendmsg", "cleanup", "stuck"},
                                 req : Requests \cup {NoReq}, slot : Slots \cup {NoSlot}]]
    BY <1>a, <1>8 DEF Cleanup, TypeOK, Idle
  <2>2. mem' \in [Slots -> RequestBlock]
    BY <1>a, <1>8 DEF Cleanup, TypeOK, RequestBlock, WithEvent
  <2>3. pending' \subseteq pending
    BY <1>8, RemoveRequestSubset DEF Cleanup
  <2>4. TypeOK'
    BY <1>a, <1>8, <2>1, <2>2, <2>3 DEF Cleanup, Return, TypeOK, net, history
  <2>5. \A u \in Slots : /\ mem'[u].context = mem[u].context
                         /\ mem'[u].event # "none" => mem[u].event # "none"
    BY <1>a, <1>8 DEF Cleanup, TypeOK, RequestBlock, WithEvent
  <2>6. \A u \in Threads : IF thread'[u].at = "idle" THEN thread'[u] = Idle
                                                   ELSE thread'[u].req \in Requests
    BY <1>a, <1>8 DEF Cleanup, TypeOK, Shape, Idle
  <2>7. Shape'
    BY <1>a, <1>8, <2>3, <2>5, <2>6 DEF Cleanup, Shape, Idle, Poll, net, history
  <2> QED BY <2>4, <2>7
<1>9. ASSUME NEW t \in Threads, CleanupBlocks(t)
      PROVE  TypeOK' /\ Shape'
  <2>1. thread' \in [Threads -> [at : {"idle", "sendmsg", "cleanup", "stuck"},
                                 req : Requests \cup {NoReq}, slot : Slots \cup {NoSlot}]]
    BY <1>a, <1>9 DEF CleanupBlocks, TypeOK
  <2>2. TypeOK'
    BY <1>a, <1>9, <2>1 DEF CleanupBlocks, TypeOK, db, net, history
  <2>3. \A u \in Threads : IF thread'[u].at = "idle" THEN thread'[u] = Idle
                                                   ELSE thread'[u].req \in Requests
    BY <1>a, <1>9 DEF CleanupBlocks, TypeOK, Shape
  <2>4. Shape'
    BY <1>a, <1>9, <2>3 DEF CleanupBlocks, Shape, Idle, Poll, db, net, history
  <2> QED BY <2>2, <2>4
<1>10. ASSUME NEW s \in Slots, TimerFires(s)
       PROVE  TypeOK' /\ Shape'
  <2>1. mem' \in [Slots -> RequestBlock]
    BY <1>a, <1>10 DEF TimerFires, TypeOK, RequestBlock, WithEvent
  <2>2. TypeOK'
    BY <1>a, <1>10, <2>1 DEF TimerFires, TypeOK, InTimeout, net, history
  <2>3. \A u \in Slots : /\ mem'[u].context = mem[u].context
                         /\ mem'[u].event # "none" => mem[u].event # "none"
    BY <1>a, <1>10 DEF TimerFires, TypeOK, RequestBlock, WithEvent
  <2>4. Shape'
    BY <1>a, <1>10, <2>3 DEF TimerFires, InTimeout, Shape, Idle, Poll, net, history
  <2> QED BY <2>2, <2>4
<1>11. ASSUME OnTimeout
       PROVE  TypeOK' /\ Shape'
  <2>1. mem' \in [Slots -> RequestBlock]
    BY <1>a, <1>11 DEF OnTimeout, TypeOK, RequestBlock, WithEvent
  <2>2. pending' \subseteq pending
    BY <1>11, RemoveRequestSubset DEF OnTimeout
  <2>3. loop' \in [at : {"poll", "on_timeout", "callback"},
                   slot : Slots \cup {NoSlot}, req : Requests \cup {NoReq},
                   arg : Requests \cup {TIMEOUT, NoReq}]
    BY <1>a, <1>11 DEF OnTimeout, InCallback, TypeOK, Shape
  <2>4. TypeOK'
    BY <1>a, <1>11, <2>1, <2>2, <2>3 DEF OnTimeout, TypeOK, net, history
  <2>5. \A u \in Slots : /\ mem'[u].context = mem[u].context
                         /\ mem'[u].event # "none" => mem[u].event # "none"
    BY <1>a, <1>11 DEF OnTimeout, TypeOK, RequestBlock, WithEvent
  <2>6. /\ loop'.at = "callback" /\ loop'.slot = NoSlot
        /\ loop'.req \in Requests /\ loop'.arg # NoReq
    BY <1>a, <1>11, ConstantsAssumption DEF OnTimeout, InCallback, Shape
  <2>7. Shape'
    BY <1>a, <1>11, <2>2, <2>5, <2>6 DEF OnTimeout, InCallback, Shape, Idle, Poll, net, history
  <2> QED BY <2>4, <2>7
<1>12. ASSUME NEW x \in Requests, HandleReply(x)
       PROVE  TypeOK' /\ Shape'
  <2>1. CASE \E s \in pending : mem[s].seqNum = seqOf[x]
    <3> DEFINE s == FirstWith(pending, mem, seqOf[x])
    <3>1. s \in pending
      BY <1>0, <2>1, FirstWithFound
    <3>2. s \in Slots /\ mem[s].context \in Requests
      BY <1>a, <3>1 DEF TypeOK, Shape
    <3>3. /\ mem' = [mem EXCEPT ![s] = WithEvent(mem[s], "none")]
          /\ pending' = RemoveRequest(pending, mem, seqOf[x])
          /\ loop' = InCallback(mem[s].context, x)
          /\ replies' \subseteq replies
          /\ UNCHANGED <<open, lastSeqId, thread, ret, calls, peer, history>>
      BY <1>12, <2>1 DEF HandleReply
    <3> HIDE DEF s
    <3>4. mem' \in [Slots -> RequestBlock]
      BY <1>a, <3>2, <3>3 DEF TypeOK, RequestBlock, WithEvent
    <3>5. pending' \subseteq pending
      BY <3>3, RemoveRequestSubset
    <3>6. TypeOK'
      BY <1>a, <3>2, <3>3, <3>4, <3>5 DEF TypeOK, InCallback, history
    <3>7. \A u \in Slots : /\ mem'[u].context = mem[u].context
                           /\ mem'[u].event # "none" => mem[u].event # "none"
      BY <1>a, <3>2, <3>3 DEF TypeOK, RequestBlock, WithEvent
    <3>8. Shape'
      BY <1>a, <3>2, <3>3, <3>5, <3>7, ConstantsAssumption DEF Shape, InCallback, Idle, Poll, history
    <3> QED BY <3>6, <3>8
  <2>2. CASE ~ \E s \in pending : mem[s].seqNum = seqOf[x]
    BY <1>a, <1>12, <2>2 DEF HandleReply, TypeOK, Shape, history
  <2> QED BY <2>1, <2>2
<1>13. ASSUME RunCallback
       PROVE  TypeOK' /\ Shape'
  <2>1. calls' \in [Requests -> Seq(Requests \cup {TIMEOUT})]
    BY <1>a, <1>13 DEF RunCallback, TypeOK, Shape
  <2> QED
    BY <1>a, <1>13, <2>1 DEF RunCallback, TypeOK, Shape, Poll, db, net, history
<1>14. ASSUME NEW x \in Requests, PeerAnswers(x) \/ PeerForgets(x)
       PROVE  TypeOK' /\ Shape'
  BY <1>a, <1>14 DEF PeerAnswers, PeerForgets, TypeOK, Shape, db, history
<1>15. ASSUME Shutdown
       PROVE  TypeOK' /\ Shape'
  <2>1. \A s \in Slots : /\ mem'[s] \in RequestBlock
                         /\ mem'[s].context = mem[s].context
                         /\ mem'[s].event # "none" => mem[s].event # "none"
    <3> SUFFICES ASSUME NEW s \in Slots
                 PROVE  /\ mem'[s] \in RequestBlock
                        /\ mem'[s].context = mem[s].context
                        /\ mem'[s].event # "none" => mem[s].event # "none"
      OBVIOUS
    <3>1. mem[s] \in RequestBlock
      BY <1>a DEF TypeOK
    <3>2. mem'[s] = IF s \in pending THEN WithEvent(mem[s], "none") ELSE mem[s]
      BY <1>15 DEF Shutdown
    <3> QED BY <3>1, <3>2 DEF RequestBlock, WithEvent
  <2>2. mem' \in [Slots -> RequestBlock]
    BY <1>15, <2>1 DEF Shutdown
  <2>3. TypeOK'
    BY <1>a, <1>15, <2>2 DEF Shutdown, TypeOK, net, history
  <2>4. Shape'
    BY <1>a, <1>15, <2>1 DEF Shutdown, Shape, Idle, Poll, net, history
  <2> QED BY <2>3, <2>4
<1>16. ASSUME UNCHANGED vars
       PROVE  TypeOK' /\ Shape'
  BY <1>a, <1>16 DEF vars, TypeOK, Shape, db, net, history
<1>17. TypeOK' /\ Shape'
  BY <1>0, <1>1, <1>3, <1>4, <1>5, <1>6, <1>7, <1>8, <1>9, <1>10, <1>11, <1>12,
     <1>13, <1>14, <1>15, <1>16 DEF Next, SendStep, Closed
<1> QED BY <1>17 DEF TypeInv

(* TypeOK is an invariant whatever the constants: also with a slow send and *)
(* reused sequence ids.                                                     *)
THEOREM TypeCorrect == Spec => []TypeOK
<1>1. TypeInv => TypeOK
  BY DEF TypeInv
<1> QED BY <1>1, TypeInit, TypeStep, PTL DEF Spec

-----------------------------------------------------------------------------
(* Sequence ids are exact: two live requests never share one.  The distance *)
(* to the last id issued is the age of each, modulo MaxSeqId, and ages are  *)
(* smaller than MaxSeqId.                                                   *)
LEMMA SameIdSameRequest ==
    ASSUME TypeOK, WindowInv, NEW x \in Live, NEW y \in Live, seqOf[x] = seqOf[y]
    PROVE  x = y
<1>1. OnCircle(x) /\ OnCircle(y) /\ (born[x] = born[y] => x = y)
  BY DEF WindowInv
<1>2. MaxSeqId \in Nat /\ issued \in Nat /\ lastSeqId \in Nat
  BY ConstantsAssumption DEF TypeOK
<1>3. born[x] = born[y]
  BY <1>1, <1>2 DEF OnCircle
<1> QED BY <1>1, <1>3

(* A search by the id of a pending block finds that block *)
LEMMA RemoveOwn ==
    ASSUME IInv, NEW s \in pending
    PROVE  /\ \A u \in pending : mem[u].seqNum = mem[s].seqNum => u = s
           /\ FirstWith(pending, mem, mem[s].seqNum) = s
           /\ RemoveRequest(pending, mem, mem[s].seqNum) = pending \ {s}
<1>1. TypeInv /\ TypeOK /\ WindowInv /\ BlockInv /\ ListInv
  BY DEF IInv, TypeInv
<1>2. \A u \in pending : mem[u].context \in Live /\ mem[u].seqNum = seqOf[mem[u].context]
  BY <1>1 DEF BlockInv, Live
<1>3. \A u \in pending : mem[u].seqNum = mem[s].seqNum => mem[u].context = mem[s].context
  BY <1>1, <1>2, SameIdSameRequest
<1>4. \A u \in pending : mem[u].seqNum = mem[s].seqNum => u = s
  BY <1>1, <1>3 DEF ListInv
<1>5. FirstWith(pending, mem, mem[s].seqNum) = s
  BY <1>1, <1>4, FirstWithFound
<1> QED BY <1>4, <1>5 DEF RemoveRequest

(* A request that was not sent yet is nowhere *)
LEMMA UnusedIsNowhere ==
    ASSUME IInv, NEW r \in Requests, ret[r] = "unused"
    PROVE  /\ r \notin Live /\ calls[r] = <<>> /\ loop.req # r
           /\ \A s \in pending : mem[s].context # r
           /\ \A t \in Threads : thread[t].req # r
<1>1. \A t \in Threads : thread[t].req # r
  <2>1. \A t \in Threads : thread[t].at = "idle" => thread[t].req = NoReq
    BY DEF IInv, Shape, Idle
  <2>2. \A t \in Threads : thread[t].at # "idle" => ret[thread[t].req] = "insend"
    BY DEF IInv, ThreadInv
  <2> QED BY <2>1, <2>2, ConstantsAssumption
<1>2. \A s \in pending : mem[s].context # r
  BY DEF IInv, BlockInv
<1>3. r \notin peer \cup replies
  BY DEF IInv, NetInv
<1>4. calls[r] = <<>>
  BY DEF IInv, CallsInv
<1>5. loop.req # r
  <2>1. CASE loop.at = "callback"
    BY <2>1 DEF IInv, LoopInv
  <2>2. CASE loop.at # "callback"
    BY <2>2, ConstantsAssumption DEF IInv, TypeOK, Shape, Poll
  <2> QED BY <2>1, <2>2
<1> QED BY <1>1, <1>2, <1>3, <1>4, <1>5 DEF Live, InSend

LEMMA WindowShrinks ==
    ASSUME WindowInv, Live' \subseteq Live, UNCHANGED <<lastSeqId, history>>
    PROVE  WindowInv'
BY DEF WindowInv, OnCircle, history

(* A new sequence id keeps the window, by the guard InWindow *)
LEMMA WindowGrows ==
    ASSUME TypeOK, WindowInv, InWindow, NEW r \in Requests, r \notin Live, TakeSeqId(r),
           Live \subseteq Requests, Live' \subseteq Live \cup {r}
    PROVE  WindowInv'
<1>1. /\ MaxSeqId \in Nat /\ MaxSeqId >= 1 /\ issued \in Nat
      /\ lastSeqId \in 0..MaxSeqId /\ born \in [Requests -> Nat]
      /\ seqOf \in [Requests -> 0..MaxSeqId]
  BY ConstantsAssumption DEF TypeOK
<1>2. /\ lastSeqId' = IF lastSeqId = MaxSeqId THEN 1 ELSE lastSeqId + 1
      /\ lastSeqId' \in 1..MaxSeqId
      /\ issued' = issued + 1
  BY <1>1, GenSeqIdSteps DEF TakeSeqId
<1>3. born'[r] = issued + 1 /\ seqOf'[r] = lastSeqId'
  BY <1>1 DEF TakeSeqId
<1>4. \A x \in Live : born'[x] = born[x] /\ seqOf'[x] = seqOf[x]
  BY <1>1 DEF TakeSeqId
<1>5. \A x \in Live : OnCircle(x) /\ issued + 1 - born[x] < MaxSeqId
  BY DEF WindowInv, InWindow
<1>6. \A x, y \in Live : born[x] = born[y] => x = y
  BY DEF WindowInv
<1>7. OnCircle(r)'
  BY <1>1, <1>2, <1>3 DEF OnCircle
<1>8. ASSUME NEW x \in Live PROVE OnCircle(x)'
  BY <1>1, <1>2, <1>4, <1>5 DEF OnCircle
<1>9. \A x \in Live : born'[x] # born'[r]
  BY <1>1, <1>3, <1>4, <1>5 DEF OnCircle
<1>10. \A x \in Live' : OnCircle(x)'
  BY <1>7, <1>8
<1>11. \A x, y \in Live' : born'[x] = born'[y] => x = y
  BY <1>4, <1>6, <1>9
<1> QED BY <1>10, <1>11 DEF WindowInv

-----------------------------------------------------------------------------
LEMMA InvInit == Init => IInv
<1> SUFFICES ASSUME Init PROVE IInv
  OBVIOUS
<1>1. TypeOK /\ Shape
  BY TypeInit DEF TypeInv
<1>2. Live = {}
  BY DEF Init, Live, InSend, Idle
<1>3. BlockInv /\ ListInv /\ ThreadInv /\ LoopInv
  BY DEF Init, BlockInv, ListInv, ThreadInv, LoopInv, Idle, Poll
<1>4. CallsInv /\ NetInv /\ AwaitedInv /\ ClosedInv
  BY DEF Init, CallsInv, NetInv, AwaitedInv, ClosedInv
<1>5. WindowInv
  BY <1>2 DEF WindowInv
<1> QED BY <1>1, <1>3, <1>4, <1>5 DEF IInv

LEMMA LiveRequests ==
    ASSUME IInv
    PROVE  Live \subseteq Requests
<1>1. \A t \in Threads : thread[t].slot # NoSlot => thread[t].req \in Requests
  BY DEF IInv, Shape, Idle
<1>2. \A s \in pending : mem[s].context \in Requests
  BY DEF IInv, BlockInv
<1> QED BY <1>1, <1>2 DEF IInv, TypeOK, Live, InSend

(* af_ipc_send gives up before it registers anything *)
LEMMA InvSendRejected ==
    ASSUME IInv, NEW t \in Threads, NEW r \in Requests,
           SendTooLong(t, r) \/ SendNoMemory(t, r)
    PROVE  BlockInv' /\ ListInv' /\ ThreadInv' /\ LoopInv' /\ CallsInv' /\ NetInv'
           /\ AwaitedInv' /\ ClosedInv' /\ WindowInv'
<1>1. /\ ret[r] = "unused"
      /\ ret' = [ret EXCEPT ![r] = "error"]
      /\ UNCHANGED <<db, thread, loop, calls, net, history>>
  BY DEF SendTooLong, SendNoMemory, Call, Return
<1>2. /\ r \notin Live /\ calls[r] = <<>> /\ loop.req # r
      /\ \A s \in pending : mem[s].context # r
      /\ \A u \in Threads : thread[u].req # r
  BY <1>1, UnusedIsNowhere
<1>3. /\ ret'[r] = "error"
      /\ \A x \in Requests : x # r => ret'[x] = ret[x]
  BY <1>1 DEF IInv, TypeOK
<1>4. BlockInv' /\ ListInv'
  BY <1>1, <1>2, <1>3 DEF IInv, BlockInv, ListInv, db, history
<1>5. ThreadInv'
  BY <1>1, <1>2, <1>3 DEF IInv, Shape, ThreadInv, db
<1>6. LoopInv'
  BY <1>1, <1>2, <1>3 DEF IInv, Shape, LoopInv, db
<1>7. CallsInv' /\ NetInv'
  BY <1>1, <1>2, <1>3 DEF IInv, CallsInv, NetInv, net, Live
<1>8. AwaitedInv' /\ ClosedInv'
  BY <1>1, <1>2, <1>3 DEF IInv, AwaitedInv, ClosedInv, db
<1>9. WindowInv'
  BY <1>1, WindowShrinks DEF IInv, Live, InSend, db, net
<1> QED BY <1>4, <1>5, <1>6, <1>7, <1>8, <1>9

(* evtimer_new fails: an id is used up and a free block overwritten *)
LEMMA InvSendNoTimer ==
    ASSUME IInv, KeepWindow, NEW t \in Threads, NEW r \in Requests, NEW s \in Slots,
           SendNoTimer(t, r, s)
    PROVE  BlockInv' /\ ListInv' /\ ThreadInv' /\ LoopInv' /\ CallsInv' /\ NetInv'
           /\ AwaitedInv' /\ ClosedInv' /\ WindowInv'
<1>1. /\ ret[r] = "unused" /\ s \notin pending /\ InWindow
      /\ ret' = [ret EXCEPT ![r] = "error"]
      /\ mem' = [mem EXCEPT ![s] = NewBlock(r, "none")]
      /\ TakeSeqId(r)
      /\ UNCHANGED <<open, pending, thread, loop, calls, net>>
  BY DEF SendNoTimer, Call, Return
<1>2. /\ r \notin Live /\ calls[r] = <<>> /\ loop.req # r
      /\ \A u \in pending : mem[u].context # r
      /\ \A u \in Threads : thread[u].req # r
  BY <1>1, UnusedIsNowhere
<1>3. /\ ret'[r] = "error"
      /\ \A x \in Requests : x # r => ret'[x] = ret[x] /\ seqOf'[x] = seqOf[x]
  BY <1>1 DEF IInv, TypeOK, TakeSeqId
<1>4. /\ mem'[s].event = "none"
      /\ \A u \in Slots : u # s => mem'[u] = mem[u]
  BY <1>1 DEF IInv, TypeOK, NewBlock
<1>5. \A u \in pending : u \in Slots /\ mem'[u] = mem[u]
  BY <1>1, <1>4 DEF IInv, TypeOK
<1>6. BlockInv' /\ ListInv'
  BY <1>1, <1>2, <1>3, <1>4, <1>5 DEF IInv, BlockInv, ListInv
<1>7. ThreadInv'
  BY <1>1, <1>2, <1>3, <1>5 DEF IInv, Shape, ThreadInv
<1>8. LoopInv'
  BY <1>1, <1>2, <1>3 DEF IInv, Shape, LoopInv
<1>9. CallsInv' /\ NetInv'
  BY <1>1, <1>2, <1>3 DEF IInv, CallsInv, NetInv, net, Live
<1>10. AwaitedInv' /\ ClosedInv'
  BY <1>1, <1>2, <1>3, <1>5 DEF IInv, AwaitedInv, ClosedInv
<1>11. Live' = Live
  BY <1>1, <1>5 DEF Live, InSend, net
<1>12. WindowInv'
  BY <1>1, <1>2, <1>11, LiveRequests, WindowGrows DEF IInv
<1> QED BY <1>6, <1>7, <1>8, <1>9, <1>10, <1>12

(* A request is registered, with its timer *)
LEMMA InvSendRegister ==
    ASSUME IInv, KeepWindow, NEW t \in Threads, NEW r \in Requests, NEW s \in Slots,
           SendRegister(t, r, s)
    PROVE  BlockInv' /\ ListInv' /\ ThreadInv' /\ LoopInv' /\ CallsInv' /\ NetInv'
           /\ AwaitedInv' /\ ClosedInv' /\ WindowInv'
<1>1. /\ open /\ thread[t].at = "idle" /\ r \notin NoTimeout
      /\ ret[r] = "unused" /\ s \notin pending /\ InWindow
      /\ ret' = [ret EXCEPT ![r] = "insend"]
      /\ mem' = [mem EXCEPT ![s] = NewBlock(r, "armed")]
      /\ TakeSeqId(r)
      /\ pending' = pending \cup {s}
      /\ thread' = [thread EXCEPT ![t] = [at |-> "sendmsg", req |-> r, slot |-> s]]
      /\ UNCHANGED <<open, loop, calls, net>>
  BY DEF SendRegister, Call, Return
<1>2. /\ r \notin Live /\ calls[r] = <<>> /\ loop.req # r
      /\ \A u \in pending : mem[u].context # r
      /\ \A u \in Threads : thread[u].req # r
  BY <1>1, UnusedIsNowhere
<1>3. /\ ret'[r] = "insend"
      /\ \A x \in Requests : x # r => ret'[x] = ret[x] /\ seqOf'[x] = seqOf[x]
  BY <1>1 DEF IInv, TypeOK, TakeSeqId
<1>4. /\ mem'[s].event = "armed" /\ mem'[s].context = r /\ mem'[s].seqNum = seqOf'[r]
      /\ \A u \in Slots : u # s => mem'[u] = mem[u]
  BY <1>1 DEF IInv, TypeOK, NewBlock, TakeSeqId
<1>5. \A u \in pending : u \in Slots /\ u # s /\ mem'[u] = mem[u]
  BY <1>1, <1>4 DEF IInv, TypeOK
<1>6. loop.slot # s
  BY <1>1, ConstantsAssumption DEF IInv, TypeOK, Shape, LoopInv, Poll
<1>7. /\ thread'[t] = [at |-> "sendmsg", req |-> r, slot |-> s]
      /\ \A u \in Threads : u # t => thread'[u] = thread[u]
  BY <1>1 DEF IInv, TypeOK
<1>8. BlockInv'
  BY <1>1, <1>2, <1>3, <1>4, <1>5, <1>6 DEF IInv, BlockInv
<1>9. ListInv'
  BY <1>1, <1>2, <1>4, <1>5 DEF IInv, ListInv
<1>10. ThreadInv'
  <2>1. \A u \in Threads : u # t /\ thread[u].at # "idle" =>
            thread[u].req \in Requests /\ thread[u].req # r
    BY <1>2 DEF IInv, Shape
  <2>2. ASSUME NEW u \in Threads, thread'[u].at # "idle"
        PROVE  /\ thread'[u].at # "stuck"
               /\ ret'[thread'[u].req] = "insend"
               /\ calls'[thread'[u].req] = <<>>
               /\ thread'[u].slot = NoSlot <=> thread'[u].req \in NoTimeout
               /\ thread'[u].slot = NoSlot => thread'[u].at = "sendmsg"
               /\ thread'[u].slot # NoSlot =>
                    /\ thread'[u].slot \in pending'
                    /\ mem'[thread'[u].slot].context = thread'[u].req
                    /\ loop'.slot # thread'[u].slot
    <3>1. CASE u = t
      BY <1>1, <1>2, <1>3, <1>4, <1>6, <1>7, <3>1, ConstantsAssumption
    <3>2. CASE u # t
      BY <1>1, <1>3, <1>5, <1>7, <2>1, <2>2, <3>2 DEF IInv, ThreadInv
    <3> QED BY <3>1, <3>2
  <2>3. \A u, v \in Threads :
            thread'[u].at # "idle" /\ thread'[u].req = thread'[v].req => u = v
    BY <1>2, <1>7 DEF IInv, ThreadInv
  <2>4. \A x \in Requests : ret'[x] = "insend" =>
            \E u \in Threads : thread'[u].at # "idle" /\ thread'[u].req = x
    <3>1. \A x \in Requests : x # r /\ ret[x] = "insend" =>
              \E u \in Threads : u # t /\ thread[u].at # "idle" /\ thread[u].req = x
      BY <1>1 DEF IInv, ThreadInv
    <3> QED BY <1>3, <1>7, <3>1
  <2> QED BY <2>2, <2>3, <2>4 DEF ThreadInv
<1>11. LoopInv'
  BY <1>1, <1>2, <1>3 DEF IInv, Shape, LoopInv
<1>12. CallsInv' /\ NetInv'
  BY <1>1, <1>2, <1>3 DEF IInv, CallsInv, NetInv, net, Live
<1>13. AwaitedInv' /\ ClosedInv'
  BY <1>1, <1>2, <1>3, <1>4, <1>5 DEF IInv, AwaitedInv, ClosedInv
<1>14. Live' \subseteq Live \cup {r}
  BY <1>1, <1>4, <1>5, <1>7 DEF Live, InSend, net
<1>15. WindowInv'
  BY <1>1, <1>2, <1>14, LiveRequests, WindowGrows DEF IInv
<1> QED BY <1>8, <1>9, <1>10, <1>11, <1>12, <1>13, <1>15

(* A request with timeoutMs = 0 is sent without a block *)
LEMMA InvSendUntracked ==
    ASSUME IInv, NEW t \in Threads, NEW r \in Requests, SendUntracked(t, r)
    PROVE  BlockInv' /\ ListInv' /\ ThreadInv' /\ LoopInv' /\ CallsInv' /\ NetInv'
           /\ AwaitedInv' /\ ClosedInv' /\ WindowInv'
<1>1. /\ open /\ thread[t].at = "idle" /\ r \in NoTimeout /\ ret[r] = "unused"
      /\ ret' = [ret EXCEPT ![r] = "insend"]
      /\ thread' = [thread EXCEPT ![t] = [at |-> "sendmsg", req |-> r, slot |-> NoSlot]]
      /\ UNCHANGED <<db, loop, calls, net, history>>
  BY DEF SendUntracked, Call, Return
<1>2. /\ r \notin Live /\ calls[r] = <<>> /\ loop.req # r
      /\ \A u \in pending : mem[u].context # r
      /\ \A u \in Threads : thread[u].req # r
  BY <1>1, UnusedIsNowhere
<1>3. /\ ret'[r] = "insend"
      /\ \A x \in Requests : x # r => ret'[x] = ret[x]
  BY <1>1 DEF IInv, TypeOK
<1>4. /\ thread'[t] = [at |-> "sendmsg", req |-> r, slot |-> NoSlot]
      /\ \A u \in Threads : u # t => thread'[u] = thread[u]
  BY <1>1 DEF IInv, TypeOK
<1>5. BlockInv' /\ ListInv'
  BY <1>1, <1>2, <1>3 DEF IInv, BlockInv, ListInv, db, history
<1>6. ThreadInv'
  <2>1. \A u \in Threads : u # t /\ thread[u].at # "idle" =>
            thread[u].req \in Requests /\ thread[u].req # r
    BY <1>2 DEF IInv, Shape
  <2>2. \A u \in Threads : thread'[u].at # "idle" =>
           /\ thread'[u].at # "stuck"
           /\ ret'[thread'[u].req] = "insend"
           /\ calls'[thread'[u].req] = <<>>
           /\ thread'[u].slot = NoSlot <=> thread'[u].req \in NoTimeout
           /\ thread'[u].slot = NoSlot => thread'[u].at = "sendmsg"
           /\ thread'[u].slot # NoSlot =>
                /\ thread'[u].slot \in pending'
                /\ mem'[thread'[u].slot].context = thread'[u].req
                /\ loop'.slot # thread'[u].slot
    BY <1>1, <1>2, <1>3, <1>4, <2>1 DEF IInv, ThreadInv, db
  <2>3. \A u, v \in Threads :
            thread'[u].at # "idle" /\ thread'[u].req = thread'[v].req => u = v
    BY <1>2, <1>4 DEF IInv, ThreadInv
  <2>4. \A x \in Requests : ret'[x] = "insend" =>
            \E u \in Threads : thread'[u].at # "idle" /\ thread'[u].req = x
    <3>1. \A x \in Requests : x # r /\ ret[x] = "insend" =>
              \E u \in Threads : u # t /\ thread[u].at # "idle" /\ thread[u].req = x
      BY <1>1 DEF IInv, ThreadInv
    <3> QED BY <1>3, <1>4, <3>1
  <2> QED BY <2>2, <2>3, <2>4 DEF ThreadInv
<1>7. LoopInv'
  BY <1>1, <1>2, <1>3 DEF IInv, Shape, LoopInv, db
<1>8. CallsInv' /\ NetInv'
  BY <1>1, <1>2, <1>3 DEF IInv, CallsInv, NetInv, net, Live
<1>9. AwaitedInv' /\ ClosedInv'
  BY <1>1, <1>2, <1>3 DEF IInv, AwaitedInv, ClosedInv, db
<1>10. Live' \subseteq Live
  BY <1>1, <1>4 DEF Live, InSend, db, net
<1>11. WindowInv'
  BY <1>1, <1>10, WindowShrinks DEF IInv, db
<1> QED BY <1>5, <1>6, <1>7, <1>8, <1>9, <1>11

(* A thread returns from af_ipc_send *)
LEMMA ThreadLeaves ==
    ASSUME IInv, NEW t \in Threads, thread[t].at # "idle", NEW v, v # "insend",
           thread' = [thread EXCEPT ![t] = Idle],
           ret' = [ret EXCEPT ![thread[t].req] = v],
           UNCHANGED <<loop, calls>>,
           \A s \in pending : s # thread[t].slot => s \in pending' /\ mem'[s].context = mem[s].context
    PROVE  ThreadInv' /\ (Live' \subseteq Live \cup peer' \cup replies' \cup {mem'[s].context : s \in pending'})
<1> DEFINE r == thread[t].req
<1>1. /\ thread'[t] = Idle
      /\ \A u \in Threads : u # t => thread'[u] = thread[u]
  BY DEF IInv, TypeOK
<1>2. r \in Requests /\ \A u \in Threads : u # t => thread[u].req # r
  BY DEF IInv, Shape, ThreadInv
<1>3. ret'[r] = v /\ \A x \in Requests : x # r => ret'[x] = ret[x]
  BY <1>2 DEF IInv, TypeOK
<1>4. \A u \in Threads : u # t /\ thread[u].at # "idle" => thread[u].req \in Requests
  BY DEF IInv, Shape
<1>5. \A u \in Threads : u # t /\ thread[u].at # "idle" /\ thread[u].slot # NoSlot =>
          thread[u].slot # thread[t].slot
  BY <1>2 DEF IInv, ThreadInv
<1>6. \A u \in Threads : thread'[u].at # "idle" => u # t /\ thread[u].at # "idle"
  BY <1>1 DEF Idle
<1>7. \A u \in Threads : thread'[u].at # "idle" =>
           /\ thread'[u].at # "stuck"
           /\ ret'[thread'[u].req] = "insend"
           /\ calls'[thread'[u].req] = <<>>
           /\ thread'[u].slot = NoSlot <=> thread'[u].req \in NoTimeout
           /\ thread'[u].slot = NoSlot => thread'[u].at = "sendmsg"
           /\ thread'[u].slot # NoSlot =>
                /\ thread'[u].slot \in pending'
                /\ mem'[thread'[u].slot].context = thread'[u].req
                /\ loop'.slot # thread'[u].slot
  BY <1>1, <1>2, <1>3, <1>4, <1>5, <1>6 DEF IInv, ThreadInv
<1>8. \A u, w \in Threads :
          thread'[u].at # "idle" /\ thread'[u].req = thread'[w].req => u = w
  BY <1>1, <1>4, <1>6, ConstantsAssumption DEF IInv, ThreadInv, Idle
<1>9. \A x \in Requests : ret'[x] = "insend" =>
          \E u \in Threads : thread'[u].at # "idle" /\ thread'[u].req = x
  BY <1>1, <1>3 DEF IInv, ThreadInv
<1>10. \A u \in Threads : thread'[u].slot # NoSlot => thread'[u] = thread[u]
  BY <1>1 DEF Idle
<1> QED BY <1>7, <1>8, <1>9, <1>10 DEF ThreadInv, Live, InSend

(* sendmsg succeeds *)
LEMMA InvSendmsgOk ==
    ASSUME IInv, NEW t \in Threads, SendmsgOk(t)
    PROVE  BlockInv' /\ ListInv' /\ ThreadInv' /\ LoopInv' /\ CallsInv' /\ NetInv'
           /\ AwaitedInv' /\ ClosedInv' /\ WindowInv'
<1> DEFINE r == thread[t].req
<1>1. /\ thread[t].at = "sendmsg"
      /\ peer' = IF thread[t].slot = NoSlot THEN peer ELSE peer \cup {r}
      /\ ret' = [ret EXCEPT ![r] = "ok"]
      /\ thread' = [thread EXCEPT ![t] = Idle]
      /\ UNCHANGED <<db, loop, calls, replies, history>>
  BY DEF SendmsgOk, Return
<1>2. /\ r \in Requests /\ ret[r] = "insend" /\ calls[r] = <<>>
      /\ thread[t].slot = NoSlot <=> r \in NoTimeout
      /\ thread[t].slot # NoSlot => thread[t].slot \in pending /\ mem[thread[t].slot].context = r
  BY <1>1 DEF IInv, Shape, ThreadInv
<1>3. ret'[r] = "ok" /\ \A x \in Requests : x # r => ret'[x] = ret[x]
  BY <1>1, <1>2 DEF IInv, TypeOK
<1>4. BlockInv' /\ ListInv'
  BY <1>1, <1>3 DEF IInv, BlockInv, ListInv, db, history
<1>5. ThreadInv' /\ (Live' \subseteq Live \cup peer' \cup replies' \cup {mem'[s].context : s \in pending'})
  BY <1>1, ThreadLeaves DEF db
<1>6. LoopInv'
  BY <1>1, <1>3 DEF IInv, Shape, LoopInv, db
<1>7. CallsInv' /\ NetInv'
  BY <1>1, <1>2, <1>3 DEF IInv, CallsInv, NetInv
<1>8. AwaitedInv'
  BY <1>1, <1>2, <1>3 DEF IInv, AwaitedInv, db
<1>9. ClosedInv'
  BY <1>1 DEF IInv, ClosedInv, db
<1>10. r \in Live \/ r \in NoTimeout
  BY <1>2 DEF Live
<1>11. peer' \cup replies' \cup {mem'[s].context : s \in pending'} \subseteq Live
  BY <1>1, <1>2, <1>10 DEF Live, db
<1>12. WindowInv'
  BY <1>1, <1>5, <1>11, WindowShrinks DEF IInv, db
<1> QED BY <1>4, <1>5, <1>6, <1>7, <1>8, <1>9, <1>12

(* sendmsg fails: af_ipc_send returns -1 at once, or has a block to clean up *)
LEMMA InvSendmsgFails ==
    ASSUME IInv, NEW t \in Threads, SendmsgFails(t)
    PROVE  BlockInv' /\ ListInv' /\ ThreadInv' /\ LoopInv' /\ CallsInv' /\ NetInv'
           /\ AwaitedInv' /\ ClosedInv' /\ WindowInv'
<1> DEFINE r == thread[t].req
<1>1. /\ thread[t].at = "sendmsg" /\ UNCHANGED <<db, loop, calls, net, history>>
  BY DEF SendmsgFails
<1>2. /\ r \in Requests /\ ret[r] = "insend" /\ calls[r] = <<>>
      /\ thread[t].slot = NoSlot <=> r \in NoTimeout
  BY <1>1 DEF IInv, Shape, ThreadInv
<1>3. CASE thread[t].slot = NoSlot
  <2>1. ret' = [ret EXCEPT ![r] = "error"] /\ thread' = [thread EXCEPT ![t] = Idle]
    BY <1>3 DEF SendmsgFails, Return
  <2>2. ret'[r] = "error" /\ \A x \in Requests : x # r => ret'[x] = ret[x]
    BY <1>2, <2>1 DEF IInv, TypeOK
  <2>3. BlockInv' /\ ListInv'
    BY <1>1, <1>2, <1>3, <2>2 DEF IInv, BlockInv, ListInv, db, history
  <2>4. ThreadInv' /\ (Live' \subseteq Live \cup peer' \cup replies' \cup {mem'[s].context : s \in pending'})
    BY <1>1, <2>1, ThreadLeaves DEF db
  <2>5. LoopInv' /\ CallsInv' /\ NetInv'
    BY <1>1, <1>2, <2>2 DEF IInv, Shape, LoopInv, CallsInv, NetInv, db, net
  <2>6. AwaitedInv'
    BY <1>1, <1>2, <2>2 DEF IInv, AwaitedInv, db
  <2>7. ClosedInv'
    BY <1>1 DEF IInv, ClosedInv, db
  <2>8. WindowInv'
    BY <1>1, <2>4, WindowShrinks DEF IInv, Live, db, net
  <2> QED BY <2>3, <2>4, <2>5, <2>6, <2>7, <2>8
<1>4. CASE thread[t].slot # NoSlot
  <2>1. /\ thread' = [thread EXCEPT ![t] = [at |-> "cleanup", req |-> r, slot |-> thread[t].slot]]
        /\ ret' = ret
    BY <1>4 DEF SendmsgFails
  <2>2. /\ thread'[t] = [at |-> "cleanup", req |-> r, slot |-> thread[t].slot]
        /\ \A u \in Threads : u # t => thread'[u] = thread[u]
    BY <2>1 DEF IInv, TypeOK
  <2>3. \A u \in Threads : /\ thread'[u].req = thread[u].req /\ thread'[u].slot = thread[u].slot
                           /\ thread'[u].at = "idle" <=> thread[u].at = "idle"
                           /\ u # t => thread'[u].at = thread[u].at
    BY <1>1, <2>2
  <2>4. BlockInv' /\ ListInv' /\ LoopInv' /\ CallsInv' /\ NetInv' /\ AwaitedInv'
    BY <1>1, <2>1
       DEF IInv, BlockInv, ListInv, LoopInv, CallsInv, NetInv, AwaitedInv, db, net, history
  <2>5. ThreadInv'
    BY <1>1, <1>4, <2>1, <2>2, <2>3 DEF IInv, ThreadInv, db
  <2>6. ClosedInv'
    BY <1>1 DEF IInv, ClosedInv, db
  <2>7. Live' = Live
    BY <1>1, <2>3 DEF Live, InSend, db, net
  <2>8. WindowInv'
    BY <1>1, <2>7, WindowShrinks DEF IInv, db
  <2> QED BY <2>4, <2>5, <2>6, <2>8
<1> QED BY <1>3, <1>4

(* The cleanup finds its own block, and removes exactly that *)
LEMMA InvCleanup ==
    ASSUME IInv, NEW t \in Threads, Cleanup(t)
    PROVE  BlockInv' /\ ListInv' /\ ThreadInv' /\ LoopInv' /\ CallsInv' /\ NetInv'
           /\ AwaitedInv' /\ ClosedInv' /\ WindowInv'
<1> DEFINE r == thread[t].req
           s == thread[t].slot
<1>1. /\ thread[t].at = "cleanup"
      /\ mem' = [mem EXCEPT ![s] = WithEvent(mem[s], "none")]
      /\ pending' = RemoveRequest(pending, mem, seqOf[r])
      /\ ret' = [ret EXCEPT ![r] = "error"]
      /\ thread' = [thread EXCEPT ![t] = Idle]
      /\ UNCHANGED <<open, lastSeqId, loop, calls, net, history>>
  BY DEF Cleanup, Return
<1>2. /\ r \in Requests /\ ret[r] = "insend" /\ calls[r] = <<>>
      /\ s \in pending /\ s \in Slots /\ mem[s].context = r /\ loop.slot # s
  BY <1>1 DEF IInv, TypeOK, Shape, ThreadInv
<1>3. pending' = pending \ {s}
  BY <1>1, <1>2, RemoveOwn DEF IInv, BlockInv
<1>4. ret'[r] = "error" /\ \A x \in Requests : x # r => ret'[x] = ret[x]
  BY <1>1, <1>2 DEF IInv, TypeOK
<1>5. mem'[s].event = "none" /\ \A u \in Slots : u # s => mem'[u] = mem[u]
  BY <1>1, <1>2 DEF IInv, TypeOK, WithEvent
<1>6. \A u \in pending' : u \in pending /\ u \in Slots /\ mem'[u] = mem[u] /\ mem[u].context # r
  BY <1>2, <1>3, <1>5 DEF IInv, TypeOK, ListInv
<1>7. loop.req # r
  BY <1>2 DEF IInv, BlockInv
<1>8. BlockInv' /\ ListInv'
  BY <1>1, <1>3, <1>4, <1>5, <1>6 DEF IInv, TypeOK, BlockInv, ListInv, history
<1>9. ThreadInv' /\ (Live' \subseteq Live \cup peer' \cup replies' \cup {mem'[u].context : u \in pending'})
  <2>1. thread[t].at # "idle"
    BY <1>1
  <2>2. \A u \in pending : u # s => u \in pending' /\ mem'[u].context = mem[u].context
    BY <1>3, <1>6
  <2> HIDE DEF s, r
  <2> QED BY <1>1, <2>1, <2>2, ThreadLeaves DEF s, r
<1>10. LoopInv'
  BY <1>1, <1>2, <1>3, <1>4, <1>7 DEF IInv, Shape, LoopInv
<1>11. CallsInv' /\ NetInv'
  BY <1>1, <1>2, <1>4 DEF IInv, CallsInv, NetInv, net
<1>12. AwaitedInv'
  <2>1. \A u \in pending : mem[u].context # r => u \in pending' /\ mem'[u] = mem[u]
    BY <1>2, <1>3, <1>6
  <2>2. AwaitedInv
    BY DEF IInv
  <2> HIDE DEF r, s
  <2> QED BY <1>1, <1>4, <2>1, <2>2 DEF AwaitedInv
<1>13. ClosedInv'
  BY <1>1, <1>3 DEF IInv, ClosedInv
<1>14. WindowInv'
  BY <1>1, <1>6, <1>9, WindowShrinks DEF IInv, Live, net
<1> QED BY <1>8, <1>9, <1>10, <1>11, <1>12, <1>13, <1>14

(* A timer fires: no thread is sending its request *)
LEMMA InvTimerFires ==
    ASSUME IInv, ~SlowSend, NEW s \in Slots, TimerFires(s)
    PROVE  BlockInv' /\ ListInv' /\ ThreadInv' /\ LoopInv' /\ CallsInv' /\ NetInv'
           /\ AwaitedInv' /\ ClosedInv' /\ WindowInv'
<1>1. /\ open /\ loop.at = "poll" /\ mem[s].event = "armed"
      /\ \A t \in Threads : thread[t].slot # s
      /\ mem' = [mem EXCEPT ![s] = WithEvent(mem[s], "fired")]
      /\ loop' = InTimeout(s)
      /\ UNCHANGED <<open, lastSeqId, pending, thread, ret, calls, net, history>>
  BY DEF TimerFires
<1>2. s \in pending
  BY <1>1 DEF IInv, ListInv
<1>3. loop.slot = NoSlot /\ loop.req = NoReq
  BY <1>1 DEF IInv, Shape, Poll
<1>4. loop'.at = "on_timeout" /\ loop'.slot = s /\ loop'.req = NoReq
  BY <1>1 DEF InTimeout
<1>5. /\ mem'[s].event = "fired"
      /\ \A u \in Slots : /\ mem'[u].context = mem[u].context /\ mem'[u].seqNum = mem[u].seqNum
                          /\ u # s => mem'[u] = mem[u]
  BY <1>1 DEF IInv, TypeOK, WithEvent
<1>6. pending \subseteq Slots
  BY DEF IInv, TypeOK
<1>7. BlockInv'
  <2>1. \A u \in pending : u # s => mem[u].event = "armed"
    BY <1>3, <1>6, ConstantsAssumption DEF IInv, BlockInv
  <2> QED
    BY <1>1, <1>4, <1>5, <1>6, <2>1, ConstantsAssumption DEF IInv, BlockInv, history
<1>8. ListInv'
  BY <1>1, <1>2, <1>5, <1>6 DEF IInv, ListInv
<1>9. ThreadInv'
  BY <1>1, <1>4, <1>5, <1>6 DEF IInv, ThreadInv
<1>10. LoopInv' /\ CallsInv' /\ NetInv' /\ ClosedInv'
  BY <1>1, <1>2, <1>4 DEF IInv, LoopInv, CallsInv, NetInv, ClosedInv, net
<1>11. AwaitedInv'
  <2>1. AwaitedInv
    BY DEF IInv
  <2> QED BY <1>1, <1>3, <1>5, <1>6, <2>1, ConstantsAssumption DEF AwaitedInv
<1>12. Live' = Live
  BY <1>1, <1>5, <1>6 DEF Live, InSend, net
<1>13. WindowInv'
  BY <1>1, <1>12, WindowShrinks DEF IInv
<1> QED BY <1>7, <1>8, <1>9, <1>10, <1>11, <1>13

(* A pending block is taken off the list for its callback: by its time-out  *)
(* or by a reply to its request.  Either way it is the only block with its  *)
(* id, and its request was accepted and not called back.                    *)
LEMMA Dispatched ==
    ASSUME IInv, NEW s \in pending, NEW arg \in {mem[s].context, TIMEOUT},
           ret[mem[s].context] = "ok", open,
           loop.at = "poll" \/ loop.slot = s,
           mem' = [mem EXCEPT ![s] = WithEvent(mem[s], "none")],
           pending' = RemoveRequest(pending, mem, mem[s].seqNum),
           loop' = InCallback(mem[s].context, arg),
           peer' \subseteq peer, replies' \subseteq replies,
           UNCHANGED <<open, lastSeqId, thread, ret, calls, history>>
    PROVE  BlockInv' /\ ListInv' /\ ThreadInv' /\ LoopInv' /\ CallsInv' /\ NetInv'
           /\ AwaitedInv' /\ ClosedInv' /\ WindowInv'
<1> DEFINE r == mem[s].context
<1>1. pending' = pending \ {s}
  BY RemoveOwn
<1>2. pending \subseteq Slots /\ s \in Slots
  BY DEF IInv, TypeOK
<1>3. mem'[s].event = "none" /\ \A u \in Slots : u # s => mem'[u] = mem[u]
  BY <1>2 DEF IInv, TypeOK, WithEvent
<1>4. r \in Requests \ NoTimeout /\ calls[r] = <<>>
  BY DEF IInv, BlockInv
<1>5. \A u \in pending' : u \in pending /\ u \in Slots /\ u # s /\ mem'[u] = mem[u] /\ mem[u].context # r
  BY <1>1, <1>2, <1>3 DEF IInv, ListInv
<1>6. loop'.at = "callback" /\ loop'.slot = NoSlot /\ loop'.req = r /\ loop'.arg = arg
  BY DEF InCallback
<1>7. \A u \in pending' : mem[u].event = "armed"
  <2>1. loop.slot = NoSlot \/ loop.slot = s
    BY DEF IInv, Shape, Poll
  <2>2. \A u \in pending' : loop.slot # u
    BY <1>5, <2>1, ConstantsAssumption
  <2> QED BY <1>5, <2>2 DEF IInv, BlockInv
<1>8. BlockInv'
  BY <1>5, <1>6, <1>7, ConstantsAssumption DEF IInv, BlockInv, history
<1>9. ListInv'
  BY <1>1, <1>2, <1>3, <1>5 DEF IInv, ListInv
<1>10. ThreadInv'
  <2>1. \A t \in Threads : thread[t].slot # s
    BY <1>2, ConstantsAssumption DEF IInv, Shape, ThreadInv, Idle
  <2>2. \A u \in pending : u # s => u \in pending' /\ mem'[u] = mem[u]
    BY <1>1, <1>5
  <2>3. \A t \in Threads : thread[t].at # "idle" /\ thread[t].slot # NoSlot => loop'.slot # thread[t].slot
    BY <1>6
  <2>4. ThreadInv
    BY DEF IInv
  <2> QED BY <2>1, <2>2, <2>3, <2>4 DEF ThreadInv
<1>11. LoopInv' /\ CallsInv' /\ NetInv' /\ ClosedInv'
  BY <1>4, <1>6 DEF IInv, LoopInv, CallsInv, NetInv, ClosedInv
<1>12. AwaitedInv'
  <2>1. \A x \in Requests : loop.req = x => loop.at = "callback"
    BY ConstantsAssumption DEF IInv, TypeOK, Shape, Poll
  <2>2. loop.at # "callback"
    BY <1>2, ConstantsAssumption DEF IInv, Shape
  <2>3. \A u \in pending : mem[u].context # r => u \in pending' /\ mem'[u] = mem[u]
    BY <1>1, <1>2, <1>3
  <2>4. AwaitedInv
    BY DEF IInv
  <2> HIDE DEF r
  <2> QED BY <1>6, <2>1, <2>2, <2>3, <2>4 DEF AwaitedInv
<1>13. Live' \subseteq Live
  BY <1>5 DEF Live, InSend
<1>14. WindowInv'
  BY <1>13, WindowShrinks DEF IInv
<1> QED BY <1>8, <1>9, <1>10, <1>11, <1>12, <1>14

LEMMA InvOnTimeout ==
    ASSUME IInv, OnTimeout
    PROVE  BlockInv' /\ ListInv' /\ ThreadInv' /\ LoopInv' /\ CallsInv' /\ NetInv'
           /\ AwaitedInv' /\ ClosedInv' /\ WindowInv'
<1> DEFINE s == loop.slot
<1>1. /\ loop.at = "on_timeout"
      /\ mem' = [mem EXCEPT ![s] = WithEvent(mem[s], "none")]
      /\ pending' = RemoveRequest(pending, mem, mem[s].seqNum)
      /\ loop' = InCallback(mem[s].context, TIMEOUT)
      /\ UNCHANGED <<open, lastSeqId, thread, ret, calls, net, history>>
  BY DEF OnTimeout
<1>2. s \in pending /\ open
  BY <1>1 DEF IInv, LoopInv, ClosedInv
<1>3. ret[mem[s].context] = "ok"
  <2>1. ret[mem[s].context] \in {"insend", "ok"} /\ mem[s].context \in Requests \ NoTimeout
    BY <1>2 DEF IInv, BlockInv
  <2>2. ASSUME NEW t \in Threads, thread[t].at # "idle", thread[t].req = mem[s].context
        PROVE  FALSE
    <3>1. thread[t].slot \in pending /\ mem[thread[t].slot].context = mem[s].context
          /\ thread[t].slot # s
      BY <2>1, <2>2 DEF IInv, ThreadInv
    <3> QED BY <1>2, <3>1 DEF IInv, ListInv
  <2> QED BY <2>1, <2>2 DEF IInv, ThreadInv
<1>4. peer' \subseteq peer /\ replies' \subseteq replies
  BY <1>1 DEF net
<1> HIDE DEF s
<1>5. TIMEOUT \in {mem[s].context, TIMEOUT} /\ loop.slot = s
  BY DEF s
<1> QED BY <1>1, <1>2, <1>3, <1>4, <1>5, Dispatched

(* A reply finds its own request, or none *)
LEMMA InvHandleReply ==
    ASSUME IInv, NEW x \in Requests, HandleReply(x)
    PROVE  BlockInv' /\ ListInv' /\ ThreadInv' /\ LoopInv' /\ CallsInv' /\ NetInv'
           /\ AwaitedInv' /\ ClosedInv' /\ WindowInv'
<1>1. /\ open /\ loop.at = "poll" /\ x \in replies
      /\ replies' = replies \ {x}
      /\ UNCHANGED <<open, lastSeqId, thread, ret, calls, peer, history>>
  BY DEF HandleReply
<1>2. x \in Live /\ ret[x] = "ok"
  BY <1>1 DEF IInv, NetInv, Live
<1>3. CASE \E s \in pending : mem[s].seqNum = seqOf[x]
  <2>1. PICK s \in pending : mem[s].seqNum = seqOf[x]
    BY <1>3
  <2>2. mem[s].context = x
    <3>1. mem[s].context \in Live /\ mem[s].seqNum = seqOf[mem[s].context]
      BY DEF IInv, BlockInv, Live
    <3> QED BY <1>2, <2>1, <3>1, SameIdSameRequest DEF IInv
  <2>3. FirstWith(pending, mem, seqOf[x]) = s
    BY <2>1, RemoveOwn
  <2>4. /\ mem' = [mem EXCEPT ![s] = WithEvent(mem[s], "none")]
        /\ pending' = RemoveRequest(pending, mem, mem[s].seqNum)
        /\ loop' = InCallback(mem[s].context, x)
    BY <1>3, <2>1, <2>3 DEF HandleReply
  <2>5. x \in {mem[s].context, TIMEOUT} /\ ret[mem[s].context] = "ok"
    BY <1>2, <2>2
  <2>6. peer' \subseteq peer /\ replies' \subseteq replies
    BY <1>1
  <2> QED BY <1>1, <2>4, <2>5, <2>6, Dispatched
<1>4. CASE ~ \E s \in pending : mem[s].seqNum = seqOf[x]
  <2>1. UNCHANGED <<mem, pending, loop>>
    BY <1>4 DEF HandleReply
  <2>2. BlockInv' /\ ListInv' /\ LoopInv' /\ CallsInv' /\ NetInv' /\ AwaitedInv' /\ ClosedInv'
    BY <1>1, <2>1 DEF IInv, BlockInv, ListInv, LoopInv, CallsInv, NetInv, AwaitedInv,
                      ClosedInv, history
  <2>3. ThreadInv'
    BY <1>1, <2>1 DEF IInv, ThreadInv
  <2>4. WindowInv'
    BY <1>1, <2>1, WindowShrinks DEF IInv, Live, InSend
  <2> QED BY <2>2, <2>3, <2>4
<1> QED BY <1>3, <1>4

(* The callback is called: once, and with its own answer *)
LEMMA InvRunCallback ==
    ASSUME IInv, RunCallback
    PROVE  BlockInv' /\ ListInv' /\ ThreadInv' /\ LoopInv' /\ CallsInv' /\ NetInv'
           /\ AwaitedInv' /\ ClosedInv' /\ WindowInv'
<1> DEFINE r == loop.req
<1>1. /\ loop.at = "callback"
      /\ calls' = [calls EXCEPT ![r] = Append(calls[r], loop.arg)]
      /\ loop' = Poll
      /\ UNCHANGED <<db, thread, ret, net, history>>
  BY DEF RunCallback
<1>2. /\ r \in Requests /\ loop.slot = NoSlot /\ ret[r] = "ok"
      /\ calls[r] = <<>> /\ loop.arg \in {r, TIMEOUT}
  BY <1>1 DEF IInv, Shape, LoopInv
<1>3. calls'[r] = <<loop.arg>> /\ \A x \in Requests : x # r => calls'[x] = calls[x]
  BY <1>1, <1>2 DEF IInv, TypeOK
<1>4. loop'.at = "poll" /\ loop'.slot = NoSlot /\ loop'.req = NoReq
  BY <1>1 DEF Poll
<1>5. \A s \in pending : mem[s].context \in Requests /\ mem[s].context # r
                         /\ mem[s].event = "armed" /\ s # NoSlot
  BY <1>2, ConstantsAssumption DEF IInv, TypeOK, BlockInv
<1>6. BlockInv' /\ ListInv'
  BY <1>1, <1>3, <1>4, <1>5, ConstantsAssumption DEF IInv, BlockInv, ListInv, db, history
<1>7. ThreadInv'
  <2>1. \A t \in Threads : thread[t].at # "idle" => thread[t].req \in Requests /\ thread[t].req # r
    BY <1>2 DEF IInv, Shape, ThreadInv
  <2>2. \A t \in Threads : thread[t].at # "idle" /\ thread[t].slot # NoSlot => loop'.slot # thread[t].slot
    BY <1>4
  <2>3. ThreadInv
    BY DEF IInv
  <2> HIDE DEF r
  <2> QED BY <1>1, <1>3, <2>1, <2>2, <2>3 DEF ThreadInv, db
<1>8. LoopInv' /\ NetInv' /\ ClosedInv'
  BY <1>1, <1>4 DEF IInv, LoopInv, NetInv, ClosedInv, db, net
<1>9. CallsInv'
  BY <1>1, <1>2, <1>3 DEF IInv, CallsInv
<1>10. AwaitedInv'
  BY <1>1, <1>2, <1>3 DEF IInv, AwaitedInv, db
<1>11. WindowInv'
  BY <1>1, WindowShrinks DEF IInv, Live, InSend, db, net
<1> QED BY <1>6, <1>7, <1>8, <1>9, <1>10, <1>11

LEMMA InvPeer ==
    ASSUME IInv, NEW x \in Requests, PeerAnswers(x) \/ PeerForgets(x)
    PROVE  BlockInv' /\ ListInv' /\ ThreadInv' /\ LoopInv' /\ CallsInv' /\ NetInv'
           /\ AwaitedInv' /\ ClosedInv' /\ WindowInv'
<1>1. /\ peer' \subseteq peer /\ replies' \subseteq peer \cup replies
      /\ UNCHANGED <<db, thread, loop, ret, calls, history>>
  BY DEF PeerAnswers, PeerForgets
<1>2. BlockInv' /\ ListInv' /\ LoopInv' /\ CallsInv' /\ NetInv' /\ AwaitedInv' /\ ClosedInv'
  BY <1>1 DEF IInv, BlockInv, ListInv, LoopInv, CallsInv, NetInv, AwaitedInv, ClosedInv, db, history
<1>3. ThreadInv'
  BY <1>1 DEF IInv, ThreadInv, db
<1>4. WindowInv'
  BY <1>1, WindowShrinks DEF IInv, Live, InSend, db
<1> QED BY <1>2, <1>3, <1>4

LEMMA InvShutdown ==
    ASSUME IInv, Shutdown
    PROVE  BlockInv' /\ ListInv' /\ ThreadInv' /\ LoopInv' /\ CallsInv' /\ NetInv'
           /\ AwaitedInv' /\ ClosedInv' /\ WindowInv'
<1>1. /\ loop.at = "poll" /\ \A t \in Threads : thread[t].at = "idle"
      /\ mem' = [s \in Slots |-> IF s \in pending THEN WithEvent(mem[s], "none") ELSE mem[s]]
      /\ pending' = {} /\ open' = FALSE
      /\ UNCHANGED <<lastSeqId, thread, loop, ret, calls, net, history>>
  BY DEF Shutdown
<1>2. \A s \in Slots : mem'[s].event = "none"
  BY <1>1 DEF IInv, ListInv, WithEvent
<1>3. BlockInv' /\ ListInv' /\ LoopInv' /\ CallsInv' /\ NetInv' /\ AwaitedInv' /\ ClosedInv'
  BY <1>1, <1>2 DEF IInv, BlockInv, ListInv, LoopInv, CallsInv, NetInv, AwaitedInv, ClosedInv, net
<1>4. ThreadInv'
  BY <1>1 DEF IInv, ThreadInv
<1>5. WindowInv'
  BY <1>1, WindowShrinks DEF IInv, Live, InSend, net
<1> QED BY <1>3, <1>4, <1>5

LEMMA InvStep ==
    ASSUME ~SlowSend, KeepWindow
    PROVE  IInv /\ [Next]_vars => IInv'
<1>0. SUFFICES ASSUME IInv, [Next]_vars PROVE IInv'
  OBVIOUS
<1> DEFINE Rest == BlockInv /\ ListInv /\ ThreadInv /\ LoopInv /\ CallsInv /\ NetInv
                   /\ AwaitedInv /\ ClosedInv /\ WindowInv
<1>1. TypeOK' /\ Shape'
  BY <1>0, TypeStep DEF IInv, TypeInv
<1>2. ASSUME NEW t \in Threads, NEW r \in Requests, SendTooLong(t, r) \/ SendNoMemory(t, r)
      PROVE  Rest'
  BY <1>0, <1>2, InvSendRejected
<1>3. ASSUME NEW t \in Threads, NEW r \in Requests, SendUntracked(t, r) PROVE Rest'
  BY <1>0, <1>3, InvSendUntracked
<1>4. ASSUME NEW t \in Threads, NEW r \in Requests, NEW s \in Slots, SendNoTimer(t, r, s)
      PROVE  Rest'
  BY <1>0, <1>4, InvSendNoTimer
<1>5. ASSUME NEW t \in Threads, NEW r \in Requests, NEW s \in Slots, SendRegister(t, r, s)
      PROVE  Rest'
  BY <1>0, <1>5, InvSendRegister
<1>6. ASSUME NEW t \in Threads, SendmsgOk(t) PROVE Rest'
  BY <1>0, <1>6, InvSendmsgOk
<1>7. ASSUME NEW t \in Threads, SendmsgFails(t) PROVE Rest'
  BY <1>0, <1>7, InvSendmsgFails
<1>8. ASSUME NEW t \in Threads, Cleanup(t) PROVE Rest'
  BY <1>0, <1>8, InvCleanup
<1>9. ASSUME NEW t \in Threads, CleanupBlocks(t) PROVE Rest'
  <2>1. loop.slot # thread[t].slot
    BY <1>0, <1>9 DEF CleanupBlocks, IInv, ThreadInv
  <2> QED BY <1>9, <2>1 DEF CleanupBlocks
<1>10. ASSUME NEW s \in Slots, TimerFires(s) PROVE Rest'
  BY <1>0, <1>10, InvTimerFires
<1>11. ASSUME OnTimeout PROVE Rest'
  BY <1>0, <1>11, InvOnTimeout
<1>12. ASSUME NEW x \in Requests, HandleReply(x) PROVE Rest'
  BY <1>0, <1>12, InvHandleReply
<1>13. ASSUME RunCallback PROVE Rest'
  BY <1>0, <1>13, InvRunCallback
<1>14. ASSUME NEW x \in Requests, PeerAnswers(x) \/ PeerForgets(x) PROVE Rest'
  BY <1>0, <1>14, InvPeer
<1>15. ASSUME Shutdown PROVE Rest'
  BY <1>0, <1>15, InvShutdown
<1>16. ASSUME UNCHANGED vars PROVE Rest'
  <2>1. BlockInv' /\ ListInv' /\ LoopInv' /\ CallsInv' /\ NetInv' /\ AwaitedInv' /\ ClosedInv'
    BY <1>0, <1>16 DEF IInv, BlockInv, ListInv, LoopInv, CallsInv, NetInv, AwaitedInv,
                       ClosedInv, vars, db, net, history
  <2>2. ThreadInv'
    BY <1>0, <1>16 DEF IInv, ThreadInv, vars, db
  <2>3. WindowInv'
    BY <1>0, <1>16, WindowShrinks DEF IInv, Live, InSend, vars, db, net
  <2> QED BY <2>1, <2>2, <2>3
<1>17. Rest'
  <2> HIDE DEF Rest
  <2> QED
    BY <1>0, <1>2, <1>3, <1>4, <1>5, <1>6, <1>7, <1>8, <1>9, <1>10, <1>11, <1>12,
       <1>13, <1>14, <1>15, <1>16 DEF Next, SendStep, Closed
<1> QED BY <1>1, <1>17 DEF IInv

-----------------------------------------------------------------------------
(* The inductive invariant holds when a timer outlasts the sendmsg of its   *)
(* request and sequence ids are not reused while they are remembered.       *)
THEOREM Invariance ==
    ASSUME ~SlowSend, KeepWindow
    PROVE  Spec => []IInv
<1>1. IInv /\ [Next]_vars => IInv'
  BY InvStep
<1> QED BY <1>1, InvInit, PTL DEF Spec

(* A response callback is called at most once, whatever timers and replies  *)
(* race for it, for any number of threads, requests and blocks.             *)
THEOREM CallbackOnce ==
    ASSUME ~SlowSend, KeepWindow
    PROVE  Spec => []CalledAtMostOnce
<1>1. IInv => CalledAtMostOnce
  <2> SUFFICES ASSUME IInv, NEW r \in Requests PROVE Len(calls[r]) <= 1
    BY DEF CalledAtMostOnce
  <2>1. calls[r] = <<>> \/ calls[r] = <<r>> \/ calls[r] = <<TIMEOUT>>
    BY DEF IInv, CallsInv
  <2>2. Len(<<>>) = 0 /\ Len(<<r>>) = 1 /\ Len(<<TIMEOUT>>) = 1
    OBVIOUS
  <2>3. Len(calls[r]) = 0 \/ Len(calls[r]) = 1
    BY <2>1, <2>2, Zenon
  <2>4. 0 <= 1 /\ 1 <= 1
    OBVIOUS
  <2> QED BY <2>3, <2>4, Zenon
<1> QED BY <1>1, Invariance, PTL

(* The answer a callback is given is the answer to its own request: the     *)
(* id a reply carries, reused modulo MaxSeqId, names one live request.      *)
THEOREM AnswersToOwnRequest ==
    ASSUME ~SlowSend, KeepWindow
    PROVE  Spec => []AnswersMatch
<1>1. IInv => AnswersMatch
  <2> SUFFICES ASSUME IInv, NEW r \in Requests, NEW i \in 1..Len(calls[r])
               PROVE  calls[r][i] \in {r, TIMEOUT}
    BY DEF AnswersMatch
  <2>1. calls[r] = <<>> \/ calls[r] = <<r>> \/ calls[r] = <<TIMEOUT>>
    BY DEF IInv, CallsInv
  <2>2. CASE calls[r] = <<>>
    BY <2>2
  <2>3. CASE calls[r] = <<r>>
    BY <2>3
  <2>4. CASE calls[r] = <<TIMEOUT>>
    BY <2>4
  <2> QED BY <2>1, <2>2, <2>3, <2>4
<1> QED BY <1>1, Invariance, PTL

(* A send that returned -1 never leads to a callback *)
THEOREM FailedSendStaysSilent ==
    ASSUME ~SlowSend, KeepWindow
    PROVE  Spec => []FailedSendIsSilent
<1>1. IInv => FailedSendIsSilent
  <2> SUFFICES ASSUME IInv, NEW r \in Requests, ret[r] = "error"
               PROVE  calls[r] = <<>> /\ loop.req # r /\ \A s \in pending : mem[s].context # r
    BY DEF FailedSendIsSilent
  <2>1. calls[r] = <<>> /\ \A s \in pending : mem[s].context # r
    BY DEF IInv, CallsInv, BlockInv
  <2>2. loop.req # r
    BY ConstantsAssumption DEF IInv, TypeOK, Shape, LoopInv, Poll
  <2> QED BY <2>1, <2>2
<1> QED BY <1>1, Invariance, PTL

(* An accepted request is never forgotten while the connection is open: it  *)
(* was called back, is being called back, or has a timer that will.         *)
THEOREM AcceptedRequestKept ==
    ASSUME ~SlowSend, KeepWindow
    PROVE  Spec => []NoRequestLost
<1>1. IInv => NoRequestLost
  <2> SUFFICES ASSUME IInv, NEW r \in Requests \ NoTimeout,
                      open, ret[r] = "ok", calls[r] = <<>>, loop.req # r
               PROVE  Registered(r)
    BY DEF NoRequestLost
  <2>1. PICK s \in pending : mem[s].context = r
    BY DEF IInv, AwaitedInv
  <2>2. \/ mem[s].event = "armed"
        \/ mem[s].event = "fired" /\ loop.slot = s
    BY DEF IInv, BlockInv
  <2>3. loop.slot = s => loop.at = "on_timeout"
    BY ConstantsAssumption DEF IInv, TypeOK, Shape, Poll
  <2> QED BY <2>1, <2>2, <2>3 DEF Registered
<1> QED BY <1>1, Invariance, PTL

(* The cleanup of a failed send works on its own pending request *)
THEOREM CleanupIsOwn ==
    ASSUME ~SlowSend, KeepWindow
    PROVE  Spec => []CleanupOwnsRequest
<1>1. IInv => CleanupOwnsRequest
  BY DEF IInv, ThreadInv, CleanupOwnsRequest
<1> QED BY <1>1, Invariance, PTL

(* Pending requests have distinct sequence ids, across any number of wraps *)
THEOREM PendingIdsStayDistinct ==
    ASSUME ~SlowSend, KeepWindow
    PROVE  Spec => []PendingIdsDistinct
<1>1. IInv => PendingIdsDistinct
  <2> SUFFICES ASSUME IInv, NEW s \in pending, NEW u \in pending,
                      mem[s].seqNum = mem[u].seqNum
               PROVE  s = u
    BY DEF PendingIdsDistinct
  <2> QED BY RemoveOwn
<1> QED BY <1>1, Invariance, PTL

-----------------------------------------------------------------------------
(* The requests the contract is about, and what it sees of them *)
Timed == Requests \ NoTimeout
Seen == [r \in Timed |-> StateOf(r)]

(* A step that changes what the application sees of one request, or of none *)
LEMMA SeenMove ==
    ASSUME NEW r \in Timed, NEW b, StateOf(r)' = b,
           \A x \in Timed : x # r => StateOf(x)' = StateOf(x)
    PROVE  Seen' = [Seen EXCEPT ![r] = b]
BY DEF Seen, Timed

LEMMA SeenSame ==
    ASSUME \A x \in Timed : StateOf(x)' = StateOf(x)
    PROVE  Seen' = Seen
BY DEF Seen, Timed

LEMMA StateOfUnchanged ==
    ASSUME NEW x, ret'[x] = ret[x], calls'[x] = calls[x], open' = open
    PROVE  StateOf(x)' = StateOf(x)
BY DEF StateOf

LEMMA ContractInit == Init => Contract!Init
<1> SUFFICES ASSUME Init PROVE open = TRUE /\ Seen = [r \in Timed |-> "unused"]
  BY DEF Contract!Init, Seen, Timed
<1>1. \A r \in Timed : StateOf(r) = "unused"
  BY DEF Init, StateOf, Timed
<1> QED BY <1>1 DEF Init, Seen

(* One step of the database is one step of the contract, or invisible *)
LEMMA ContractStep ==
    IInv /\ [Next]_vars => [Contract!Next]_(Contract!vars)
<1>0. SUFFICES ASSUME IInv, [Next]_vars
               PROVE  Contract!Next \/ (open' = open /\ Seen' = Seen)
  BY DEF Contract!vars, Seen, Timed
<1>a. /\ TypeOK /\ Shape /\ ThreadInv /\ LoopInv /\ CallsInv /\ ClosedInv
      /\ ret \in [Requests -> {"unused", "insend", "ok", "error"}]
      /\ calls \in [Requests -> Seq(Requests \cup {TIMEOUT})]
      /\ Timed \subseteq Requests
  BY <1>0 DEF IInv, TypeOK, Timed
<1> DEFINE Goal == Contract!Next \/ (open' = open /\ Seen' = Seen)
<1>b. ASSUME NEW r \in Timed, NEW a, NEW b, open, open' = open,
             StateOf(r) = a, StateOf(r)' = b,
             \A x \in Timed : x # r => StateOf(x)' = StateOf(x),
             <<a, b>> \in {<<"unused", "sending">>, <<"unused", "failed">>,
                           <<"sending", "failed">>, <<"sending", "waiting">>,
                           <<"waiting", "answered">>, <<"waiting", "expired">>}
      PROVE  Goal
  <2>1. Seen' = [Seen EXCEPT ![r] = b] /\ Seen[r] = a
    BY <1>b, SeenMove DEF Seen
  <2>2. Contract!Move(r, a, b)
    BY <1>b, <2>1 DEF Contract!Move, Seen, Timed
  <2> QED
    BY <1>b, <2>2 DEF Contract!Next, Contract!Begin, Contract!Reject, Contract!Fail,
                      Contract!Accept, Contract!Answer, Contract!Expire, Timed
<1>c. ASSUME open' = open, \A x \in Timed : StateOf(x)' = StateOf(x)
      PROVE  Goal
  BY <1>c, SeenSame
<1> HIDE DEF Goal
(* Returning v from, or entering, af_ipc_send for r *)
<1>d. ASSUME NEW r \in Requests, NEW v, ret' = [ret EXCEPT ![r] = v],
             UNCHANGED <<open, calls>>, open, calls[r] = <<>>,
             <<ret[r], v>> \in {<<"unused", "insend">>, <<"unused", "error">>,
                                <<"insend", "error">>, <<"insend", "ok">>}
      PROVE  Goal
  <2>1. ret'[r] = v /\ \A x \in Requests : x # r => ret'[x] = ret[x]
    BY <1>a, <1>d
  <2>2. \A x \in Timed : x # r => StateOf(x)' = StateOf(x)
    BY <1>a, <1>d, <2>1, StateOfUnchanged
  <2>3. CASE r \notin Timed
    BY <1>c, <1>d, <2>2, <2>3
  <2>4. CASE r \in Timed
    <3>1. <<StateOf(r), StateOf(r)'>> \in
              {<<"unused", "sending">>, <<"unused", "failed">>,
               <<"sending", "failed">>, <<"sending", "waiting">>}
      BY <1>d, <2>1 DEF StateOf
    <3> QED BY <1>b, <1>d, <2>2, <2>4, <3>1
  <2> QED BY <2>3, <2>4
<1>1. ASSUME NEW t \in Threads, NEW r \in Requests,
             SendTooLong(t, r) \/ SendNoMemory(t, r) \/ SendUntracked(t, r)
             \/ \E s \in Slots : SendNoTimer(t, r, s) \/ SendRegister(t, r, s)
      PROVE  Goal
  <2>1. open /\ ret[r] = "unused" /\ UNCHANGED <<open, calls>>
    BY <1>1 DEF SendTooLong, SendNoMemory, SendUntracked, SendNoTimer, SendRegister, Call, db
  <2>2. ret' = [ret EXCEPT ![r] = "error"] \/ ret' = [ret EXCEPT ![r] = "insend"]
    BY <1>1 DEF SendTooLong, SendNoMemory, SendUntracked, SendNoTimer, SendRegister, Return
  <2>3. calls[r] = <<>>
    BY <1>a, <2>1 DEF CallsInv
  <2> QED BY <1>d, <2>1, <2>2, <2>3
<1>2. ASSUME NEW t \in Threads, SendStep(t)
      PROVE  Goal
  <2> DEFINE r == thread[t].req
  <2>1. thread[t].at # "idle" /\ UNCHANGED <<open, calls>>
    BY <1>2 DEF SendStep, SendmsgOk, SendmsgFails, Cleanup, CleanupBlocks, db
  <2>2. r \in Requests /\ ret[r] = "insend" /\ calls[r] = <<>> /\ open
    BY <1>a, <2>1 DEF Shape, ThreadInv, ClosedInv
  <2>3. \/ ret' = [ret EXCEPT ![r] = "ok"]
        \/ ret' = [ret EXCEPT ![r] = "error"]
        \/ ret' = ret
    BY <1>2 DEF SendStep, SendmsgOk, SendmsgFails, Cleanup, CleanupBlocks, Return
  <2>4. CASE ret' = ret
    BY <1>c, <2>1, <2>4, StateOfUnchanged
  <2> HIDE DEF r
  <2> QED BY <1>d, <2>1, <2>2, <2>3, <2>4
<1>3. ASSUME OnTimeout \/ (\E s \in Slots : TimerFires(s))
             \/ (\E x \in Requests : HandleReply(x) \/ PeerAnswers(x) \/ PeerForgets(x))
             \/ UNCHANGED vars
      PROVE  Goal
  <2>1. UNCHANGED <<open, calls, ret>>
    BY <1>3 DEF OnTimeout, TimerFires, HandleReply, PeerAnswers, PeerForgets, vars, db
  <2> QED BY <1>c, <2>1, StateOfUnchanged
<1>4. ASSUME RunCallback
      PROVE  Goal
  <2>0. PICK r \in Requests : r = loop.req
    BY <1>a, <1>4 DEF RunCallback, Shape
  <2>1. /\ loop.at = "callback"
        /\ calls' = [calls EXCEPT ![r] = Append(calls[r], loop.arg)]
        /\ UNCHANGED <<open, ret>>
    BY <1>4, <2>0 DEF RunCallback, db
  <2>2. /\ r \in Requests /\ ret[r] = "ok" /\ calls[r] = <<>> /\ open
        /\ loop.arg \in {r, TIMEOUT}
    BY <1>a, <2>0, <2>1 DEF LoopInv, ClosedInv
  <2>3. calls'[r] = <<loop.arg>> /\ \A x \in Requests : x # r => calls'[x] = calls[x]
    BY <1>a, <2>1, <2>2
  <2>4. \A x \in Timed : x # r => StateOf(x)' = StateOf(x)
    BY <1>a, <2>1, <2>3, StateOfUnchanged
  <2>5. CASE r \notin Timed
    BY <1>c, <2>1, <2>4, <2>5
  <2>6. CASE r \in Timed
    <3>1. StateOf(r) = "waiting"
      BY <2>2 DEF StateOf
    <3>2. calls'[r] # <<>>
      BY <2>3
    <3>3. ret'[r] = "ok"
      BY <2>1, <2>2
    <3>4. StateOf(r)' = "answered" \/ StateOf(r)' = "expired"
      BY <3>2, <3>3 DEF StateOf
    <3>5. open' = open /\ open
      BY <2>1, <2>2
    <3>6. CASE StateOf(r)' = "answered"
      BY <1>b, <2>4, <2>6, <3>1, <3>5, <3>6
    <3>7. CASE StateOf(r)' = "expired"
      BY <1>b, <2>4, <2>6, <3>1, <3>5, <3>7
    <3> QED BY <3>4, <3>6, <3>7
  <2> QED BY <2>5, <2>6
<1>5. ASSUME Shutdown
      PROVE  Goal
  <2>1. open /\ open' = FALSE /\ UNCHANGED <<ret, calls>>
    BY <1>5 DEF Shutdown
  <2>2. \A r \in Timed : ret[r] # "insend"
    BY <1>a, <1>5 DEF Shutdown, ThreadInv
  <2>3. \A r \in Timed : StateOf(r) # "sending"
    BY <1>a, <2>2 DEF StateOf
  <2>4. \A r \in Timed :
            StateOf(r)' = IF StateOf(r) = "waiting" THEN "dropped" ELSE StateOf(r)
    BY <1>a, <2>1, <2>2 DEF StateOf
  <2>5. Contract!Close
    BY <2>1, <2>3, <2>4 DEF Contract!Close, Seen, Timed
  <2> QED BY <2>5 DEF Contract!Next, Goal
<1> QED
  BY <1>0, <1>1, <1>2, <1>3, <1>4, <1>5 DEF Next, Closed, Goal

(* The database implements the request contract: each request with a        *)
(* timeout fails at once, or is called back once, or is dropped by a        *)
(* shutdown, and nothing else is ever seen of it.                           *)
THEOREM KeepsContract ==
    ASSUME ~SlowSend, KeepWindow
    PROVE  Spec => Contract!Spec
<1>1. Spec => []IInv
  BY Invariance
<1> QED BY <1>1, ContractInit, ContractStep, PTL DEF Spec, Contract!Spec

=============================================================================

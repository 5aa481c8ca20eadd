------------------------------ MODULE IpcSeqNum ------------------------------
(***************************************************************************)
(* The 32-bit sequence number (af_ipc_prv.h): the client's id in the upper  *)
(* half; in the lower half the NEW bit and the 15-bit id of a request.      *)
(*                                                                         *)
(* A request travels with the NEW bit and without a client's id.  What the  *)
(* receiver's application gets is the number without the NEW bit and, on    *)
(* the server, with the client's id; it answers with that number.           *)
(***************************************************************************)
EXTENDS Integers

RequestIds == 1..32767
SeqNums == Nat    \* uint32_t: numbers below 2^32

AF_IPC_GET_CLIENT_ID(n) == n \div 65536

AF_IPC_GET_SEQ_ID(n) == n % 65536

IsNewRequest(n) == (n \div 32768) % 2 = 1

(* seqNum | AF_IPC_SEQNUM_NEW_REQUEST_MASK, for an id of 15 bits *)
NewRequest(id) == id + 32768

(* seqNum & ~AF_IPC_SEQNUM_NEW_REQUEST_MASK *)
ClearNew(n) == IF IsNewRequest(n) THEN n - 32768 ELSE n

(* Mutant: the client's id is not put in *)
ToApplicationAnonymous(clientId, n) == ClearNew(AF_IPC_GET_SEQ_ID(n))

(* The number the receive callback gets for a header that states n; a       *)
(* client passes clientId 0.                                                *)
ToApplication(clientId, n) == ClearNew(AF_IPC_GET_SEQ_ID(n) + clientId * 65536)

(* A message that states n is a command: unsolicited, or a new request.     *)
(* The others are answers.                                                  *)
IsCommand(n) == AF_IPC_GET_SEQ_ID(n) = 0 \/ IsNewRequest(AF_IPC_GET_SEQ_ID(n))

=============================================================================

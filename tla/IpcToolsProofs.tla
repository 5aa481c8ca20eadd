---------------------------- MODULE IpcToolsProofs ----------------------------
(***************************************************************************)
(* Proofs about IpcTools, for every command line, every message and any    *)
(* number of them: the session pointer, what is released at the end, what  *)
(* the exit status says, what is asked of the server and what is printed.  *)
(***************************************************************************)
EXTENDS IpcTools, NatLemmas, SequenceTheorems

Message == [answer : BOOLEAN, body : Answers \cup Messages]

(* outBuffer holds the body of the message that was heard last; only an    *)
(* answer to a request that was sent is heard by ipc_send.                 *)
HeardInv ==
    /\ inbox \in Seq(Message)
    /\ asked \in BOOLEAN
    /\ "request" \in timers => asked
    /\ \/ heard = Nothing /\ outBuffer = Nothing
       \/ heard \in Message /\ outBuffer = heard.body
    /\ heard # Nothing /\ tool = "ipc_send" => heard.answer /\ asked
    /\ pc \in {"options", "base", "open"} => heard = Nothing
    /\ pc # "done" => retVal = 1

-----------------------------------------------------------------------------
LEMMA HeardInvInit == Init => HeardInv
<1> SUFFICES ASSUME Init PROVE HeardInv
  OBVIOUS
<1>1. inbox \in Seq(Message)
  BY DEF Init
<1>2. asked \in BOOLEAN
  BY Zenon DEF Init
<1>3. timers = {} /\ heard = Nothing /\ outBuffer = Nothing /\ retVal = 1
  BY DEF Init
<1> QED BY <1>1, <1>2, <1>3 DEF HeardInv

(* What main did before the loop, with no session and nothing heard *)
LEMMA EarlySteps ==
    ASSUME HeardInv, ParseOption \/ OptionsDone \/ Usage \/ NewBase \/ OpenFails \/ Open
    PROVE  HeardInv'
<1>1. /\ pc \in {"options", "base", "open"} /\ pc' \in {"options", "base", "open", "loop", "done"}
      /\ UNCHANGED <<tool, inbox, asked, outBuffer, heard, retVal>>
      /\ "request" \in timers' => "request" \in timers
  <2>1. CASE ParseOption
    BY <2>1 DEF ParseOption, GiveUp, server, result
  <2>2. CASE OptionsDone \/ Usage \/ NewBase \/ OpenFails
    BY <2>2 DEF OptionsDone, Usage, NewBase, OpenFails, GiveUp, main, server, result
  <2>3. CASE Open
    BY <2>3 DEF Open, Events, main, server, result
  <2> QED BY <2>1, <2>2, <2>3
<1> QED BY <1>1 DEF HeardInv

LEMMA HeardInvNext == HeardInv /\ [Next]_vars => HeardInv'
<1> SUFFICES ASSUME HeardInv, [Next]_vars PROVE HeardInv'
  OBVIOUS
<1>1. CASE ParseOption \/ OptionsDone \/ Usage \/ NewBase \/ OpenFails \/ Open
  BY <1>1, EarlySteps
<1>2. CASE Wrapper
  <2>1. /\ pc = "loop" /\ pc' \in {"loop", "killed"}
        /\ UNCHANGED <<tool, inbox, outBuffer, heard, retVal>>
        /\ \/ asked' = TRUE
           \/ asked' = asked /\ ("request" \in timers' => "request" \in timers)
    BY <1>2 DEF Wrapper, main, server, result
  <2>2. CASE asked' = TRUE
    BY <2>1, <2>2 DEF HeardInv
  <2>3. CASE asked' = asked /\ ("request" \in timers' => "request" \in timers)
    BY <2>1, <2>3 DEF HeardInv
  <2> QED BY <2>1, <2>2, <2>3
<1>3. CASE OnAnswer \/ OnMessage
  <2>1. /\ pc = "loop" /\ pc' = pc /\ inbox # <<>> /\ inbox' = Tail(inbox)
        /\ UNCHANGED <<tool, asked, retVal>>
        /\ heard' = Head(inbox) /\ outBuffer' = Head(inbox).body
        /\ "request" \in timers' => "request" \in timers
        /\ tool = "ipc_send" => Head(inbox).answer /\ "request" \in timers
    BY <1>3 DEF OnAnswer, OnMessage, Reads, Receive, main, result
  <2>2. Head(inbox) \in Message /\ Tail(inbox) \in Seq(Message)
    BY <2>1 DEF HeardInv
  <2> QED BY <2>1, <2>2 DEF HeardInv
<1>4. CASE OnOther
  <2>1. /\ pc = "loop" /\ pc' = pc /\ inbox # <<>> /\ inbox' = Tail(inbox)
        /\ UNCHANGED <<tool, asked, retVal, outBuffer, heard, timers>>
    BY <1>4 DEF OnOther, Reads, main, result
  <2>2. Tail(inbox) \in Seq(Message)
    BY <2>1 DEF HeardInv
  <2> QED BY <2>1, <2>2 DEF HeardInv
<1>5. CASE OnEnd \/ RequestTimesOut \/ GuardFires \/ LeaveLoop \/ Finish \/ ServerLeaves
  <2>1. /\ UNCHANGED <<tool, inbox, asked, outBuffer, heard>>
        /\ "request" \in timers' => "request" \in timers
        /\ \/ pc' = "done"
           \/ pc' \in {pc, "end"} /\ retVal' = retVal /\ (pc = "done" => pc' = "done")
    BY <1>5 DEF OnEnd, OnClose, RequestTimesOut, GuardFires, LeaveLoop, Finish, ServerLeaves,
                main, server, result
  <2> QED BY <2>1 DEF HeardInv
<1>6. CASE ServerSends
  <2>1. PICK body \in Answers \cup Messages, answer \in {FALSE, asked} :
          inbox' = Append(inbox, [answer |-> answer, body |-> body])
    BY <1>6 DEF ServerSends
  <2>2. [answer |-> answer, body |-> body] \in Message
    BY DEF HeardInv, Message
  <2>3. inbox' \in Seq(Message)
    BY <2>1, <2>2 DEF HeardInv
  <2>4. UNCHANGED <<tool, pc, asked, outBuffer, heard, timers, retVal>>
    BY <1>6 DEF ServerSends, main, result
  <2> QED BY <2>3, <2>4 DEF HeardInv
<1>7. CASE UNCHANGED vars
  BY <1>7 DEF vars, HeardInv, main, server, result
<1> QED BY <1>1, <1>2, <1>3, <1>4, <1>5, <1>6, <1>7 DEF Next, ToolStep, Ended

(* The end of main reads what was heard: the status is 0 just for a        *)
(* message that can be parsed and printed.                                 *)
LEMMA StatusNext ==
    HeardInv /\ StatusTellsAnswer /\ [Next]_vars => StatusTellsAnswer'
<1> SUFFICES ASSUME HeardInv, StatusTellsAnswer, [Next]_vars, pc' = "done"
             PROVE  StatusTellsAnswer'
  BY DEF StatusTellsAnswer
<1>1. CASE Finish
  <2>1. /\ UNCHANGED <<tool, asked, outBuffer, heard>> /\ pc = "end"
        /\ retVal' = IF Succeeds THEN 0 ELSE retVal
    BY <1>1 DEF Finish, main, result
  <2>2. retVal = 1
    BY <2>1 DEF HeardInv
  <2>3. retVal' = 0 <=> Succeeds
    BY <2>1, <2>2
  <2>4. heard # Nothing => outBuffer = heard.body /\ outBuffer # Nothing
    BY ToolConstants DEF HeardInv, Message
  <2>5. Succeeds <=> /\ heard # Nothing /\ heard.body # Garbled
                     /\ Printing(Parsed(heard.body)).state # "failed"
    <3>1. CASE heard = Nothing
      BY <3>1, ToolConstants DEF Succeeds, HeardInv, Message
    <3>2. CASE heard # Nothing
      BY <2>4, <3>2 DEF Succeeds
    <3> QED BY <3>1, <3>2
  <2>6. heard # Nothing /\ tool = "ipc_send" => heard.answer /\ asked
    BY DEF HeardInv
  <2> QED BY <2>1, <2>3, <2>5, <2>6 DEF StatusTellsAnswer, Parsed
<1>2. CASE pc = "done"
  <2>1. UNCHANGED <<tool, asked, heard, retVal, pc>>
    BY <1>2 DEF Next, ToolStep, Ended, ParseOption, OptionsDone, Usage, NewBase, OpenFails, Open,
                Wrapper, OnAnswer, OnMessage, OnOther, Reads, OnEnd, RequestTimesOut, GuardFires,
                LeaveLoop, Finish, ServerSends, ServerLeaves, vars, main, result
  <2> QED BY <1>2, <2>1 DEF StatusTellsAnswer, Parsed
<1>3. CASE pc \in {"options", "base", "open"} /\ ~Finish
  <2>1. UNCHANGED <<heard, retVal>>
    BY <1>3 DEF Next, ToolStep, Ended, ParseOption, OptionsDone, Usage, NewBase, OpenFails, Open,
                Wrapper, OnAnswer, OnMessage, OnOther, Reads, OnEnd, RequestTimesOut, GuardFires,
                LeaveLoop, ServerSends, ServerLeaves, vars, result
  <2>2. heard = Nothing /\ retVal = 1
    BY <1>3 DEF HeardInv
  <2> QED BY <2>1, <2>2 DEF StatusTellsAnswer
<1>4. Finish \/ pc \in {"done", "options", "base", "open"}
  BY DEF Next, ToolStep, Ended, ParseOption, OptionsDone, Usage, NewBase, OpenFails, Open,
         Wrapper, OnAnswer, OnMessage, OnOther, Reads, OnEnd, RequestTimesOut, GuardFires,
         LeaveLoop, ServerSends, ServerLeaves, vars
<1> QED BY <1>1, <1>2, <1>3, <1>4

(* The exit status tells of the message that was heard last, whatever      *)
(* timers fire or connections end after it; ipc_send succeeds only with    *)
(* the answer to its own request.                                          *)
THEOREM StatusIsTrue == Spec => []StatusTellsAnswer
<1>1. Init => StatusTellsAnswer
  BY DEF Init, StatusTellsAnswer
<1> QED BY <1>1, HeardInvInit, HeardInvNext, StatusNext, PTL DEF Spec

-----------------------------------------------------------------------------
(* What param_parser puts into in_params *)
Parameter == [type : {"int", "uint", "string", "blob"}, size : Int, value : Int]

(* The options before next were read, in order: each became a parameter at *)
(* its place.  They are all read before a session is opened, and the       *)
(* request is sent after that.                                             *)
ArgsInv ==
    /\ given \in Seq(Option)
    /\ next \in 1 .. Len(given) + 1
    /\ pc \in {"base", "open", "loop"} \/ asked => next = Len(given) + 1
    /\ asked => pc \notin {"options", "base", "open"}
    /\ pc \in {"options", "base", "open", "loop"} \/ asked =>
          /\ params \in Seq(Parameter)
          /\ Len(params) = Place(next - 1)
          /\ \A k \in 1 .. next - 1 :
                given[k].letter # "d" =>
                    /\ Place(k) \in DOMAIN params
                    /\ Format(given[k]) # Error /\ params[Place(k)] = Format(given[k])

(* One option more has one place more, unless it is -d *)
LEMMA PlaceStep ==
    ASSUME given \in Seq(Option), NEW k \in 1 .. Len(given)
    PROVE  /\ Place(k - 1) \in Nat
           /\ Place(k) = Place(k - 1) + (IF given[k].letter = "d" THEN 0 ELSE 1)
<1> DEFINE before == {j \in 1 .. k - 1 : given[j].letter # "d"}
           upto == {j \in 1 .. k : given[j].letter # "d"}
<1>1. IsFiniteSet(1 .. k - 1)
  BY FS_Interval
<1>2. IsFiniteSet(before) /\ Cardinality(before) \in Nat
  <2>1. before \in SUBSET (1 .. k - 1)
    OBVIOUS
  <2>2. IsFiniteSet(before)
    BY <1>1, <2>1, FS_Subset
  <2> QED BY <2>2, FS_CardinalityType
<1>3. /\ given[k].letter = "d" => upto = before
      /\ given[k].letter # "d" => upto = before \cup {k}
  OBVIOUS
<1>4. k \notin before
  OBVIOUS
<1>5. Place(k - 1) = Cardinality(before) /\ Place(k) = Cardinality(upto)
  BY Zenon DEF Place
<1> HIDE DEF before, upto
<1>6. Cardinality(before \cup {k}) = Cardinality(before) + 1
  BY <1>2, <1>4, FS_AddElement
<1>7. CASE given[k].letter = "d"
  BY <1>2, <1>3, <1>5, <1>7
<1>8. CASE given[k].letter # "d"
  BY <1>2, <1>3, <1>5, <1>6, <1>8
<1> QED BY <1>7, <1>8

(* No option has no place *)
LEMMA PlaceZero == Place(0) = 0
<1>1. {j \in 1 .. 0 : given[j].letter # "d"} = {}
  OBVIOUS
<1> QED BY <1>1, FS_EmptySet DEF Place

(* The size of a string or a blob, cut to the bits it has in a type word *)
LEMMA BytesKept ==
    ASSUME NEW o \in Option
    PROVE  /\ Bytes(o) \in Nat /\ Bytes(o) % 2^SizeBits \in Nat
           /\ Bytes(o) < 2^SizeBits => Bytes(o) % 2^SizeBits = Bytes(o)
<1> DEFINE whole == 2^SizeBits
           b == Bytes(o)
<1>1. o.text.length \in Nat
  BY DEF Option, Text
<1>2. b \in Nat
  BY <1>1 DEF Bytes
<1>3. whole \in Nat \ {0}
  BY WidthAssumption, TwiceThePower
<1> HIDE DEF whole, b
<1>4. b % whole \in Nat /\ (b < whole => b % whole = b)
  BY <1>2, <1>3
<1> QED BY <1>2, <1>4 DEF whole, b

(* What Format makes of an option: a parameter of the type of its letter *)
LEMMA FormatType ==
    ASSUME NEW o \in Option, Format(o) # Error
    PROVE  Format(o) \in Parameter
<1> USE DEF Parameter
<1>1. /\ o.letter \in {"d", "u", "i", "s", "h", "?"} /\ o.size \in Nat
      /\ o.text.value \in Nat /\ o.text.length \in Nat /\ o.text.minus \in BOOLEAN
  BY DEF Option, Text
<1>2. 2^IntBits \in Nat \ {0}
  BY WidthAssumption, TwiceThePower
<1>3. Stated(o.text) \in Int
  BY <1>1 DEF Stated
<1>4. \A v \in Int : ToUint32(v) \in Int /\ ToInt32(v) \in Int
  <2> SUFFICES ASSUME NEW v \in Int PROVE ToUint32(v) \in Int /\ ToInt32(v) \in Int
    OBVIOUS
  <2>1. v % 2^IntBits \in Int
    BY <1>2
  <2> QED BY <1>2, <2>1 DEF ToUint32, ToInt32
<1>10. \A v \in Nat : /\ Allocated("string", Bytes(o), v) \in Parameter
                     /\ Allocated("blob", Bytes(o), v) \in Parameter
  BY BytesKept DEF Allocated
<1>5. CASE o.letter = "u"
  <2>1. Format(o) = FormatUint(o.size, o.text)
    BY <1>5 DEF Format
  <2>2. Format(o) = [type |-> "uint", size |-> o.size, value |-> ToUint32(o.text.value)]
    BY <2>1 DEF FormatUint
  <2> QED BY <1>1, <1>4, <2>2
<1>6. CASE o.letter = "i"
  <2>1. Format(o) = FormatInt(o.size, o.text)
    BY <1>6 DEF Format
  <2>2. Format(o) = [type |-> "int", size |-> o.size, value |-> ToInt32(Stated(o.text))]
    BY <2>1 DEF FormatInt
  <2> QED BY <1>1, <1>3, <1>4, <2>2
<1>7. CASE o.letter = "s"
  <2>1. Format(o) = Allocated("string", Bytes(o), o.text.value)
    BY <1>7 DEF Format, FormatString, Bytes
  <2> QED BY <1>1, <1>10, <2>1, Zenon
<1>8. CASE o.letter = "h"
  <2>1. Format(o) = Allocated("blob", Bytes(o), o.text.value)
    BY <1>8 DEF Format, FormatHex, Bytes
  <2> QED BY <1>1, <1>10, <2>1, Zenon
<1>9. CASE o.letter \in {"d", "?"}
  <2>1. Format(o) = Error
    BY <1>9 DEF Format
  <2> QED BY <2>1
<1> QED BY <1>1, <1>5, <1>6, <1>7, <1>8, <1>9

(* A string or a blob that is accepted has the size it is stated with *)
LEMMA FormatSize ==
    ASSUME NEW o \in Option, Format(o) # Error, o.letter \notin {"u", "i"}, InWord(o)
    PROVE  AsStated(Format(o), o)
<1>1. o.letter \in {"s", "h"}
  BY DEF Option, Format
<1>2. PICK type \in {"string", "blob"} : Format(o) = Allocated(type, Bytes(o), o.text.value)
  <2>1. CASE o.letter = "s"
    BY <2>1 DEF Format, FormatString, Bytes
  <2>2. CASE o.letter = "h"
    BY <2>2 DEF Format, FormatHex, Bytes
  <2> QED BY <1>1, <2>1, <2>2
<1>3. Bytes(o) < 2^SizeBits
  BY <1>1 DEF InWord
<1>4. Format(o).type = type /\ Format(o).size = Bytes(o)
  <2> DEFINE cut == Bytes(o) % 2^SizeBits
  <2>2. Format(o) = [type |-> type, size |-> cut, value |-> o.text.value]
    BY <1>2, Zenon DEF Allocated
  <2> HIDE DEF cut
  <2>3. Format(o).type = type /\ Format(o).size = cut
    BY <2>2
  <2>1. Format(o).type = type /\ Format(o).size = Bytes(o) % 2^SizeBits
    BY <2>3 DEF cut
  <2> QED BY <1>3, <2>1, BytesKept
<1> QED BY <1>1, <1>4 DEF AsStated, IsAllocated

(* A number that format_uint_param or format_int_param accepts is in the   *)
(* range of its type, and kept                                             *)
LEMMA FormatStates ==
    ASSUME NEW o \in Option, Format(o) # Error, o.letter \in {"u", "i"}, InWord(o)
    PROVE  InRange(o) /\ Format(o).size = o.size /\ Format(o).value = Stated(o.text)
<1>1. /\ o.size \in Nat /\ o.text.value \in Nat /\ o.text.minus \in BOOLEAN /\ o.text.digits \in BOOLEAN
  BY DEF Option, Text
<1> DEFINE half == 2^(IntBits - 1)
           whole == 2^IntBits
<1>2. half \in Nat \ {0} /\ whole = 2 * half
  <2>1. IntBits \in Nat /\ IntBits - 1 \in Nat /\ (IntBits - 1) + 1 = IntBits
    BY WidthAssumption
  <2> QED BY <2>1, TwiceThePower
<1>3. CASE o.letter = "u"
  <2>1. Format(o) = FormatUint(o.size, o.text)
    BY <1>3 DEF Format
  <2>2. /\ ~o.text.minus /\ o.text.digits /\ o.size \in {8, 16, 32}
        /\ ~(ToUint32(o.text.value) > 2^Bits(o.size) - 1)
        /\ Format(o) = [type |-> "uint", size |-> o.size, value |-> ToUint32(o.text.value)]
    BY <1>1, <2>1 DEF FormatUint
  <2>3. Stated(o.text) = o.text.value
    BY <2>2 DEF Stated
  <2>4. o.text.value \in 0 .. whole - 1
    BY <1>3, <2>3 DEF InWord
  <2>5. ToUint32(o.text.value) = o.text.value
    <3> HIDE DEF half, whole
    <3>1. o.text.value % whole = o.text.value
      BY <1>1, <1>2, <2>4
    <3> QED BY <3>1 DEF ToUint32, whole
  <2>6. 2^Bits(o.size) \in Nat
    BY <2>2, TwiceThePower, WidthAssumption DEF Bits
  <2>7. InRange(o)
    BY <1>1, <1>3, <2>2, <2>5, <2>6 DEF InRange
  <2> QED BY <2>2, <2>3, <2>5, <2>7
<1>4. CASE o.letter = "i"
  <2>1. Format(o) = FormatInt(o.size, o.text)
    BY <1>4 DEF Format
  <2> DEFINE v == Stated(o.text)
  <2>2. /\ o.text.digits /\ o.size \in {8, 16, 32}
        /\ ~(ToInt32(v) < -(2^(Bits(o.size) - 1))) /\ ~(ToInt32(v) > 2^(Bits(o.size) - 1) - 1)
        /\ Format(o) = [type |-> "int", size |-> o.size, value |-> ToInt32(v)]
    BY <1>1, <2>1 DEF FormatInt
  <2>3. v \in Int
    BY <1>1 DEF Stated
  <2>4. v \in -half .. half - 1
    BY <1>4 DEF InWord
  <2>5. ToInt32(v) = v
    <3> HIDE DEF half, whole, v
    <3>1. v % whole = IF v < 0 THEN v + whole ELSE v
      BY <1>2, <2>3, <2>4
    <3>2. ToInt32(v) = LET u == v % whole IN IF u >= half THEN u - whole ELSE u
      BY DEF ToInt32, ToUint32, half, whole
    <3> QED BY <1>2, <2>3, <2>4, <3>1, <3>2
  <2>6. 2^(Bits(o.size) - 1) \in Nat
    <3>1. Bits(o.size) - 1 \in Nat
      BY <2>2, WidthAssumption DEF Bits
    <3> QED BY <3>1, TwiceThePower
  <2>7. InRange(o)
    BY <1>1, <1>4, <2>2, <2>3, <2>5, <2>6 DEF InRange
  <2> QED BY <2>2, <2>5, <2>7
<1> QED BY <1>3, <1>4

LEMMA ArgsInvInit == Init => ArgsInv
<1> SUFFICES ASSUME Init PROVE ArgsInv
  OBVIOUS
<1>1. given \in Seq(Option)
  <2>1. CASE tool = "ipc_send"
    BY <2>1, ToolConstants DEF Init
  <2>2. CASE tool # "ipc_send"
    BY <2>2 DEF Init
  <2> QED BY <2>1, <2>2
<1>2. next = 1 /\ params = <<>> /\ pc = "options" /\ asked = FALSE
  BY DEF Init
<1>3. Place(next - 1) = 0
  BY <1>2, PlaceZero
<1> QED BY <1>1, <1>2, <1>3 DEF ArgsInv

(* What is behind the options only keeps what they made *)
LEMMA ArgsKept ==
    ASSUME ArgsInv, UNCHANGED main,
           pc' \in {"base", "open", "loop"} => next = Len(given) + 1,
           asked' => next = Len(given) + 1 /\ pc' \notin {"options", "base", "open"},
           pc' \in {"options", "base", "open", "loop"} \/ asked' => pc \in {"options", "base", "open", "loop"} \/ asked
    PROVE  ArgsInv'
BY DEF ArgsInv, main, Place

LEMMA ArgsParse == ASSUME ArgsInv, ParseOption PROVE ArgsInv'
<1> DEFINE o == given[next]
<1>1. /\ given \in Seq(Option) /\ next \in 1 .. Len(given) /\ pc = "options" /\ ~asked
      /\ next' = next + 1 /\ UNCHANGED <<given, asked>>
      /\ params \in Seq(Parameter) /\ Len(params) = Place(next - 1)
      /\ \A k \in 1 .. next - 1 :
            given[k].letter # "d" =>
                /\ Place(k) \in DOMAIN params
                /\ Format(given[k]) # Error /\ params[Place(k)] = Format(given[k])
  BY DEF ArgsInv, ParseOption
<1>2. \A k : Place(k)' = Place(k)
  BY <1>1 DEF Place
<1>3. o \in Option
  BY <1>1
<1>4. Place(next) = Place(next - 1) + (IF o.letter = "d" THEN 0 ELSE 1)
  BY <1>1, PlaceStep
<1>5. next' \in 1 .. Len(given) + 1 /\ next' - 1 = next /\ 1 .. next = (1 .. next - 1) \cup {next}
  BY <1>1
<1>6. CASE pc' = "done"
  BY <1>1, <1>5, <1>6 DEF ArgsInv
<1>7. CASE o.letter = "d" /\ UNCHANGED <<params, pc>>
  <2>1. \A k \in 1 .. next :
            given[k].letter # "d" =>
                /\ Place(k) \in DOMAIN params
                /\ Format(given[k]) # Error /\ params[Place(k)] = Format(given[k])
    BY <1>1, <1>5, <1>7
  <2> QED BY <1>1, <1>2, <1>4, <1>5, <1>7, <2>1 DEF ArgsInv
<1>8. CASE o.letter # "d" /\ Format(o) # Error /\ params' = Append(params, Format(o)) /\ pc' = pc
  <2>1. Format(o) \in Parameter
    BY <1>3, <1>8, FormatType
  <2>2. /\ params' \in Seq(Parameter) /\ Len(params') = Place(next)
        /\ DOMAIN params' = DOMAIN params \cup {Place(next)}
        /\ \A i \in DOMAIN params : params'[i] = params[i]
        /\ params'[Place(next)] = Format(o)
    <3> DEFINE p == Format(o)
    <3>1. Len(params) \in Nat /\ DOMAIN params = 1 .. Len(params) /\ Place(next) = Len(params) + 1
      BY <1>1, <1>4, <1>8
    <3> HIDE DEF o, p
    <3>2. p \in Parameter /\ params' = Append(params, p) /\ params \in Seq(Parameter)
      BY <1>1, <1>8, <2>1 DEF p
    <3>3. /\ params' \in Seq(Parameter) /\ Len(params') = Len(params) + 1
          /\ DOMAIN params' = 1 .. Len(params) + 1
          /\ \A i \in DOMAIN params : params'[i] = params[i]
          /\ params'[Len(params) + 1] = p
      BY <3>2
    <3>4. 1 .. Len(params) + 1 = (1 .. Len(params)) \cup {Len(params) + 1}
      BY <3>1
    <3> QED BY <3>1, <3>3, <3>4 DEF p
  <2>3. ASSUME NEW k \in 1 .. next, given[k].letter # "d"
        PROVE  /\ Place(k) \in DOMAIN params'
               /\ Format(given[k]) # Error /\ params'[Place(k)] = Format(given[k])
    <3>1. CASE k = next
      BY <1>8, <2>2, <3>1
    <3>2. CASE k \in 1 .. next - 1
      BY <1>1, <2>2, <2>3, <3>2
    <3> QED BY <1>5, <3>1, <3>2
  <2> QED BY <1>1, <1>2, <1>5, <1>8, <2>2, <2>3 DEF ArgsInv
<1> QED BY <1>6, <1>7, <1>8 DEF ParseOption, GiveUp

LEMMA ArgsInvNext == ArgsInv /\ [Next]_vars => ArgsInv'
<1> SUFFICES ASSUME ArgsInv, [Next]_vars PROVE ArgsInv'
  OBVIOUS
<1> USE ArgsKept
<1>1. CASE ParseOption
  BY <1>1, ArgsParse
<1>2. CASE OptionsDone
  <2>1. next = Len(given) + 1 /\ ~asked
    BY <1>2 DEF OptionsDone, ArgsInv
  <2> QED BY <1>2, <2>1 DEF OptionsDone, GiveUp
<1>3. CASE Usage \/ OpenFails
  <2>1. ~asked
    BY <1>3 DEF Usage, OpenFails, ArgsInv
  <2> QED BY <1>3, <2>1 DEF Usage, OpenFails, GiveUp
<1>4. CASE NewBase \/ Open
  <2>1. next = Len(given) + 1 /\ ~asked
    BY <1>4 DEF NewBase, Open, ArgsInv
  <2> QED BY <1>4, <2>1 DEF NewBase, Open, GiveUp
<1>5. CASE Wrapper
  <2>1. pc = "loop" /\ next = Len(given) + 1
    BY <1>5 DEF Wrapper, ArgsInv
  <2>2. UNCHANGED main /\ pc' \in {"loop", "killed"}
    BY <1>5 DEF Wrapper
  <2> QED BY <2>1, <2>2
<1>6. CASE OnAnswer \/ OnMessage \/ OnOther \/ OnEnd \/ RequestTimesOut \/ GuardFires
           \/ LeaveLoop \/ Finish
  <2>1. UNCHANGED <<main, asked>> /\ pc \in {"loop", "end"} /\ pc' \in {pc, "end", "done"}
    BY <1>6 DEF OnAnswer, OnMessage, OnOther, Reads, OnEnd, OnClose, RequestTimesOut, GuardFires,
                LeaveLoop, Finish
  <2>2. (asked \/ pc = "loop") => next = Len(given) + 1
    BY DEF ArgsInv
  <2> QED BY <2>1, <2>2
<1>7. CASE ServerSends \/ ServerLeaves \/ UNCHANGED vars
  <2>1. UNCHANGED <<main, asked, pc>>
    BY <1>7 DEF ServerSends, ServerLeaves, vars
  <2>2. /\ pc \in {"base", "open", "loop"} \/ asked => next = Len(given) + 1
        /\ asked => pc \notin {"options", "base", "open"}
    BY DEF ArgsInv
  <2> QED BY <2>1, <2>2
<1> QED BY <1>1, <1>2, <1>3, <1>4, <1>5, <1>6, <1>7 DEF Next, ToolStep, Ended

(* What ipc_send asks is what its command line states, for every command   *)
(* line and all widths of the types: no number of a word changes its sign  *)
(* or its value on its way through format_int_param or format_uint_param,  *)
(* no string or blob that the size of a type word can tell is cut, no      *)
(* option is lost, and none takes the place of another.                    *)
THEOREM AskedAsStated == Spec => []RequestAsStated
<1>1. ASSUME ArgsInv PROVE RequestAsStated
  <2> SUFFICES ASSUME asked PROVE RequestAsStated
    BY DEF RequestAsStated
  <2>1. next - 1 = Len(given) /\ given \in Seq(Option) /\ DOMAIN given = 1 .. Len(given)
    BY <1>1 DEF ArgsInv
  <2>2. Len(params) = Place(Len(given))
    BY <1>1, <2>1 DEF ArgsInv
  <2>3. \A k \in DOMAIN given :
            given[k].letter # "d" => Format(given[k]) # Error /\ params[Place(k)] = Format(given[k])
    BY <1>1, <2>1 DEF ArgsInv
  <2>4. \A k \in DOMAIN given : given[k] \in Option
    BY <2>1
  <2>5. ASSUME NEW k \in DOMAIN given, given[k].letter # "d", InWord(given[k])
        PROVE  AsStated(params[Place(k)], given[k])
    <3> DEFINE o == given[k]
    <3>1. o \in Option /\ Format(o) # Error /\ params[Place(k)] = Format(o) /\ InWord(o)
      BY <2>3, <2>4, <2>5
    <3> HIDE DEF o
    <3>2. AsStated(Format(o), o)
      <4>1. CASE o.letter \in {"u", "i"}
        BY <3>1, <4>1, FormatStates DEF AsStated
      <4>2. CASE o.letter \notin {"u", "i"}
        BY <3>1, <4>2, FormatSize
      <4> QED BY <4>1, <4>2
    <3> QED BY <3>1, <3>2 DEF o
  <2> QED BY <2>2, <2>5 DEF RequestAsStated
<1> QED BY <1>1, ArgsInvInit, ArgsInvNext, PTL DEF Spec

-----------------------------------------------------------------------------
(* Before the loop there is no session; at the end nothing is held *)
SessionInv ==
    /\ s_server \in BOOLEAN
    /\ pc \in {"options", "base", "open"} => session = "none"
    /\ PointerIsSession

(* The memory dealloc_params frees, and what main made besides so far *)
Allocs == {Memory(i) : i \in {k \in 1 .. IPC_SEND_MAX_PARAMS :
                                k \in DOMAIN params /\ IsAllocated(params[k])}}
Made == CASE pc = "open" -> {"base"}
          [] pc \in {"loop", "end"} -> Events \cup {"base"}
          [] OTHER -> {}

(* While main runs, all it holds is what its end will release *)
HeapInv ==
    /\ params \in Seq(Parameter) /\ Len(params) <= IPC_SEND_MAX_PARAMS
    /\ pc \notin {"done", "killed"} => heap \subseteq Allocs \cup Objects(Made)
    /\ pc = "done" => heap = {}

ReleaseInv == SessionInv /\ HeapInv /\ ReleasedAtEnd

LEMMA ReleaseInvInit == Init => ReleaseInv
<1> SUFFICES ASSUME Init PROVE ReleaseInv
  OBVIOUS
<1>1. params = <<>> /\ heap = {} /\ s_server = FALSE /\ session = "none" /\ pc = "options"
  BY DEF Init
<1>2. HeapInv
  BY <1>1, ToolConstants DEF HeapInv
<1> QED BY <1>1, <1>2 DEF ReleaseInv, SessionInv, PointerIsSession, ReleasedAtEnd

(* An option that is read leaves no memory that its parameter does not name *)
LEMMA HeapParse == ASSUME ArgsInv, HeapInv, ParseOption PROVE HeapInv'
<1> DEFINE o == given[next]
           p == Format(o)
<1>1. /\ pc = "options" /\ o \in Option /\ Made = {} /\ heap \subseteq Allocs
      /\ params \in Seq(Parameter) /\ Len(params) <= IPC_SEND_MAX_PARAMS
  BY DEF ParseOption, ArgsInv, HeapInv, Made, Objects
<1>2. IPC_SEND_MAX_PARAMS \in Nat
  BY ToolConstants
<1>3. CASE UNCHANGED <<params, pc, heap>>
  BY <1>3 DEF HeapInv, Allocs, Made, Events, Objects, ParseOption
<1>4. CASE /\ p # Error /\ Len(params) < IPC_SEND_MAX_PARAMS /\ params' = Append(params, p)
           /\ heap' = IF IsAllocated(p) THEN heap \cup {Memory(Len(params'))} ELSE heap
           /\ pc' = pc
  <2>1. p \in Parameter
    BY <1>1, <1>4, FormatType
  <2> HIDE DEF p
  <2>2. /\ params' \in Seq(Parameter) /\ Len(params') = Len(params) + 1
        /\ Len(params) \in Nat
        /\ DOMAIN params' = 1 .. Len(params') /\ DOMAIN params = 1 .. Len(params)
        /\ \A k \in DOMAIN params : params'[k] = params[k]
        /\ params'[Len(params')] = p
    BY <1>1, <1>4, <2>1
  <2>3. Allocs \subseteq Allocs'
    BY <2>2 DEF Allocs, Memory
  <2>4. IsAllocated(p) => Memory(Len(params')) \in Allocs'
    <3>1. Len(params') \in 1 .. IPC_SEND_MAX_PARAMS /\ Len(params') \in DOMAIN params'
      BY <1>2, <1>4, <2>2
    <3> QED BY <2>2, <3>1 DEF Allocs, Memory
  <2>5. heap' \subseteq Allocs'
    BY <1>1, <1>4, <2>3, <2>4
  <2> QED BY <1>1, <1>2, <1>4, <2>2, <2>5 DEF HeapInv
<1>5. CASE GiveUp /\ UNCHANGED params
  <2>1. heap' = {}
    BY <1>1, <1>5 DEF GiveUp, Dealloc, Allocs
  <2> QED BY <1>1, <1>5, <2>1 DEF GiveUp, HeapInv
<1> QED BY <1>3, <1>4, <1>5 DEF ParseOption

LEMMA HeapInvNext == ArgsInv /\ HeapInv /\ [Next]_vars => HeapInv'
<1> SUFFICES ASSUME ArgsInv, HeapInv, [Next]_vars PROVE HeapInv'
  OBVIOUS
<1>1. CASE ParseOption
  BY <1>1, HeapParse
<1>2. \A h : Dealloc(h) = h \ Allocs
  BY DEF Dealloc, Allocs
<1>3. ASSUME UNCHANGED main PROVE Allocs' = Allocs /\ Events' = Events /\ params' = params
  BY <1>3 DEF main, Allocs, Events, Memory
<1>4. CASE OptionsDone \/ Usage
  <2>1. /\ UNCHANGED main /\ pc = "options"
        /\ \/ pc' = "done" /\ heap' = Dealloc(heap)
           \/ pc' = "base" /\ heap' = heap
    BY <1>4 DEF OptionsDone, Usage, GiveUp
  <2>2. heap \subseteq Allocs
    BY <2>1 DEF HeapInv, Made, Objects
  <2> QED BY <1>2, <1>3, <2>1, <2>2 DEF HeapInv, Made
<1>5. CASE NewBase
  <2>1. /\ UNCHANGED main /\ pc = "base"
        /\ \/ pc' = "done" /\ heap' = Dealloc(heap)
           \/ pc' = "open" /\ heap' = heap \cup Objects({"base"})
    BY <1>5 DEF NewBase, GiveUp
  <2>2. heap \subseteq Allocs
    BY <2>1 DEF HeapInv, Made, Objects
  <2> QED BY <1>2, <1>3, <2>1, <2>2 DEF HeapInv, Made
<1>6. CASE OpenFails
  <2>1. UNCHANGED main /\ pc = "open" /\ pc' = "done" /\ heap' = Dealloc(heap \ Objects({"base"}))
    BY <1>6 DEF OpenFails
  <2>2. heap \subseteq Allocs \cup Objects({"base"})
    BY <2>1 DEF HeapInv, Made
  <2> QED BY <1>2, <1>3, <2>1, <2>2 DEF HeapInv
<1>7. CASE Open
  <2>1. UNCHANGED main /\ pc = "open" /\ pc' = "loop" /\ heap' = heap \cup Objects(Events)
    BY <1>7 DEF Open
  <2>2. heap \subseteq Allocs \cup Objects({"base"})
    BY <2>1 DEF HeapInv, Made
  <2>3. Made' = Events \cup {"base"}
    BY <1>3, <2>1 DEF Made
  <2> QED BY <1>3, <2>1, <2>2, <2>3 DEF HeapInv, Objects
<1>8. CASE Finish
  <2>1. /\ UNCHANGED main /\ pc = "end" /\ pc' = "done"
        /\ heap' = Dealloc(heap) \ Objects(Events \cup {"base"})
    BY <1>8 DEF Finish
  <2>2. heap \subseteq Allocs \cup Objects(Events \cup {"base"})
    BY <2>1 DEF HeapInv, Made
  <2> QED BY <1>2, <1>3, <2>1, <2>2 DEF HeapInv
<1>9. CASE UNCHANGED <<main, heap>> /\ (pc' = pc \/ (pc = "loop" /\ pc' \in {"end", "killed"}))
  <2>1. Allocs' = Allocs /\ Events' = Events /\ params' = params
    BY <1>3, <1>9
  <2>2. CASE pc' = pc
    BY <1>9, <2>1, <2>2 DEF HeapInv, Made, Objects
  <2>3. CASE pc = "loop" /\ pc' \in {"end", "killed"}
    BY <1>9, <2>1, <2>3 DEF HeapInv, Made, Objects
  <2> QED BY <1>9, <2>2, <2>3
<1> QED
  BY <1>1, <1>4, <1>5, <1>6, <1>7, <1>8, <1>9
  DEF Next, ToolStep, Ended, Wrapper, OnAnswer, OnMessage, OnOther, Reads, OnEnd, RequestTimesOut,
      GuardFires, LeaveLoop, ServerSends, ServerLeaves, vars

LEMMA SessionInvNext == SessionInv /\ [Next]_vars => SessionInv' /\ (pc' = "done" /\ pc # "done" => session' # "live")
<1> SUFFICES ASSUME SessionInv, [Next]_vars
             PROVE  SessionInv' /\ (pc' = "done" /\ pc # "done" => session' # "live")
  OBVIOUS
<1> USE DEF SessionInv, PointerIsSession
<1>1. CASE ParseOption
  BY <1>1 DEF ParseOption, GiveUp
<1>2. CASE OptionsDone
  BY <1>2 DEF OptionsDone, GiveUp
<1>3. CASE Usage
  BY <1>3 DEF Usage, GiveUp
<1>4. CASE NewBase \/ OpenFails
  BY <1>4 DEF NewBase, OpenFails, GiveUp
<1>5. CASE Open
  BY <1>5 DEF Open
<1>6. CASE Wrapper
  <2>1. /\ pc = "loop" /\ (pc' = pc \/ pc' = "killed")
        /\ \/ s_server' = s_server /\ session' = session
           \/ s_server' = FALSE /\ session' = "freed"
    BY <1>6 DEF Wrapper
  <2>2. CASE s_server' = s_server /\ session' = session
    BY <2>1, <2>2, Zenon
  <2>3. CASE s_server' = FALSE /\ session' = "freed"
    BY <2>1, <2>3
  <2> QED BY <2>1, <2>2, <2>3
<1>7. CASE OnAnswer \/ OnMessage \/ OnOther
  BY <1>7 DEF OnAnswer, OnMessage, OnOther, Reads
<1>8. CASE OnEnd
  BY <1>8 DEF OnEnd, OnClose
<1>9. CASE RequestTimesOut \/ GuardFires
  BY <1>9 DEF RequestTimesOut, GuardFires
<1>10. CASE LeaveLoop
  BY <1>10 DEF LeaveLoop
<1>11. CASE Finish
  BY <1>11 DEF Finish
<1>12. CASE ServerSends \/ ServerLeaves
  BY <1>12 DEF ServerSends, ServerLeaves
<1>13. CASE UNCHANGED vars
  BY <1>13 DEF vars
<1> QED
  BY <1>1, <1>2, <1>3, <1>4, <1>5, <1>6, <1>7, <1>8, <1>9, <1>10, <1>11, <1>12, <1>13
  DEF Next, ToolStep, Ended

(* Nothing changes once main has returned *)
LEMMA DoneStays ==
    ASSUME pc = "done", [Next]_vars PROVE UNCHANGED <<pc, session>>
BY DEF Next, ToolStep, Ended, ParseOption, OptionsDone, Usage, NewBase, OpenFails, Open,
       Wrapper, OnAnswer, OnMessage, OnOther, Reads, OnEnd, RequestTimesOut, GuardFires,
       LeaveLoop, Finish, ServerSends, ServerLeaves, vars

LEMMA ReleaseInvNext == ArgsInv /\ ReleaseInv /\ [Next]_vars => ReleaseInv'
<1> SUFFICES ASSUME ArgsInv, ReleaseInv, [Next]_vars PROVE ReleaseInv'
  OBVIOUS
<1>1. HeapInv' /\ SessionInv' /\ (pc' = "done" /\ pc # "done" => session' # "live")
  BY HeapInvNext, SessionInvNext DEF ReleaseInv
<1>2. pc = "done" => session' # "live"
  BY DoneStays DEF ReleaseInv, ReleasedAtEnd
<1>3. pc' = "done" => heap' = {}
  BY <1>1 DEF HeapInv
<1> QED BY <1>1, <1>2, <1>3 DEF ReleaseInv, ReleasedAtEnd

(* Every way main returns releases what was taken until then: the memory   *)
(* of the parameters, by dealloc_params, the events, the base and the      *)
(* session.  Its pointer is set exactly as long as the session lives:      *)
(* neither ipc_send_wrapper nor the end of main uses or closes one that    *)
(* the library has freed.                                                  *)
THEOREM AllReleased == Spec => []ReleasedOnce
<1>1. ReleaseInv => ReleasedOnce
  BY DEF ReleaseInv, SessionInv, ReleasedOnce
<1> QED BY <1>1, ArgsInvInit, ArgsInvNext, ReleaseInvInit, ReleaseInvNext, PTL DEF Spec

-----------------------------------------------------------------------------
(* What a cell of ret_string holds, and what text is made of *)
Cell == Nat \X Nat
Mark == Cell \ {NUL}

(* What Write leaves in every cell *)
LEMMA WriteCells ==
    ASSUME NEW cells \in Seq(Cell), Len(cells) = Room, NEW chars \in Seq(Cell),
           NEW pos \in Nat, pos + Len(chars) <= Room
    PROVE  /\ Write(cells, pos, chars) \in Seq(Cell)
           /\ Len(Write(cells, pos, chars)) = Room
           /\ \A c \in 1 .. Room :
                 Write(cells, pos, chars)[c] =
                    IF c <= pos \/ c > pos + Len(chars) THEN cells[c] ELSE chars[c - pos]
<1> DEFINE front == SubSeq(cells, 1, pos)
           back == SubSeq(cells, pos + Len(chars) + 1, Len(cells))
<1>1. Room \in Nat
  BY RoomAssumption
<1>2. /\ front \in Seq(Cell) /\ Len(front) = pos
      /\ \A c \in 1 .. pos : front[c] = cells[c]
  BY <1>1
<1>3. /\ back \in Seq(Cell) /\ Len(back) = Room - (pos + Len(chars))
      /\ \A c \in 1 .. Room - (pos + Len(chars)) : back[c] = cells[c + pos + Len(chars)]
  BY <1>1
<1> HIDE DEF front, back
<1>4. /\ front \o chars \in Seq(Cell) /\ Len(front \o chars) = pos + Len(chars)
      /\ \A c \in 1 .. pos + Len(chars) :
            (front \o chars)[c] = IF c <= pos THEN cells[c] ELSE chars[c - pos]
  BY <1>2
<1>5. Write(cells, pos, chars) = (front \o chars) \o back
  BY DEF Write, front, back
<1> DEFINE both == front \o chars
<1> HIDE DEF both
<1>6. both \o back \in Seq(Cell) /\ Len(both \o back) = Room
  <2>1. both \in Seq(Cell) /\ Len(both) = pos + Len(chars)
    BY <1>4 DEF both
  <2>2. both \o back \in Seq(Cell) /\ Len(both \o back) = Len(both) + Len(back)
    BY <1>3, <2>1
  <2>3. Len(chars) \in Nat
    OBVIOUS
  <2> QED BY <1>1, <1>3, <2>1, <2>2, <2>3
<1>7. ASSUME NEW c \in 1 .. Room
      PROVE  (both \o back)[c] = IF c <= pos \/ c > pos + Len(chars) THEN cells[c] ELSE chars[c - pos]
  <2>1. CASE c <= pos + Len(chars)
    BY <1>1, <1>3, <1>4, <2>1 DEF both
  <2>2. CASE c > pos + Len(chars)
    <3>1. (both \o back)[c] = back[c - (pos + Len(chars))]
      BY <1>1, <1>3, <1>4, <2>2 DEF both
    <3>2. c - (pos + Len(chars)) \in 1 .. Room - (pos + Len(chars))
      BY <1>1, <2>2
    <3>3. back[c - (pos + Len(chars))] = cells[c - (pos + Len(chars)) + pos + Len(chars)]
      BY <1>3, <3>2
    <3>4. c - (pos + Len(chars)) + pos + Len(chars) = c
      BY <1>1
    <3> QED BY <2>2, <3>1, <3>3, <3>4
  <2>3. c <= pos + Len(chars) \/ c > pos + Len(chars)
    <3>1. Len(chars) \in Nat /\ c \in Int
      OBVIOUS
    <3> QED BY <3>1
  <2> QED BY <2>1, <2>2, <2>3, Zenon
<1> QED BY <1>5, <1>6, <1>7 DEF both

(* Nothing is written *)
LEMMA WriteNothing ==
    ASSUME NEW cells \in Seq(Cell), Len(cells) = Room, NEW pos \in Nat, pos <= Room
    PROVE  \A c \in 1 .. Room : Write(cells, pos, <<>>)[c] = cells[c]
<1> DEFINE none == <<>>
<1>1. none \in Seq(Cell) /\ Len(none) = 0
  OBVIOUS
<1> HIDE DEF none
<1>2. none \in Seq(Cell) /\ pos + Len(none) <= Room
  BY <1>1
<1>3. \A c \in 1 .. Room :
         Write(cells, pos, none)[c] = IF c <= pos \/ c > pos + Len(none) THEN cells[c] ELSE none[c - pos]
  BY <1>2, WriteCells
<1>4. \A c \in 1 .. Room : c <= pos \/ c > pos + Len(none)
  BY <1>1
<1> QED BY <1>3, <1>4, Zenon DEF none

(* Prints is the function its recursion describes: such functions exist   *)
(* for every number of turns, by induction on it                           *)
LEMMA PrintsUnfold ==
    ASSUME NEW m \in Seq(Param)
    PROVE  /\ Prints(m)[0] = Start
           /\ \A n \in 1 .. Len(m) : Prints(m)[n] = PutParam(Prints(m)[n - 1], n, m[n])
<1> DEFINE G(g, k) == g = [n \in 0 .. k |-> IF n = 0 THEN Start ELSE PutParam(g[n - 1], n, m[n])]
           S == {k \in Nat : \E g : G(g, k)}
<1>1. 0 \in S
  <2> DEFINE g == [n \in 0 .. 0 |-> Start]
  <2>1. G(g, 0)
    OBVIOUS
  <2> QED BY <2>1
<1>2. ASSUME NEW k \in Nat, k \in S PROVE k + 1 \in S
  <2>1. PICK g : G(g, k)
    BY <1>2
  <2> DEFINE h == [n \in 0 .. k + 1 |-> IF n = k + 1 THEN PutParam(g[k], k + 1, m[k + 1]) ELSE g[n]]
  <2>2. ASSUME NEW n \in 0 .. k + 1
        PROVE  h[n] = IF n = 0 THEN Start ELSE PutParam(h[n - 1], n, m[n])
    <3>1. CASE n = k + 1
      <4>1. h[n] = PutParam(g[k], k + 1, m[k + 1]) /\ h[n - 1] = g[k] /\ n # 0
        BY <3>1
      <4> QED BY <3>1, <4>1
    <3>2. CASE n \in 1 .. k
      <4>1. h[n] = g[n] /\ h[n - 1] = g[n - 1] /\ n # 0 /\ n \in 0 .. k
        BY <3>2
      <4>2. g[n] = PutParam(g[n - 1], n, m[n])
        BY <2>1, <4>1
      <4> QED BY <4>1, <4>2
    <3>3. CASE n = 0
      <4>1. h[n] = g[n] /\ 0 \in 0 .. k
        BY <3>3
      <4>2. g[0] = Start
        BY <2>1, <4>1
      <4> QED BY <3>3, <4>1, <4>2
    <3> QED BY <3>1, <3>2, <3>3
  <2>3. h = [n \in 0 .. k + 1 |-> h[n]]
    OBVIOUS
  <2> HIDE DEF h
  <2>4. h = [n \in 0 .. k + 1 |-> IF n = 0 THEN Start ELSE PutParam(h[n - 1], n, m[n])]
    BY <2>2, <2>3
  <2>5. G(h, k + 1)
    BY <2>4
  <2>6. k + 1 \in Nat /\ \E g_1 : G(g_1, k + 1)
    <3> HIDE DEF G
    <3> QED BY <2>5
  <2> QED BY <2>6, Zenon
<1>3. Nat \subseteq S
  <2> HIDE DEF S
  <2> QED BY <1>1, <1>2, SetInduction
<1>4. \E g : G(g, Len(m))
  BY <1>3
<1>5. G(Prints(m), Len(m))
  BY <1>4, Zenon DEF Prints
<1> QED BY <1>5

(* So is Texts *)
LEMMA TextsUnfold ==
    ASSUME NEW m \in Seq(Param)
    PROVE  /\ Texts(m)[0] = <<>>
           /\ \A n \in 1 .. Len(m) : Texts(m)[n] = Lead(Texts(m)[n - 1], n) \o Shown(n, m[n])
<1> DEFINE G(g, k) == g = [n \in 0 .. k |-> IF n = 0 THEN <<>> ELSE Lead(g[n - 1], n) \o Shown(n, m[n])]
           S == {k \in Nat : \E g : G(g, k)}
<1>1. 0 \in S
  <2> DEFINE g == [n \in 0 .. 0 |-> <<>>]
  <2>1. G(g, 0)
    OBVIOUS
  <2> QED BY <2>1
<1>2. ASSUME NEW k \in Nat, k \in S PROVE k + 1 \in S
  <2>1. PICK g : G(g, k)
    BY <1>2
  <2> DEFINE h == [n \in 0 .. k + 1 |-> IF n = k + 1 THEN Lead(g[k], k + 1) \o Shown(k + 1, m[k + 1]) ELSE g[n]]
  <2>2. ASSUME NEW n \in 0 .. k + 1
        PROVE  h[n] = IF n = 0 THEN <<>> ELSE Lead(h[n - 1], n) \o Shown(n, m[n])
    <3>1. CASE n = k + 1
      <4>1. h[n] = Lead(g[k], k + 1) \o Shown(k + 1, m[k + 1]) /\ h[n - 1] = g[k] /\ n # 0
        BY <3>1
      <4> QED BY <3>1, <4>1
    <3>2. CASE n \in 1 .. k
      <4>1. h[n] = g[n] /\ h[n - 1] = g[n - 1] /\ n # 0 /\ n \in 0 .. k
        BY <3>2
      <4>2. g[n] = Lead(g[n - 1], n) \o Shown(n, m[n])
        BY <2>1, <4>1
      <4> QED BY <4>1, <4>2
    <3>3. CASE n = 0
      <4>1. h[n] = g[n] /\ 0 \in 0 .. k
        BY <3>3
      <4>2. g[0] = <<>>
        BY <2>1, <4>1
      <4> QED BY <3>3, <4>1, <4>2
    <3> QED BY <3>1, <3>2, <3>3
  <2>3. h = [n \in 0 .. k + 1 |-> h[n]]
    OBVIOUS
  <2> HIDE DEF h
  <2>4. h = [n \in 0 .. k + 1 |-> IF n = 0 THEN <<>> ELSE Lead(h[n - 1], n) \o Shown(n, m[n])]
    BY <2>2, <2>3
  <2>5. G(h, k + 1)
    BY <2>4
  <2>6. k + 1 \in Nat /\ \E g_1 : G(g_1, k + 1)
    <3> HIDE DEF G
    <3> QED BY <2>5
  <2> QED BY <2>6, Zenon
<1>3. Nat \subseteq S
  <2> HIDE DEF S
  <2> QED BY <1>1, <1>2, SetInduction
<1>4. \E g : G(g, Len(m))
  <2>1. Len(m) \in S
    <3> HIDE DEF S
    <3> QED BY <1>3
  <2> QED BY <2>1, Zenon
<1>5. G(Texts(m), Len(m))
  BY <1>4, Zenon DEF Texts
<1>6. ASSUME NEW n \in 0 .. Len(m)
      PROVE  Texts(m)[n] = IF n = 0 THEN <<>> ELSE Lead(Texts(m)[n - 1], n) \o Shown(n, m[n])
  BY <1>5
<1>7. 0 \in 0 .. Len(m) /\ \A n \in 1 .. Len(m) : n \in 0 .. Len(m) /\ n # 0
  OBVIOUS
<1> QED BY <1>6, <1>7, Zenon

(* The characters of a parameter *)
LEMMA CharsMarks ==
    ASSUME NEW i \in Nat \ {0}, NEW n \in Nat
    PROVE  /\ Chars(i, n) \in Seq(Mark) /\ Chars(i, n) \in Seq(Cell) /\ Len(Chars(i, n)) = n
           /\ \A k \in 1 .. n : Chars(i, n)[k] = <<i, k>>
<1>1. \A k \in 1 .. n : <<i, k>> \in Mark
  BY DEF Mark, Cell, NUL
<1>2. Chars(i, n) \in [1 .. n -> Mark] /\ Chars(i, n) \in [1 .. n -> Cell]
  BY <1>1 DEF Chars, Mark
<1> QED BY <1>2 DEF Chars

(* The characters that are no parameter's *)
LEMMA FewMarks == NUL \in Cell /\ Space \in Mark /\ Quote \in Mark
BY DEF NUL, Space, Quote, Mark, Cell

(* The state of the loop over ret_params *)
State == [cells : Seq(Cell), pos : Nat, state : {"going", "stopped", "failed"}]

(* ret_string has its length and its last NUL, and pos lies in it *)
Inside(st) ==
    /\ st \in State
    /\ Len(st.cells) = Room /\ st.cells[Room] = NUL /\ st.pos < Room

(* What ret_string shows, up to its first NUL, is text; while the loop goes *)
(* on nothing is behind it: a blob of no bytes relies on the NUL it finds. *)
Shows(st, text) ==
    /\ text \in Seq(Mark) /\ Len(text) < Room
    /\ \A c \in 1 .. Len(text) : st.cells[c] = text[c]
    /\ st.cells[Len(text) + 1] = NUL
    /\ st.state = "going" =>
          st.pos = Len(text) /\ \A c \in Len(text) + 1 .. Room : st.cells[c] = NUL

(* ret_string before the loop *)
LEMMA StartInside == Inside(Start) /\ Shows(Start, <<>>)
<1>1. Room \in Nat \ {0} /\ NUL \in Cell
  BY RoomAssumption, FewMarks
<1>2. [c \in 1 .. Room |-> NUL] \in Seq(Cell) /\ Len([c \in 1 .. Room |-> NUL]) = Room
  BY <1>1
<1> QED BY <1>1, <1>2 DEF Start, Inside, Shows, State

(* The fields of the loop's state *)
LEMMA InsideParts ==
    ASSUME NEW st, Inside(st)
    PROVE  /\ st.cells \in Seq(Cell) /\ Len(st.cells) = Room /\ st.cells[Room] = NUL
           /\ st.pos \in Nat /\ st.pos < Room /\ st.state \in {"going", "stopped", "failed"}
           /\ st = [cells |-> st.cells, pos |-> st.pos, state |-> st.state]
BY DEF Inside, State

(* The EXCEPTs of ToolText, as records *)
LEMMA Updates ==
    ASSUME NEW st, Inside(st)
    PROVE  /\ \A c, p : [st EXCEPT !.cells = c, !.pos = p] = [cells |-> c, pos |-> p, state |-> st.state]
           /\ \A c, s : [st EXCEPT !.cells = c, !.state = s] = [cells |-> c, pos |-> st.pos, state |-> s]
           /\ \A s : [st EXCEPT !.state = s] = [cells |-> st.cells, pos |-> st.pos, state |-> s]
<1>1. st \in [cells : Seq(Cell), pos : Nat, state : {"going", "stopped", "failed"}]
  BY Zenon DEF Inside, State
<1>2. ASSUME NEW c, NEW p, NEW s
      PROVE  /\ [st EXCEPT !.cells = c, !.pos = p] = [cells |-> c, pos |-> p, state |-> st.state]
             /\ [st EXCEPT !.cells = c, !.state = s] = [cells |-> c, pos |-> st.pos, state |-> s]
  <2> DEFINE r == [st EXCEPT !.cells = c]
  <2>1. /\ r \in [cells : {c}, pos : Nat, state : {"going", "stopped", "failed"}]
        /\ r.state = st.state /\ r.pos = st.pos
    BY <1>1
  <2>2. /\ [st EXCEPT !.cells = c, !.pos = p] = [r EXCEPT !.pos = p]
        /\ [st EXCEPT !.cells = c, !.state = s] = [r EXCEPT !.state = s]
    OBVIOUS
  <2> HIDE DEF r
  <2>3. [r EXCEPT !.pos = p] = [cells |-> c, pos |-> p, state |-> r.state]
    BY <2>1
  <2>4. [r EXCEPT !.state = s] = [cells |-> c, pos |-> r.pos, state |-> s]
    BY <2>1
  <2> QED BY <2>1, <2>2, <2>3, <2>4
<1>3. \A s : [st EXCEPT !.state = s] = [cells |-> st.cells, pos |-> st.pos, state |-> s]
  BY <1>1
<1> QED BY <1>2, <1>3, Zenon

(* States that are inside ret_string *)
LEMMA MadeInside ==
    ASSUME NEW c \in Seq(Cell), Len(c) = Room, c[Room] = NUL, NEW p \in Nat, p < Room,
           NEW s \in {"going", "stopped", "failed"}
    PROVE  Inside([cells |-> c, pos |-> p, state |-> s])
<1> DEFINE r == [cells |-> c, pos |-> p, state |-> s]
<1>1. r \in State
  BY DEF State
<1>2. r.cells = c /\ r.pos = p
  OBVIOUS
<1> HIDE DEF r
<1>3. Inside(r)
  BY <1>1, <1>2 DEF Inside
<1> QED BY <1>3 DEF r

(* A failure leaves ret_string as it is *)
LEMMA FailInside ==
    ASSUME NEW st, Inside(st)
    PROVE  Inside([st EXCEPT !.state = "failed"])
<1>1. [st EXCEPT !.state = "failed"] = [cells |-> st.cells, pos |-> st.pos, state |-> "failed"]
  BY Updates
<1>2. /\ st.cells \in Seq(Cell) /\ Len(st.cells) = Room /\ st.cells[Room] = NUL
      /\ st.pos \in Nat /\ st.pos < Room
  BY InsideParts
<1> QED BY <1>1, <1>2, MadeInside

(* Text written before the last cell *)
LEMMA WriteInside ==
    ASSUME NEW st, Inside(st), NEW at \in Nat, NEW chars \in Seq(Cell), at + Len(chars) < Room,
           NEW p \in Nat, p < Room, NEW s \in {"going", "stopped", "failed"}
    PROVE  Inside([cells |-> Write(st.cells, at, chars), pos |-> p, state |-> s])
<1> DEFINE w == Write(st.cells, at, chars)
<1>1. Room \in Nat \ {0} /\ Len(chars) \in Nat
  BY RoomAssumption
<1>2. st.cells \in Seq(Cell) /\ Len(st.cells) = Room /\ st.cells[Room] = NUL
  BY InsideParts
<1>3. at + Len(chars) <= Room /\ Room \in 1 .. Room /\ Room > at + Len(chars)
  BY <1>1
<1>4. w \in Seq(Cell) /\ Len(w) = Room /\ w[Room] = st.cells[Room]
  BY <1>2, <1>3, WriteCells
<1> QED BY <1>2, <1>4, MadeInside

(* The space between two parameters *)
LEMMA SeparateInside ==
    ASSUME NEW st, Inside(st), NEW i
    PROVE  /\ Inside(Separate(st, i))
           /\ i = 1 \/ st.state # "going" => Separate(st, i) = st
           /\ i # 1 /\ st.state = "going" =>
                 \/ Separate(st, i).state = "failed"
                 \/ /\ st.pos + 1 < Room - 1
                    /\ Separate(st, i) = [cells |-> Write(st.cells, st.pos, <<Space>>),
                                          pos |-> st.pos + 1, state |-> "going"]
<1>0. Room \in Nat \ {0} /\ <<Space>> \in Seq(Cell) /\ Len(<<Space>>) = 1
  BY RoomAssumption, FewMarks DEF Mark
<1>5. \A c, p : [st EXCEPT !.cells = c, !.pos = p] = [cells |-> c, pos |-> p, state |-> st.state]
  BY Updates
<1>1. CASE i = 1 \/ st.state # "going"
  BY <1>1 DEF Separate
<1>2. CASE ~(i = 1 \/ st.state # "going") /\ st.pos + 1 < Room - 1
  <2>1. Separate(st, i) = [st EXCEPT !.cells = Write(@, st.pos, <<Space>>), !.pos = @ + 1]
    BY <1>2 DEF Separate
  <2>2. Separate(st, i) = [cells |-> Write(st.cells, st.pos, <<Space>>), pos |-> st.pos + 1,
                           state |-> "going"]
    <3>1. [st EXCEPT !.cells = Write(st.cells, st.pos, <<Space>>), !.pos = st.pos + 1]
            = [cells |-> Write(st.cells, st.pos, <<Space>>), pos |-> st.pos + 1, state |-> st.state]
      BY <1>5
    <3> QED BY <1>2, <2>1, <3>1
  <2>3. st.pos \in Nat /\ st.pos + Len(<<Space>>) < Room /\ st.pos + 1 \in Nat /\ st.pos + 1 < Room
    BY <1>0, <1>2, InsideParts
  <2>4. Inside([cells |-> Write(st.cells, st.pos, <<Space>>), pos |-> st.pos + 1, state |-> "going"])
    BY <1>0, <2>3, WriteInside
  <2> QED BY <1>2, <2>2, <2>4, Zenon
<1>3. CASE ~(i = 1 \/ st.state # "going") /\ ~(st.pos + 1 < Room - 1)
  <2>1. Separate(st, i) = [st EXCEPT !.state = "failed"]
    BY <1>3 DEF Separate
  <2>2. Separate(st, i).state = "failed"
    BY <2>1, Updates
  <2> QED BY <1>3, <2>1, <2>2, FailInside, Zenon
<1> QED BY <1>1, <1>2, <1>3, Zenon

(* What a string and a blob are written as *)
LEMMA PutLengths ==
    ASSUME NEW i \in Nat \ {0}, NEW n \in Nat
    PROVE  /\ Quoted(i, n) \in Seq(Cell) /\ Len(Quoted(i, n)) <= n + 2
           /\ Digits(i, n) \in Seq(Cell) /\ Len(Digits(i, n)) <= n * 2 + 1
<1>0. NUL \in Cell /\ Quote \in Cell
  BY FewMarks DEF Mark
<1>1. \A k \in Nat : Chars(i, k) \in Seq(Cell) /\ Len(Chars(i, k)) = k
  BY CharsMarks
<1>2. Quoted(i, n) \in Seq(Cell) /\ Len(Quoted(i, n)) <= n + 2
  <2>1. CASE n = 0
    <3>1. Quoted(i, n) = <<Quote, NUL>>
      BY <2>1, Zenon DEF Quoted
    <3>2. <<Quote, NUL>> \in Seq(Cell) /\ Len(<<Quote, NUL>>) = 2
      BY <1>0
    <3>3. 2 <= n + 2
      OBVIOUS
    <3> QED BY <3>1, <3>2, <3>3, Zenon
  <2>2. CASE n # 0
    <3> DEFINE mid == Chars(i, n - 1)
    <3>1. Quoted(i, n) = <<Quote>> \o mid \o <<Quote, NUL>>
      BY <2>2, Zenon DEF Quoted
    <3>2. mid \in Seq(Cell) /\ Len(mid) = n - 1 /\ n - 1 \in Nat
      BY <1>1, <2>2
    <3> HIDE DEF mid
    <3> DEFINE first == <<Quote>>
               last == <<Quote, NUL>>
    <3>3. /\ first \in Seq(Cell) /\ Len(first) = 1
          /\ last \in Seq(Cell) /\ Len(last) = 2
      BY <1>0
    <3> HIDE DEF first, last
    <3> DEFINE front == first \o mid
    <3>4. front \in Seq(Cell) /\ Len(front) = Len(first) + Len(mid)
      BY <3>2, <3>3, ConcatProperties
    <3> HIDE DEF front
    <3>5. front \o last \in Seq(Cell) /\ Len(front \o last) = Len(front) + Len(last)
      BY <3>3, <3>4, ConcatProperties
    <3>6. Len(front \o last) <= n + 2
      BY <3>2, <3>3, <3>4, <3>5
    <3> QED BY <3>1, <3>5, <3>6, Zenon DEF first, front, last
  <2> QED BY <2>1, <2>2
<1>3. Digits(i, n) \in Seq(Cell) /\ Len(Digits(i, n)) <= n * 2 + 1
  <2>1. CASE n = 0
    <3>1. Digits(i, n) = <<>>
      BY <2>1, Zenon DEF Digits
    <3>2. <<>> \in Seq(Cell) /\ Len(<<>>) = 0
      OBVIOUS
    <3>3. 0 <= n * 2 + 1
      OBVIOUS
    <3> QED BY <3>1, <3>2, <3>3, Zenon
  <2>2. CASE n # 0
    <3> DEFINE mid == Chars(i, n * 2)
    <3>1. Digits(i, n) = Append(mid, NUL)
      BY <2>2, Zenon DEF Digits
    <3>2. mid \in Seq(Cell) /\ Len(mid) = n * 2 /\ n * 2 \in Nat
      BY <1>1
    <3> HIDE DEF mid
    <3>3. Append(mid, NUL) \in Seq(Cell) /\ Len(Append(mid, NUL)) = n * 2 + 1
      BY <1>0, <3>2
    <3>4. n * 2 + 1 <= n * 2 + 1
      OBVIOUS
    <3> QED BY <3>1, <3>3, <3>4, Zenon
  <2> QED BY <2>1, <2>2
<1> QED BY <1>2, <1>3

(* The three ways to put a parameter: what they write and where *)
LEMMA PutInside ==
    ASSUME NEW st, Inside(st), st.state = "going", NEW i \in Nat \ {0}, NEW n \in Nat
    PROVE  /\ Inside(PutInteger(st, i, n)) /\ Inside(PutString(st, i, n)) /\ Inside(PutBlob(st, i, n))
           /\ \/ PutInteger(st, i, n).state = "failed"
              \/ /\ st.pos + n < Room - 1
                 /\ PutInteger(st, i, n) = [cells |-> Write(st.cells, 0, Append(Chars(i, n), NUL)),
                                            pos |-> st.pos + n, state |-> "going"]
           /\ \/ PutString(st, i, n).state = "failed"
              \/ /\ st.pos + n + 2 < Room - 1
                 /\ PutString(st, i, n) = [cells |-> Write(st.cells, st.pos, Quoted(i, n)),
                                           pos |-> st.pos, state |-> "stopped"]
           /\ \/ PutBlob(st, i, n).state = "failed"
              \/ /\ st.pos + n * 2 < Room - 1
                 /\ PutBlob(st, i, n) = [cells |-> Write(st.cells, st.pos, Digits(i, n)),
                                         pos |-> st.pos + n * 2, state |-> "going"]
<1>0. Room \in Nat \ {0} /\ NUL \in Cell /\ st.pos \in Nat /\ st.pos < Room
  BY RoomAssumption, FewMarks, InsideParts
<1>6. \A c, p : [st EXCEPT !.cells = c, !.pos = p] = [cells |-> c, pos |-> p, state |-> st.state]
  BY Updates
<1>7. \A c, s : [st EXCEPT !.cells = c, !.state = s] = [cells |-> c, pos |-> st.pos, state |-> s]
  BY Updates
<1>2. [st EXCEPT !.state = "failed"].state = "failed" /\ Inside([st EXCEPT !.state = "failed"])
  <2>1. [st EXCEPT !.state = "failed"] = [cells |-> st.cells, pos |-> st.pos, state |-> "failed"]
    BY Updates
  <2> QED BY <2>1, FailInside
<1>3. /\ Inside(PutInteger(st, i, n))
      /\ \/ PutInteger(st, i, n).state = "failed"
         \/ /\ st.pos + n < Room - 1
            /\ PutInteger(st, i, n) = [cells |-> Write(st.cells, 0, Append(Chars(i, n), NUL)),
                                       pos |-> st.pos + n, state |-> "going"]
  <2> DEFINE new == Append(Chars(i, n), NUL)
  <2>1. CASE st.pos + n < Room - 1
    <3>1. new \in Seq(Cell) /\ Len(new) = n + 1
      <4>1. Chars(i, n) \in Seq(Cell) /\ Len(Chars(i, n)) = n
        BY CharsMarks
      <4> QED BY <1>0, <4>1
    <3>2. PutInteger(st, i, n) = [cells |-> Write(st.cells, 0, new), pos |-> st.pos + n, state |-> "going"]
      <4> HIDE DEF new
      <4>1. [st EXCEPT !.cells = Write(st.cells, 0, new), !.pos = st.pos + n]
              = [cells |-> Write(st.cells, 0, new), pos |-> st.pos + n, state |-> st.state]
        BY <1>6
      <4> QED BY <2>1, <4>1 DEF PutInteger, new
    <3> HIDE DEF new
    <3>3. 0 + Len(new) < Room /\ st.pos + n \in Nat /\ st.pos + n < Room
      BY <1>0, <2>1, <3>1
    <3>4. Inside([cells |-> Write(st.cells, 0, new), pos |-> st.pos + n, state |-> "going"])
      BY <3>1, <3>3, WriteInside
    <3> QED BY <2>1, <3>2, <3>4, Zenon DEF new
  <2>2. CASE ~(st.pos + n < Room - 1)
    BY <1>2, <2>2 DEF PutInteger
  <2> QED BY <2>1, <2>2, Zenon
<1>4. /\ Inside(PutString(st, i, n))
      /\ \/ PutString(st, i, n).state = "failed"
         \/ /\ st.pos + n + 2 < Room - 1
            /\ PutString(st, i, n) = [cells |-> Write(st.cells, st.pos, Quoted(i, n)),
                                      pos |-> st.pos, state |-> "stopped"]
  <2> DEFINE new == Quoted(i, n)
  <2>1. CASE st.pos + n + 2 < Room - 1
    <3>1. new \in Seq(Cell) /\ Len(new) <= n + 2
      BY PutLengths
    <3> HIDE DEF new
    <3>2. PutString(st, i, n) = [cells |-> Write(st.cells, st.pos, new), pos |-> st.pos, state |-> "stopped"]
      BY <1>7, <2>1 DEF PutString, new
    <3>3. st.pos + Len(new) < Room
      BY <1>0, <2>1, <3>1
    <3>4. Inside([cells |-> Write(st.cells, st.pos, new), pos |-> st.pos, state |-> "stopped"])
      BY <1>0, <3>1, <3>3, WriteInside
    <3> QED BY <2>1, <3>2, <3>4, Zenon DEF new
  <2>2. CASE ~(st.pos + n + 2 < Room - 1)
    BY <1>2, <2>2 DEF PutString
  <2> QED BY <2>1, <2>2, Zenon
<1>5. /\ Inside(PutBlob(st, i, n))
      /\ \/ PutBlob(st, i, n).state = "failed"
         \/ /\ st.pos + n * 2 < Room - 1
            /\ PutBlob(st, i, n) = [cells |-> Write(st.cells, st.pos, Digits(i, n)),
                                    pos |-> st.pos + n * 2, state |-> "going"]
  <2> DEFINE new == Digits(i, n)
  <2>1. CASE st.pos + n * 2 < Room - 1
    <3>1. new \in Seq(Cell) /\ Len(new) <= n * 2 + 1
      BY PutLengths
    <3> HIDE DEF new
    <3>2. PutBlob(st, i, n) = [cells |-> Write(st.cells, st.pos, new), pos |-> st.pos + n * 2, state |-> "going"]
      <4>1. [st EXCEPT !.cells = Write(st.cells, st.pos, new), !.pos = st.pos + n * 2]
              = [cells |-> Write(st.cells, st.pos, new), pos |-> st.pos + n * 2, state |-> st.state]
        BY <1>6
      <4> QED BY <2>1, <4>1 DEF PutBlob, new
    <3>3. st.pos + Len(new) < Room /\ st.pos + n * 2 \in Nat /\ st.pos + n * 2 < Room
      BY <1>0, <2>1, <3>1
    <3>4. Inside([cells |-> Write(st.cells, st.pos, new), pos |-> st.pos + n * 2, state |-> "going"])
      BY <1>0, <3>1, <3>3, WriteInside
    <3> QED BY <2>1, <3>2, <3>4, Zenon DEF new
  <2>2. CASE ~(st.pos + n * 2 < Room - 1)
    BY <1>2, <2>2 DEF PutBlob
  <2> QED BY <2>1, <2>2, Zenon
<1> QED BY <1>3, <1>4, <1>5, Zenon

(* Text and a NUL written behind the text that ret_string shows is shown with it *)
LEMMA WriteShows ==
    ASSUME NEW st, Inside(st), NEW old \in Seq(Mark), NEW add \in Seq(Mark), NEW new \in Seq(Cell),
           \A c \in 1 .. Len(old) : st.cells[c] = old[c],
           Len(new) = Len(add) + 1, new[Len(add) + 1] = NUL,
           \A c \in 1 .. Len(add) : new[c] = add[c],
           Len(old) + Len(new) < Room,
           NEW p, NEW s,
           s = "going" => /\ p = Len(old) + Len(add)
                          /\ \A c \in Len(old) + 1 .. Room : st.cells[c] = NUL
    PROVE  Shows([cells |-> Write(st.cells, Len(old), new), pos |-> p, state |-> s], old \o add)
<1> DEFINE w == Write(st.cells, Len(old), new)
           text == old \o add
<1>1. Room \in Nat /\ Len(old) \in Nat /\ Len(new) \in Nat /\ Len(add) \in Nat
  BY RoomAssumption
<1>2. st.cells \in Seq(Cell) /\ Len(st.cells) = Room
  BY InsideParts
<1>3. \A c \in 1 .. Room :
         w[c] = IF c <= Len(old) \/ c > Len(old) + Len(new) THEN st.cells[c] ELSE new[c - Len(old)]
  <2>1. Len(old) + Len(new) <= Room
    BY <1>1
  <2> QED BY <1>1, <1>2, <2>1, WriteCells
<1>4. /\ text \in Seq(Mark) /\ Len(text) = Len(old) + Len(add)
      /\ \A c \in 1 .. Len(old) : text[c] = old[c]
      /\ \A c \in Len(old) + 1 .. Len(old) + Len(add) : text[c] = add[c - Len(old)]
  BY <1>1
<1> HIDE DEF w, text
<1>5. ASSUME NEW c \in 1 .. Len(text) PROVE w[c] = text[c]
  <2>1. CASE c <= Len(old)
    <3>1. c \in 1 .. Room /\ c \in 1 .. Len(old)
      BY <1>1, <1>4, <2>1
    <3> QED BY <1>3, <1>4, <2>1, <3>1
  <2>2. CASE c > Len(old)
    <3>1. c - Len(old) \in 1 .. Len(add) /\ c \in 1 .. Room /\ ~(c <= Len(old) \/ c > Len(old) + Len(new))
      BY <1>1, <1>4, <2>2
    <3>2. w[c] = new[c - Len(old)]
      BY <1>3, <3>1
    <3>3. text[c] = add[c - Len(old)]
      <4>1. c \in Len(old) + 1 .. Len(old) + Len(add)
        BY <1>1, <1>4, <2>2
      <4> QED BY <1>4, <4>1
    <3> QED BY <3>1, <3>2, <3>3
  <2>3. c <= Len(old) \/ c > Len(old)
    BY <1>1
  <2> QED BY <2>1, <2>2, <2>3, Zenon
<1>6. w[Len(text) + 1] = NUL
  <2>1. /\ Len(text) + 1 \in 1 .. Room /\ Len(text) + 1 - Len(old) = Len(add) + 1
        /\ ~(Len(text) + 1 <= Len(old) \/ Len(text) + 1 > Len(old) + Len(new))
    BY <1>1, <1>4
  <2> QED BY <1>3, <2>1
<1>7. Len(text) < Room
  BY <1>1, <1>4
<1>10. ASSUME s = "going", NEW c \in Len(text) + 1 .. Room PROVE w[c] = NUL
  <2>1. CASE c = Len(text) + 1
    BY <1>6, <2>1
  <2>2. CASE c > Len(text) + 1
    <3>1. c \in 1 .. Room /\ c > Len(old) + Len(new) /\ c \in Len(old) + 1 .. Room
      BY <1>1, <1>4, <2>2
    <3>2. w[c] = st.cells[c]
      BY <1>3, <3>1
    <3> QED BY <1>10, <3>1, <3>2
  <2>3. c = Len(text) + 1 \/ c > Len(text) + 1
    <3>1. Len(text) \in Nat /\ c \in Int /\ c >= Len(text) + 1
      BY <1>1, <1>4
    <3> QED BY <3>1
  <2> QED BY <2>1, <2>2, <2>3, Zenon
<1> DEFINE r == [cells |-> w, pos |-> p, state |-> s]
<1>8. r.cells = w /\ r.pos = p /\ r.state = s
  OBVIOUS
<1> HIDE DEF r
<1>9. Shows(r, text)
  <2>1. r.state = "going" => r.pos = Len(text)
    BY <1>4, <1>8
  <2>2. r.state = "going" => \A c \in Len(text) + 1 .. Room : r.cells[c] = NUL
    BY <1>8, <1>10
  <2> QED BY <1>4, <1>5, <1>6, <1>7, <1>8, <2>1, <2>2 DEF Shows
<1> QED BY <1>9 DEF r, w, text

(* One turn of the loop stays inside; behind its end nothing happens *)
LEMMA PutParamInside ==
    ASSUME NEW st, Inside(st), NEW i \in Nat \ {0}, NEW p \in Param
    PROVE  /\ Inside(PutParam(st, i, p))
           /\ st.state # "going" => PutParam(st, i, p) = st
<1> DEFINE s == Separate(st, i)
<1>1. Inside(s) /\ (st.state # "going" => s = st)
  BY SeparateInside
<1>2. p.n \in Nat /\ p.kind \in {"integer", "string", "blob"}
  BY DEF Param
<1>3. CASE s.state # "going"
  <2>1. PutParam(st, i, p) = s
    BY <1>3, Zenon DEF PutParam
  <2> QED BY <1>1, <2>1
<1>4. CASE s.state = "going"
  <2>1. PutParam(st, i, p) \in {PutInteger(s, i, p.n), PutString(s, i, p.n), PutBlob(s, i, p.n)}
    <3> HIDE DEF s
    <3>1. PutParam(st, i, p) = CASE p.kind = "integer" -> PutInteger(s, i, p.n)
           [] p.kind = "string"  -> PutString(s, i, p.n)
           [] p.kind = "blob"    -> PutBlob(s, i, p.n)
      BY <1>4, Zenon DEF PutParam, s
    <3> QED BY <1>2, <3>1
  <2>2. Inside(PutInteger(s, i, p.n)) /\ Inside(PutString(s, i, p.n)) /\ Inside(PutBlob(s, i, p.n))
    BY <1>1, <1>2, <1>4, PutInside
  <2> QED BY <1>1, <1>4, <2>1, <2>2
<1> QED BY <1>3, <1>4

(* printf prints what ret_string shows *)
LEMMA PrintedText ==
    ASSUME NEW st, Inside(st), NEW text, Shows(st, text)
    PROVE  Printed(st.cells) = text
<1> DEFINE I == {c \in 1 .. Len(st.cells) : st.cells[c] = NUL}
           first == Len(text) + 1
<1>1. Room \in Nat /\ st.cells \in Seq(Cell) /\ Len(st.cells) = Room
  BY RoomAssumption, InsideParts
<1>2. /\ text \in Seq(Mark) /\ Len(text) < Room /\ Len(text) \in Nat
      /\ \A c \in 1 .. Len(text) : st.cells[c] = text[c] /\ text[c] # NUL
      /\ st.cells[Len(text) + 1] = NUL
  BY DEF Shows, Mark
<1>3. first \in I /\ \A c \in I : first <= c
  BY <1>1, <1>2
<1>4. \A c \in I : c \in Int
  OBVIOUS
<1> HIDE DEF first
<1>5. SelectInSeq(st.cells, LAMBDA c : c = NUL) = first
  <2>1. SelectInSeq(st.cells, LAMBDA c : c = NUL) = IF I # {} THEN Min(I) ELSE 0
    BY DEF SelectInSeq
  <2>2. I # {}
    BY <1>3
  <2> HIDE DEF I
  <2>3. Min(I) = CHOOSE x \in I : \A y \in I : x <= y
    BY DEF Min
  <2>4. ASSUME NEW x \in I, \A y \in I : x <= y PROVE x = first
    BY <1>3, <1>4, <2>4
  <2> QED BY <1>3, <2>1, <2>2, <2>3, <2>4
<1>6. Printed(st.cells) = SubSeq(st.cells, 1, Len(text))
  <2>1. Printed(st.cells) = SubSeq(st.cells, 1, first - 1)
    BY <1>5, Zenon DEF Printed
  <2>2. first - 1 = Len(text)
    BY <1>2 DEF first
  <2> QED BY <2>1, <2>2
<1>7. SubSeq(st.cells, 1, Len(text)) = text
  BY <1>1, <1>2
<1> QED BY <1>6, <1>7

(* What separates the i-th parameter from those before it *)
LEMMA SeparateShows ==
    ASSUME NEW st, Inside(st), NEW text, Shows(st, text), st.state = "going",
           NEW i \in Nat \ {0}, i = 1 => text = <<>>,
           Separate(st, i).state # "failed"
    PROVE  /\ Separate(st, i).state = "going"
           /\ Lead(text, i) \in Seq(Mark) /\ Len(Lead(text, i)) < Room
           /\ Separate(st, i).pos = Len(Lead(text, i))
           /\ \A c \in 1 .. Len(Lead(text, i)) : Separate(st, i).cells[c] = Lead(text, i)[c]
           /\ \A c \in Len(Lead(text, i)) + 1 .. Room : Separate(st, i).cells[c] = NUL
<1> DEFINE old == Lead(text, i)
<1>1. /\ text \in Seq(Mark) /\ Len(text) \in Nat /\ Len(text) < Room /\ st.pos = Len(text)
      /\ \A c \in 1 .. Len(text) : st.cells[c] = text[c]
      /\ \A c \in Len(text) + 1 .. Room : st.cells[c] = NUL
  BY DEF Shows
<1>2. Room \in Nat /\ Space \in Mark /\ Space \in Cell
  BY RoomAssumption, FewMarks DEF Mark
<1>3. CASE i = 1
  <2>1. Separate(st, i) = st /\ old = <<>> /\ Len(old) = 0 /\ Len(text) = 0
    BY <1>3, SeparateInside DEF Lead
  <2> QED BY <1>1, <2>1
<1>4. CASE i # 1
  <2>1. /\ st.pos + 1 < Room - 1
        /\ Separate(st, i) = [cells |-> Write(st.cells, st.pos, <<Space>>), pos |-> st.pos + 1,
                              state |-> "going"]
    BY <1>4, SeparateInside
  <2>2. /\ old \in Seq(Mark) /\ Len(old) = Len(text) + 1 /\ old[Len(text) + 1] = Space
        /\ \A c \in 1 .. Len(text) : old[c] = text[c]
    BY <1>1, <1>2, <1>4 DEF Lead
  <2> DEFINE w == Write(st.cells, st.pos, <<Space>>)
  <2>3. \A c \in 1 .. Room :
           w[c] = IF c <= st.pos \/ c > st.pos + 1 THEN st.cells[c] ELSE <<Space>>[c - st.pos]
    <3>1. <<Space>> \in Seq(Cell) /\ Len(<<Space>>) = 1
      BY <1>2
    <3>2. st.cells \in Seq(Cell) /\ Len(st.cells) = Room /\ st.pos \in Nat
      BY InsideParts
    <3>3. st.pos + 1 <= Room
      BY <1>2, <2>1, <3>2
    <3> DEFINE one == <<Space>>
               cs == st.cells
               at == st.pos
    <3> HIDE DEF one, cs, at
    <3>4. /\ cs \in Seq(Cell) /\ Len(cs) = Room /\ at \in Nat
          /\ one \in Seq(Cell) /\ at + Len(one) <= Room
      BY <3>1, <3>2, <3>3 DEF one, cs, at
    <3>5. \A c \in 1 .. Room :
             Write(cs, at, one)[c] = IF c <= at \/ c > at + Len(one) THEN cs[c] ELSE one[c - at]
      BY <3>4, WriteCells
    <3>6. \A c \in 1 .. Room :
             Write(cs, at, one)[c] = IF c <= at \/ c > at + 1 THEN cs[c] ELSE one[c - at]
      <4>1. Len(one) = 1
        BY <3>1 DEF one
      <4> QED BY <3>4, <3>5, <4>1
    <3> QED BY <3>6, Zenon DEF one, cs, at, w
  <2> HIDE DEF w
  <2>4. ASSUME NEW c \in 1 .. Len(old) PROVE w[c] = old[c]
    <3>1. c \in 1 .. Room
      BY <1>1, <1>2, <2>1, <2>2
    <3>2. CASE c \in 1 .. Len(text)
      BY <1>1, <2>2, <2>3, <3>1, <3>2
    <3>3. CASE c = Len(text) + 1
      <4>1. ~(c <= st.pos \/ c > st.pos + 1) /\ c - st.pos = 1 /\ <<Space>>[1] = Space
        BY <1>1, <3>3
      <4> QED BY <2>2, <2>3, <3>1, <3>3, <4>1
    <3> QED BY <1>1, <2>2, <3>2, <3>3
  <2>5. Separate(st, i).cells = w /\ Separate(st, i).pos = st.pos + 1 /\ Separate(st, i).state = "going"
    BY <2>1 DEF w
  <2>6. Len(old) < Room
    BY <1>1, <1>2, <2>1, <2>2
  <2>7. ASSUME NEW c \in Len(old) + 1 .. Room PROVE w[c] = NUL
    <3>1. c \in 1 .. Room /\ c \in Len(text) + 1 .. Room /\ c > st.pos + 1
      BY <1>1, <1>2, <2>2
    <3>2. w[c] = st.cells[c]
      BY <2>3, <3>1
    <3> QED BY <1>1, <3>1, <3>2
  <2> QED BY <1>1, <2>2, <2>4, <2>5, <2>6, <2>7
<1> QED BY <1>3, <1>4

(* One turn of the loop shows one parameter more *)
LEMMA PutParamShows ==
    ASSUME NEW st, Inside(st), NEW text, Shows(st, text), st.state = "going",
           NEW i \in Nat \ {0}, i = 1 => text = <<>>,
           NEW p \in Param, p.kind = "integer" => i = 1, p.kind = "string" => p.n > 0,
           PutParam(st, i, p).state # "failed"
    PROVE  /\ Shows(PutParam(st, i, p), Lead(text, i) \o Shown(i, p))
           /\ PutParam(st, i, p).state = "stopped" => p.kind = "string"
<1> DEFINE s == Separate(st, i)
           old == Lead(text, i)
           n == p.n
<1>1. n \in Nat /\ p.kind \in {"integer", "string", "blob"}
  BY DEF Param
<1>2. Inside(s)
  BY SeparateInside
<1>3. s.state # "failed"
  <2> SUFFICES ASSUME s.state = "failed" PROVE FALSE
    OBVIOUS
  <2>1. PutParam(st, i, p) = s
    BY Zenon DEF PutParam
  <2> QED BY <2>1
<1>4. s.state = "going" /\ old \in Seq(Mark) /\ s.pos = Len(old) /\ Len(old) < Room
  BY <1>3, SeparateShows
<1>5. \A c \in 1 .. Len(old) : s.cells[c] = old[c]
  BY <1>3, SeparateShows
<1>13. \A c \in Len(old) + 1 .. Room : s.cells[c] = NUL
  BY <1>3, SeparateShows
<1>6. PutParam(st, i, p) = CASE p.kind = "integer" -> PutInteger(s, i, n)
                             [] p.kind = "string"  -> PutString(s, i, n)
                             [] p.kind = "blob"    -> PutBlob(s, i, n)
  BY <1>4, Zenon DEF PutParam
<1>7. i = 1 => old = <<>> /\ Len(old) = 0
  <2>1. i = 1 => old = <<>>
    BY Zenon DEF Lead
  <2> QED BY <2>1
<1>8. NUL \in Cell /\ Quote \in Mark /\ Quote \in Cell /\ Room \in Nat /\ Len(old) \in Nat
  BY <1>4, FewMarks, RoomAssumption DEF Mark
<1>9. \A k \in Nat : Chars(i, k) \in Seq(Mark) /\ Chars(i, k) \in Seq(Cell) /\ Len(Chars(i, k)) = k
  BY CharsMarks
<1> HIDE DEF s, old, n
<1>10. CASE p.kind = "integer"
  <2> DEFINE add == Chars(i, n)
             new == Append(add, NUL)
  <2>1. PutParam(st, i, p) = PutInteger(s, i, n) /\ Shown(i, p) = add /\ s.pos = 0
    BY <1>4, <1>6, <1>7, <1>10 DEF Shown, n
  <2>2. /\ s.pos + n < Room - 1
        /\ PutInteger(s, i, n) = [cells |-> Write(s.cells, 0, new), pos |-> s.pos + n, state |-> "going"]
    BY <1>1, <1>2, <1>4, <2>1, PutInside
  <2>3. add \in Seq(Mark) /\ Len(add) = n
    BY <1>1, <1>9
  <2>4. /\ new \in Seq(Cell) /\ Len(new) = Len(add) + 1 /\ new[Len(add) + 1] = NUL
        /\ \A c \in 1 .. Len(add) : new[c] = add[c]
    <3>1. add \in Seq(Cell)
      BY <1>1, <1>9
    <3> HIDE DEF add
    <3> QED BY <1>8, <3>1
  <2> HIDE DEF add, new
  <2>5. Len(old) + Len(new) < Room /\ s.pos + n = Len(old) + Len(add) /\ Len(old) = 0
    BY <1>1, <1>4, <1>8, <2>1, <2>2, <2>3, <2>4
  <2>6. Shows([cells |-> Write(s.cells, Len(old), new), pos |-> s.pos + n, state |-> "going"], old \o add)
    BY <1>2, <1>4, <1>5, <1>13, <2>3, <2>4, <2>5, WriteShows
  <2>7. PutParam(st, i, p).state = "going"
    BY <2>1, <2>2
  <2> QED BY <2>1, <2>2, <2>5, <2>6, <2>7 DEF old
<1>11. CASE p.kind = "string"
  <2> DEFINE add == <<Quote>> \o Chars(i, n - 1) \o <<Quote>>
             new == Quoted(i, n)
  <2>1. PutParam(st, i, p) = PutString(s, i, n) /\ Shown(i, p) = add
    BY <1>6, <1>11 DEF Shown, n
  <2>2. /\ s.pos + n + 2 < Room - 1
        /\ PutString(s, i, n) = [cells |-> Write(s.cells, s.pos, new), pos |-> s.pos, state |-> "stopped"]
    <3>1. PutString(s, i, n).state # "failed"
      BY <2>1, Zenon
    <3> QED BY <1>1, <1>2, <1>4, <3>1, PutInside, Zenon
  <2>3. /\ add \in Seq(Mark) /\ Len(add) = n + 1
        /\ new \in Seq(Cell) /\ Len(new) = n + 2 /\ new[n + 2] = NUL
        /\ \A c \in 1 .. n + 1 : new[c] = add[c]
    <3>1. n \in Nat \ {0} /\ n - 1 \in Nat
      BY <1>1, <1>11 DEF n
    <3> DEFINE mid == Chars(i, n - 1)
    <3>6. new = <<Quote>> \o mid \o <<Quote, NUL>>
      BY <3>1, Zenon DEF Quoted
    <3>2. mid \in Seq(Mark) /\ mid \in Seq(Cell) /\ Len(mid) = n - 1
      BY <1>9, <3>1
    <3> HIDE DEF mid
    <3>3. /\ <<Quote>> \o mid \o <<Quote>> \in Seq(Mark) /\ Len(<<Quote>> \o mid \o <<Quote>>) = n + 1
          /\ <<Quote>> \o mid \o <<Quote, NUL>> \in Seq(Cell)
          /\ Len(<<Quote>> \o mid \o <<Quote, NUL>>) = n + 2
      BY <1>8, <3>1, <3>2
    <3>4. (<<Quote>> \o mid \o <<Quote, NUL>>)[n + 2] = NUL
      BY <1>8, <3>1, <3>2
    <3>5. \A c \in 1 .. n + 1 :
             (<<Quote>> \o mid \o <<Quote, NUL>>)[c] = (<<Quote>> \o mid \o <<Quote>>)[c]
      BY <1>8, <3>1, <3>2
    <3> QED BY <3>3, <3>4, <3>5, <3>6 DEF mid
  <2> HIDE DEF add, new
  <2>4. /\ Len(new) = Len(add) + 1 /\ new[Len(add) + 1] = NUL
        /\ \A c \in 1 .. Len(add) : new[c] = add[c]
        /\ Len(old) + Len(new) < Room
    BY <1>1, <1>4, <1>8, <2>2, <2>3
  <2>5. Shows([cells |-> Write(s.cells, Len(old), new), pos |-> s.pos, state |-> "stopped"], old \o add)
    BY <1>2, <1>4, <1>5, <2>3, <2>4, WriteShows
  <2> QED BY <1>4, <1>11, <2>1, <2>2, <2>5 DEF old
<1>12. CASE p.kind = "blob"
  <2> DEFINE add == Chars(i, n * 2)
             new == Digits(i, n)
  <2>1. PutParam(st, i, p) = PutBlob(s, i, n) /\ Shown(i, p) = add
    BY <1>6, <1>12 DEF Shown, n
  <2>2. /\ s.pos + n * 2 < Room - 1
        /\ PutBlob(s, i, n) = [cells |-> Write(s.cells, s.pos, new), pos |-> s.pos + n * 2, state |-> "going"]
    <3>1. PutBlob(s, i, n).state # "failed"
      BY <2>1, Zenon
    <3> QED BY <1>1, <1>2, <1>4, <3>1, PutInside, Zenon
  <2>3. add \in Seq(Mark) /\ Len(add) = n * 2
    BY <1>1, <1>9
  <2>7. PutParam(st, i, p).state = "going"
    BY <2>1, <2>2
  <2>4. CASE n # 0
    <3>1. /\ new \in Seq(Cell) /\ Len(new) = Len(add) + 1 /\ new[Len(add) + 1] = NUL
          /\ \A c \in 1 .. Len(add) : new[c] = add[c]
      <4>1. add \in Seq(Cell) /\ new = Append(add, NUL)
        BY <1>1, <1>9, <2>4 DEF Digits
      <4> HIDE DEF add, new
      <4> QED BY <1>8, <4>1
    <3> HIDE DEF add, new
    <3>2. Len(old) + Len(new) < Room /\ s.pos + n * 2 = Len(old) + Len(add)
      BY <1>1, <1>4, <1>8, <2>2, <2>3, <3>1
    <3>3. Shows([cells |-> Write(s.cells, Len(old), new), pos |-> s.pos + n * 2, state |-> "going"], old \o add)
      BY <1>2, <1>4, <1>5, <1>13, <2>3, <3>1, <3>2, WriteShows
    <3> QED BY <1>4, <2>1, <2>2, <2>7, <3>3 DEF old
  <2>5. CASE n = 0
    <3>1. add = <<>> /\ new = <<>>
      <4>1. Len(add) = 0
        BY <2>3, <2>5
      <4> QED BY <2>3, <2>5, <4>1 DEF Digits
    <3> HIDE DEF add, new
    <3> DEFINE w == Write(s.cells, s.pos, <<>>)
    <3>2. \A c \in 1 .. Room : w[c] = s.cells[c]
      <4>1. s.cells \in Seq(Cell) /\ Len(s.cells) = Room /\ s.pos \in Nat /\ s.pos <= Room
        BY <1>2, <1>8, InsideParts
      <4> QED BY <4>1, WriteNothing
    <3> HIDE DEF w
    <3> DEFINE r == [cells |-> w, pos |-> s.pos, state |-> "going"]
    <3>3. r.cells = w /\ r.pos = Len(old)
      BY <1>4
    <3> HIDE DEF r
    <3>4. Len(old) + 1 \in 1 .. Room /\ Len(old) + 1 \in Len(old) + 1 .. Room
      BY <1>4, <1>8
    <3>5. \A c \in 1 .. Len(old) : c \in 1 .. Room
      BY <1>4, <1>8
    <3>6. \A c \in Len(old) + 1 .. Room : c \in 1 .. Room
      BY <1>4, <1>8
    <3>7. Shows(r, old)
      BY <1>4, <1>5, <1>13, <3>2, <3>3, <3>4, <3>5, <3>6 DEF Shows
    <3>8. old \o add = old
      BY <1>4, <3>1
    <3>9. PutParam(st, i, p) = r
      <4>1. s.pos + n * 2 = s.pos
        BY <1>4, <1>8, <2>5
      <4> QED BY <2>1, <2>2, <3>1, <4>1 DEF r, w
    <3> QED BY <2>1, <2>7, <3>7, <3>8, <3>9 DEF old
  <2> QED BY <2>4, <2>5
<1> QED BY <1>1, <1>10, <1>11, <1>12

(* After every turn of the loop ret_string has its last NUL, and it shows  *)
(* the parameters so far of a message that can be shown                    *)
LEMMA PrintsShow ==
    ASSUME NEW m \in Seq(Param), NEW n \in 0 .. Len(m)
    PROVE  /\ Inside(Prints(m)[n])
           /\ Showable(m) /\ Prints(m)[n].state # "failed" =>
                 /\ Shows(Prints(m)[n], Texts(m)[n])
                 /\ Prints(m)[n].state = "stopped" => n = Len(m)
<1> DEFINE Good(k) ==
              /\ Inside(Prints(m)[k])
              /\ Showable(m) /\ Prints(m)[k].state # "failed" =>
                    /\ Shows(Prints(m)[k], Texts(m)[k])
                    /\ Prints(m)[k].state = "stopped" => k = Len(m)
           S == {k \in Nat : k <= Len(m) => Good(k)}
<1>1. 0 \in S
  <2>1. Prints(m)[0] = Start /\ Texts(m)[0] = <<>>
    BY PrintsUnfold, TextsUnfold
  <2>2. Start.state = "going"
    BY DEF Start
  <2>3. Good(0)
    BY <2>1, <2>2, StartInside
  <2> QED BY <2>3
<1>2. ASSUME NEW k \in Nat, k \in S PROVE k + 1 \in S
  <2> SUFFICES ASSUME k + 1 <= Len(m) PROVE Good(k + 1)
    OBVIOUS
  <2> DEFINE st == Prints(m)[k]
             p == m[k + 1]
             i == k + 1
  <2>1. Good(k) /\ k < Len(m) /\ i \in 1 .. Len(m) /\ i \in Nat \ {0} /\ p \in Param /\ i - 1 = k
    BY <1>2
  <2>2. Prints(m)[i] = PutParam(st, i, p)
    BY <2>1, PrintsUnfold
  <2>3. Texts(m)[i] = Lead(Texts(m)[k], i) \o Shown(i, p)
    BY <2>1, TextsUnfold
  <2>4. i = 1 => Texts(m)[k] = <<>>
    <3>1. i = 1 => k = 0
      BY <2>1
    <3> QED BY <3>1, TextsUnfold
  <2>5. Inside(st)
    BY <2>1
  <2> HIDE DEF st, p, i
  <2>6. Inside(PutParam(st, i, p)) /\ (st.state # "going" => PutParam(st, i, p) = st)
    BY <2>1, <2>5, PutParamInside
  <2>7. ASSUME Showable(m), PutParam(st, i, p).state # "failed"
        PROVE  /\ Shows(PutParam(st, i, p), Texts(m)[i])
               /\ PutParam(st, i, p).state = "stopped" => i = Len(m)
    <3>1. st.state = "going"
      <4>1. st.state # "failed"
        BY <2>6, <2>7
      <4>2. st.state # "stopped"
        BY <2>1, <2>7, <4>1 DEF st
      <4> QED BY <2>5, <4>1, <4>2, InsideParts
    <3>2. Shows(st, Texts(m)[k])
      BY <2>1, <2>7, <3>1 DEF st
    <3>3. (p.kind = "integer" => i = 1) /\ (p.kind = "string" => i = Len(m) /\ p.n > 0)
      BY <2>1, <2>7 DEF Showable, p, i
    <3>4. /\ Shows(PutParam(st, i, p), Lead(Texts(m)[k], i) \o Shown(i, p))
          /\ PutParam(st, i, p).state = "stopped" => p.kind = "string"
      BY <2>1, <2>4, <2>5, <2>7, <3>1, <3>2, <3>3, PutParamShows
    <3> QED BY <2>3, <3>3, <3>4
  <2>8. Good(i)
    BY <2>2, <2>6, <2>7
  <2> QED BY <2>8 DEF i
<1>3. Nat \subseteq S
  <2> HIDE DEF S
  <2> QED BY <1>1, <1>2, SetInduction
<1> QED BY <1>3

(* The end of main prints, once *)
LEMMA TextInvNext ==
    ASSUME HeardInv, TextIsWhole, output # Nothing => pc = "done", [Next]_vars
    PROVE  TextIsWhole' /\ (output' # Nothing => pc' = "done")
<1>1. CASE Finish /\ Succeeds
  <2>1. pc' = "done" /\ heard' = heard /\ output' = Printing(Parsed(outBuffer)).cells
    BY <1>1 DEF Finish
  <2>2. heard # Nothing /\ outBuffer = heard.body /\ heard.body \in Seq(Param)
    BY <1>1, ToolConstants DEF Succeeds, HeardInv, Message
  <2>3. Parsed(heard.body) \in Seq(Param)
    BY <2>2 DEF Parsed
  <2>4. Inside(Printing(Parsed(heard.body)))
    BY <2>3, PrintsShow DEF Printing
  <2>5. ASSUME Showable(heard.body), Len(heard.body) <= IPC_SEND_MAX_PARAMS
        PROVE  Printed(output') = WholeText(heard.body)
    <3>1. Parsed(heard.body) = heard.body
      BY <2>2, <2>5, ToolConstants DEF Parsed
    <3>2. Printing(heard.body).state # "failed"
      BY <1>1, <2>2, <3>1 DEF Succeeds
    <3>3. Shows(Printing(heard.body), WholeText(heard.body))
      BY <2>2, <2>5, <3>2, PrintsShow DEF Printing, WholeText
    <3> QED BY <2>1, <2>2, <2>4, <3>1, <3>3, PrintedText
  <2>6. Len(output') = Room /\ output'[Room] = NUL
    BY <2>1, <2>2, <2>4, InsideParts
  <2> QED BY <2>1, <2>5, <2>6 DEF TextIsWhole, TextStaysInside, ShowsWholeMessage
<1>2. CASE output' = output /\ heard' = heard /\ (pc = "done" => pc' = "done")
  BY <1>2 DEF TextIsWhole, TextStaysInside, ShowsWholeMessage
<1>3. CASE output' = output /\ pc # "done"
  BY <1>3 DEF TextIsWhole, TextStaysInside, ShowsWholeMessage
<1>4. \/ Finish /\ Succeeds
      \/ output' = output /\ heard' = heard /\ (pc = "done" => pc' = "done")
      \/ output' = output /\ pc # "done"
  BY DEF Next, ToolStep, Ended, ParseOption, OptionsDone, Usage, NewBase, OpenFails, Open,
         Wrapper, OnAnswer, OnMessage, OnOther, Reads, OnEnd, RequestTimesOut, GuardFires,
         LeaveLoop, Finish, ServerSends, ServerLeaves, vars, result
<1> QED BY <1>1, <1>2, <1>3, <1>4

(* What main prints stays inside ret_string, for every message and every   *)
(* size of it, and a message that has its only integer first and its only  *)
(* string last is printed whole: all parameters, in order, with one space  *)
(* between two of them.                                                    *)
THEOREM PrintedWhole == Spec => []TextIsWhole
<1> DEFINE Inv == TextIsWhole /\ (output # Nothing => pc = "done")
<1>1. Init => Inv
  BY DEF Init, TextIsWhole, TextStaysInside, ShowsWholeMessage
<1>2. HeardInv /\ Inv /\ [Next]_vars => Inv'
  BY TextInvNext
<1> QED BY <1>1, <1>2, HeardInvInit, HeardInvNext, PTL DEF Spec

=============================================================================

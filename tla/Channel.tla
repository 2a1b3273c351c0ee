------------------------------ MODULE Channel ------------------------------
(***************************************************************************)
(* ClientServerChannel: how messages are framed on the byte stream from    *)
(* the ambassador, and how the read methods take them off it, one recv()   *)
(* after the other, while the bytes arrive and the ambassador may die      *)
(* between any two of them.                                                *)
(*                                                                         *)
(* A message is its length, in digits of Base with the lowest first and a  *)
(* flag on each but the last, and then its body.  A byte has the value     *)
(* that recv() returns, and a note, which the code cannot see, of the      *)
(* message and the place it was written for.  What the bytes of a body are *)
(* is for protobuf to say: they are all BodyByte, which would do as a      *)
(* length too.  That none is ever taken for one is property InStep.        *)
(***************************************************************************)
EXTENDS Readers, Integers, Sequences

CONSTANTS
    Base,       \* values of a prefix byte without its flag (code: 128)
    MaxPrefix,  \* the most bytes a prefix may have (code: 4)
    Lengths,    \* lengths of messages
    MaxMessages \* bound: messages the ambassador writes

ASSUME ChannelAssumption ==
    /\ Base \in Nat /\ Base > 1
    /\ MaxPrefix \in Nat \ {0}
    /\ Lengths \subseteq 1 .. (Base ^ MaxPrefix - 1)
    /\ MaxMessages \in Nat

(* What ^ is, which the provers do not know of themselves. *)
ASSUME PowersAssumption ==
    /\ Base ^ 0 = 1
    /\ \A k \in 1 .. MaxPrefix : Base ^ k = Base * Base ^ (k - 1)

VARIABLES
    log,        \* the messages written so far
    sending,    \* bytes written and not yet arrived
    wire,       \* bytes arrived and not yet received
    closed      \* the ambassador's end is closed

VARIABLES
    reader,     \* the read method that is being called
    step,       \* "first" or "more" in readVarintPrefix, "body" after it
    count,      \* num_bytes
    size,       \* return_value of readVarintPrefix, then message_size
    got,        \* calls that have returned a message, or what there was of it
    result      \* what the last call returned

writerVars == <<log, sending, closed>>
readerVars == <<reader, step, count, size, got, result>>
vars == <<writerVars, wire, readerVars>>

Init ==
    /\ log = <<>>
    /\ sending = <<>>
    /\ wire = <<>>
    /\ closed = FALSE
    /\ reader = "readCommand"
    /\ step = "first"
    /\ count = 0
    /\ size = 0
    /\ got = 0
    /\ result = WholeResult("readCommand")

-----------------------------------------------------------------------------
(* The ambassador, which frames its messages as the write methods do *)

BodyByte == 1

(* VarintSize32: the number of digits of n, without leading zeros. *)
VarintSize(n) == CHOOSE k \in 1 .. MaxPrefix :
                    n < Base ^ k /\ (k > 1 => n >= Base ^ (k - 1))

Digit(n, i) == (n \div Base ^ (i - 1)) % Base

(* The bytes of message number m, of length n. *)
Frame(m, n) ==
    LET k == VarintSize(n)
    IN  [i \in 1 .. k + n |->
           [value |-> IF i > k THEN BodyByte
                      ELSE Digit(n, i) + (IF i < k THEN Base ELSE 0),
            of |-> m, at |-> i, length |-> n,
            part |-> IF i > k THEN "body" ELSE "prefix"]]

(* The method that is to read the next message. *)
Due == IF log = <<>> THEN "readCommand" ELSE log[Len(log)].next

(* A command, or the message that belongs to the command before it. *)
Write ==
    /\ ~closed
    /\ sending = <<>>
    /\ Len(log) < MaxMessages
    /\ \E next \in IF Due = "readCommand" THEN Readers ELSE {"readCommand"} :
          log' = Append(log, [reader |-> Due, next |-> next])
    /\ \E n \in Lengths : sending' = Frame(Len(log) + 1, n)
    /\ UNCHANGED <<closed, wire, readerVars>>

(* Bytes arrive one by one: TCP keeps no boundaries. *)
Arrive ==
    /\ ~closed
    /\ sending # <<>>
    /\ wire' = Append(wire, Head(sending))
    /\ sending' = Tail(sending)
    /\ UNCHANGED <<log, closed, readerVars>>

(* The ambassador is gone, at the end of a message or within one. *)
Close ==
    /\ ~closed
    /\ closed' = TRUE
    /\ UNCHANGED <<log, sending, wire, readerVars>>

-----------------------------------------------------------------------------
(* The federate: recv() of one byte at a time, in readVarintPrefix *)

(* recv() of one byte: it waits for a byte, or for the end of the stream,  *)
(* where it leaves one of the values in place and fails unnoticed, since   *)
(* its result is kept as an unsigned number and compared with 0.           *)
ReceiveByte(value, inPlace) ==
    \/ wire # <<>> /\ value = Head(wire).value /\ wire' = Tail(wire)
    \/ wire = <<>> /\ closed /\ value \in inPlace /\ UNCHANGED wire

Values == 0 .. (2 * Base - 1)

(* The flag of a byte tells whether another one follows. *)
StepAfter(value) == IF value >= Base THEN "more" ELSE "body"

(* current_byte has not been initialized. *)
ReadFirst ==
    /\ step = "first"
    /\ \E value \in Values :
          /\ ReceiveByte(value, Values)
          /\ size' = value % Base
          /\ step' = StepAfter(value)
    /\ count' = 1
    /\ UNCHANGED <<writerVars, reader, got, result>>

(* Mutant: each digit is weighed as if it were the next one. *)
Weighed_Next(value) == (value % Base) * Base ^ (count + 1)

(* What the next byte adds to the size. *)
Weighed(value) == (value % Base) * Base ^ count

(* current_byte has been set to 0.  A fifth byte, which makes the prefix   *)
(* invalid, is left out: nobody sends messages of such a length.           *)
ReadMore ==
    /\ step = "more"
    /\ count < MaxPrefix
    /\ \E value \in Values :
          /\ ReceiveByte(value, {0})
          /\ size' = size + Weighed(value)
          /\ step' = StepAfter(value)
    /\ count' = count + 1
    /\ UNCHANGED <<writerVars, reader, got, result>>

-----------------------------------------------------------------------------
(* recv() of the message *)

(* Mutant: recv() does not wait for the whole message. *)
Available_Some == wire # <<>> \/ closed

(* Mutant: recv() waits for one byte more. *)
Available_Beyond == Len(wire) > size \/ closed

(* MSG_WAITALL: all of the message is there, or the stream has ended. *)
Available == Len(wire) >= size \/ closed

(* readCommand tries once more, and the stream is still at its end. *)
CommandResult(n) ==
    IF n = size /\ n > 0 THEN WholeResult(reader) ELSE Result(reader, "undef", FALSE)

(* readUpdateNode gives up on a short message, and accepts an empty one. *)
UpdateNodeResult(n) ==
    CASE n < size -> Result(reader, "untouched", FALSE)
      [] n = 0 /\ size = 0 -> Result(reader, "default", TRUE)
      [] OTHER -> WholeResult(reader)

(* The other methods parse what is in the buffer, received or not. *)
ParsedResult(n) ==
    CASE n = 0 -> Result(reader, "default", TRUE)
      [] n > 0 /\ n < size -> Result(reader, "partial", TRUE)
      [] OTHER -> WholeResult(reader)

(* What the method makes of n bytes of a message it takes to have size. *)
ResultOf(n) ==
    CASE reader = "readCommand" -> CommandResult(n)
      [] reader = "readUpdateNode" -> UpdateNodeResult(n)
      [] OTHER -> ParsedResult(n)

(* Messages of which a byte has arrived. *)
Arrived == IF sending # <<>> /\ Head(sending).at = 1 THEN Len(log) - 1
                                                     ELSE Len(log)

(* Mutant: the caller repeats a call that failed. *)
ReaderAfter_Stays(whole) == IF whole THEN log[got + 1].next ELSE reader

(* The caller, receiveInteractions or connectToAmbassador, goes on with    *)
(* the method that belongs to the command, or with the next command.       *)
ReaderAfter(whole) == IF whole THEN log[got + 1].next ELSE "readCommand"

(* The message is received and the call returns. *)
ReadBody ==
    /\ step = "body"
    /\ Available
    /\ LET n == IF Len(wire) < size THEN Len(wire) ELSE size
       IN  /\ wire' = SubSeq(wire, n + 1, Len(wire))
           /\ result' = ResultOf(n)
           /\ reader' = ReaderAfter(n = size /\ n > 0)
    /\ got' = IF got < Arrived THEN got + 1 ELSE got
    /\ step' = "first"
    /\ count' = 0
    /\ size' = 0
    /\ UNCHANGED writerVars

Read == ReadFirst \/ ReadMore \/ ReadBody

Next ==
    \/ Write
    \/ Arrive
    \/ Close
    \/ Read

Spec == Init /\ [][Next]_vars

(* What is written arrives, and somebody keeps calling the read methods:   *)
(* the scheduler does whenever it holds no grant.                          *)
FairSpec == Spec /\ WF_vars(Arrive) /\ WF_vars(Read)

-----------------------------------------------------------------------------
(* Properties *)

Byte == [value : Values, of : Nat, at : Nat, length : Nat, part : {"prefix", "body"}]
Contents == {"whole", "partial", "default", "untouched", "undef"}

(* The type invariant: the stream consists of bytes, and the locals of the *)
(* read methods have the values of their types.                            *)
TypeOK ==
    /\ log \in Seq(Message)
    /\ sending \in Seq(Byte)
    /\ wire \in Seq(Byte)
    /\ closed \in BOOLEAN
    /\ reader \in Readers
    /\ step \in {"first", "more", "body"}
    /\ count \in 0 .. MaxPrefix
    /\ size \in 0 .. (Base ^ MaxPrefix - 1)
    /\ got \in Nat
    /\ result \in [reader : Readers, content : Contents, success : BOOLEAN]

(* The reader keeps in step with the writer, over messages of any lengths, *)
(* however the bytes arrive and wherever the stream ends: a byte of a body *)
(* is never taken for one of a length, a message is received to its last   *)
(* byte and no further, and by the method it was written for.              *)
InStep ==
    wire # <<>> =>
       LET byte == Head(wire)
       IN  /\ byte.of = got + 1
           /\ reader = log[got + 1].reader
           /\ step # "body" => byte.part = "prefix" /\ byte.at = count + 1
           /\ step = "body" =>
                 /\ byte.part = "body"
                 /\ \A i \in DOMAIN wire : wire[i].of = got + 1 <=> i <= size

(* The messages that can still be received, or a part of them. *)
Queue == SubSeq(log, got + 1, IF closed THEN Arrived ELSE Len(log))

(* The end of the last of them never arrives. *)
Cut == closed /\ sending # <<>> /\ Head(sending).at > 1 /\ got < Len(log)

(* To its callers the channel is a queue of whole messages, until the      *)
(* ambassador goes; then a method's result is one that Readers lists.      *)
Pipe == INSTANCE MessagePipe
          WITH queue <- Queue, ended <- closed, cut <- Cut, asked <- reader
ImplementsPipe == Pipe!Spec

(* A message is read in the end, without another one having to follow.     *)
EveryMessageRead ==
    \A n \in 1 .. MaxMessages : Len(log) >= n ~> got >= n \/ closed

(* Whatever method is being called when the ambassador goes, within or     *)
(* between messages: readCommand is called in the end and says CMD_UNDEF.  *)
EndNoticed == closed ~> result.content = "undef"
=============================================================================

------------------------------ MODULE Readers ------------------------------
(***************************************************************************)
(* What the read methods of ClientServerChannel hand to their callers.     *)
(*                                                                         *)
(* A result is the method, what it filled its return value with, and       *)
(* whether it reported success.  Of the content only the origin is kept:   *)
(*   whole      the message that was written                               *)
(*   partial    the bytes of a message that were there, then zeros         *)
(*   default    no byte at all: every field has its default value          *)
(*   untouched  the caller's struct as it was: uninitialized               *)
(*   undef      CMD_UNDEF                                                  *)
(*                                                                         *)
(* Channel shows that these are the results, from the code that reads the  *)
(* bytes; modules that keep whole messages on the wire use the sets below. *)
(***************************************************************************)

(* Each command, and the method that reads what comes after it. *)
NextReader ==
    [INIT |-> "readInit",
     UPDATE_NODE |-> "readUpdateNode",
     ADVANCE_TIME |-> "readTimeMessage",
     MSG_SEND |-> "readSendMessage",
     CONF_RADIO |-> "readConfigurationMessage",
     SHUT_DOWN |-> "readCommand"]

ProtoCommands == DOMAIN NextReader
Readers == {NextReader[c] : c \in ProtoCommands}

(* A message, as far as it decides what is called when: the method that is *)
(* to read it, and the one that its reader's caller calls next.            *)
Message == [reader : Readers, next : Readers]

Result(reader, content, success) ==
    [reader |-> reader, content |-> content, success |-> success]

(* The bytes of the message have all been there. *)
WholeResult(reader) == Result(reader, "whole", TRUE)

(* The stream has ended within the message.  Only readUpdateNode and       *)
(* readCommand look at the number of bytes they got.                       *)
CutResults(reader) ==
    CASE reader = "readCommand" -> {Result(reader, "undef", FALSE)}
      [] reader = "readUpdateNode" ->
            {Result(reader, "untouched", FALSE), Result(reader, "default", TRUE)}
      [] OTHER ->
            {Result(reader, "partial", TRUE), Result(reader, "default", TRUE)}

(* The stream has ended before the message: the size that is read is that  *)
(* of an uninitialized byte.                                               *)
EndResults(reader) ==
    CutResults(reader) \ {Result(reader, "partial", TRUE)}
=============================================================================

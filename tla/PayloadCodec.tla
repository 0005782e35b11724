--------------------------- MODULE PayloadCodec ---------------------------
(***************************************************************************)
(* What the payload of a task is in Redis, and who can read it             *)
(* (internal/tasks/codec.go, types.go).  The format is a setting of the    *)
(* process, not of the payload: the bytes carry no mark of their format.   *)
(*                                                                         *)
(* All payload types have the same shape here: the texts that the handler  *)
(* will act on, those of them that have a number, the number (a user, a    *)
(* width, a status code; zero for the others), and a count.                *)
(***************************************************************************)
EXTENDS Integers

CONSTANTS
    Texts,          \* what payloads may say
    NoText,         \* the empty string
    Half            \* 2^31

ASSUME CodecAssumption == Half \in Nat \ {0} /\ NoText \in Texts

Formats == {"json", "proto"}

Contents ==
    [texts : SUBSET Texts, numbered : SUBSET Texts, num : [Texts -> Int], count : Int]

\* The bytes of an all-zero Protobuf message, and a nil payload, are no bytes at all.
Payloads == [enc : Formats \cup {"empty", "garbage"}, content : Contents]

\* The content of a function from texts to their numbers, and a count.
Lines(num, n) ==
    [texts |-> DOMAIN num, numbered |-> DOMAIN num,
     num |-> [m \in Texts |-> IF m \in DOMAIN num THEN num[m] ELSE 0], count |-> n]

Single(text, n) == Lines([m \in {text} |-> n], 0)
Zero == Single(NoText, 0)
Nil == [enc |-> "empty", content |-> Zero]

\* The formats a process runs with when its setting is one of those given: nothing is
\* JSON, and a process with any other setting does not start.
SetPayloadFormat(settings) ==
    {f \in Formats : f \in settings \/ (f = "json" /\ "" \in settings)}

\* Mutant of Int32: the conversion is to an unsigned integer.
Uint32(n) == n % (2 * Half)

Int32(n) == ((n + Half) % (2 * Half)) - Half

Fits(n) == n \in -Half .. Half - 1

ToProto(c) ==
    [c EXCEPT !.num = [m \in Texts |-> Int32(c.num[m])], !.count = Int32(@)]

Marshal(f, c) ==
    IF f = "json" THEN [enc |-> "json", content |-> c]
    ELSE [enc |-> IF ToProto(c) = Zero THEN "empty" ELSE "proto", content |-> ToProto(c)]

\* json.Unmarshal refuses Protobuf and no bytes; proto.Unmarshal refuses JSON, whose
\* opening brace begins a group of field 15 that the text does not end.
Readable(f, p) == p.enc = f \/ (f = "proto" /\ p.enc = "empty")
=============================================================================

------------------------------- MODULE Codec -------------------------------
(***************************************************************************)
(* The binary containers of events, commands, replies and streams          *)
(* (event_encoding.go, command_encoding.go, reply_encoding.go,             *)
(* stream_encoding.go).                                                    *)
(*                                                                         *)
(* A container is a sequence of chunks, each with its width in bytes.  The *)
(* sizes of names and payloads come first, so a reader knows the width of  *)
(* every chunk before it reads it.  A text or a payload is abstracted to   *)
(* the field it belongs to and its length.                                 *)
(***************************************************************************)
EXTENDS Integers, Sequences

CONSTANTS
  NameSizes,     \* bound: lengths of names (at least 1)
  PayloadSizes   \* bound: lengths of encoded payloads, states and errors

MaxSize == 2147483647  \* bound: sizes, so that the 4 bytes of a size field hold them

ASSUME SizesAssumption ==
  /\ NameSizes \subseteq 1..MaxSize
  /\ PayloadSizes \subseteq 0..MaxSize

Kinds == {"event", "command", "stream", "reply"}

\* A payload is a user's value, or the error of a reply; it may be missing.
Absence == -1
Payloads == {Absence} \union PayloadSizes

VARIABLES
  kind, nameSize, streamSize, payload,  \* what is encoded
  registered,  \* whether the payload's codec is registered, at both ends
  reader,      \* the kind of container the reader expects
  result       \* "none", "error", or what was decoded

vars == <<kind, nameSize, streamSize, payload, registered, reader, result>>

-----------------------------------------------------------------------------
(***************************************************************************)
(* Writing.                                                                *)
(***************************************************************************)
EventWrites ==
  <<"magic", "payloadSize", "nameSize", "streamSize", "id", "streamID",
    "name", "streamName", "createdAt", "version", "payload">>

CommandWrites ==
  <<"magic", "payloadSize", "nameSize", "streamSize", "id", "streamID",
    "name", "streamName", "createdAt", "payload">>

StreamWrites ==
  <<"magic", "payloadSize", "nameSize", "id", "name", "version", "updatedAt", "payload">>

ReplyWrites == <<"magic", "payloadSize", "id", "createdAt", "version", "payload">>

Writes(k) ==
  CASE k = "event" -> EventWrites [] k = "command" -> CommandWrites
    [] k = "stream" -> StreamWrites [] k = "reply" -> ReplyWrites

\* Mutant: the command's number copied into event_encoding.go
MagicShared(k) ==
  CASE k \in {"event", "command"} -> 121 [] k = "reply" -> 122 [] k = "stream" -> 791

Magic(k) ==
  CASE k = "event" -> 129 [] k = "command" -> 121 [] k = "reply" -> 122 [] k = "stream" -> 791

PayloadSize == IF payload = Absence THEN 0 ELSE payload

FixedWidth(f) ==
  CASE f = "magic" -> 2
    [] f \in {"payloadSize", "nameSize", "streamSize"} -> 4
    [] f \in {"id", "streamID"} -> 16
    [] f \in {"createdAt", "updatedAt", "version"} -> 8

Variable == {"name", "streamName", "payload"}

Content(f) ==
  CASE f = "magic"       -> Magic(kind)
    [] f = "payloadSize" -> PayloadSize
    [] f = "nameSize"    -> nameSize
    [] f = "streamSize"  -> streamSize
    [] f = "name"        -> <<f, nameSize>>
    [] f = "streamName"  -> <<f, streamSize>>
    [] f = "payload"     -> <<f, PayloadSize>>
    [] OTHER             -> f

WidthWritten(f) == IF f \in Variable THEN Content(f)[2] ELSE FixedWidth(f)

Encoded == [i \in 1..Len(Writes(kind)) |->
              [width |-> WidthWritten(Writes(kind)[i]), content |-> Content(Writes(kind)[i])]]

\* No codec for the payload (streams and replies need none); a state that
\* encodes to nothing
CannotEncode ==
  \/ kind \in {"event", "command"} /\ payload # Absence /\ ~registered
  \/ kind = "stream" /\ PayloadSize = 0

-----------------------------------------------------------------------------
(***************************************************************************)
(* Reading.                                                                *)
(***************************************************************************)
\* Mutant: the names swapped
EventReadsNamesSwapped ==
  <<"magic", "payloadSize", "nameSize", "streamSize", "id", "streamID",
    "streamName", "name", "createdAt", "version", "payload">>

EventReads ==
  <<"magic", "payloadSize", "nameSize", "streamSize", "id", "streamID",
    "name", "streamName", "createdAt", "version", "payload">>

CommandReads ==
  <<"magic", "payloadSize", "nameSize", "streamSize", "id", "streamID",
    "name", "streamName", "createdAt", "payload">>

StreamReads ==
  <<"magic", "payloadSize", "nameSize", "id", "name", "version", "updatedAt", "payload">>

ReplyReads == <<"magic", "payloadSize", "id", "createdAt", "version", "payload">>

Reads(k) ==
  CASE k = "event" -> EventReads [] k = "command" -> CommandReads
    [] k = "stream" -> StreamReads [] k = "reply" -> ReplyReads

\* The shortest input a reader accepts: unsafe.Sizeof of the struct, on a
\* 64-bit platform, less a constant; 38 for replies.
MinimumSize(k) ==
  CASE k = "event" -> 96 - 26 [] k = "command" -> 88 - 24 [] k = "stream" -> 88 - 24
    [] k = "reply" -> 38

Size(chunks) ==
  LET upTo[i \in 0..Len(chunks)] == IF i = 0 THEN 0 ELSE upTo[i - 1] + chunks[i].width
  IN  upTo[Len(chunks)]

SizeField(f) ==
  CASE f = "name" -> "nameSize" [] f = "streamName" -> "streamSize" [] f = "payload" -> "payloadSize"

Field(k, chunks, f) == chunks[CHOOSE i \in DOMAIN Reads(k) : Reads(k)[i] = f].content

WidthRead(k, chunks, f) ==
  IF f \in Variable THEN Field(k, chunks, SizeField(f)) ELSE FixedWidth(f)

MagicMatches(k, chunks) == chunks[1].content = Magic(k)

\* Every read takes exactly one chunk.
Aligned(k, chunks) ==
  /\ Len(Reads(k)) <= Len(chunks)
  /\ \A i \in DOMAIN Reads(k) : chunks[i].width = WidthRead(k, chunks, Reads(k)[i])

\* The payload is decoded when there is one, and then needs its codec.
Rejects(k, chunks) ==
  \/ Size(chunks) < MinimumSize(k)
  \/ ~MagicMatches(k, chunks)
  \/ k \in {"event", "command"} /\ Field(k, chunks, "payloadSize") > 0 /\ ~registered

Fields(order, contents) == {<<order[i], contents[i]>> : i \in DOMAIN order}

Decoded(k, chunks) ==
  CASE Rejects(k, chunks)  -> [status |-> "error", fields |-> {}]
    [] ~Rejects(k, chunks) /\ ~Aligned(k, chunks) -> [status |-> "garbled", fields |-> {}]
    [] OTHER -> [status |-> "ok",
                 fields |-> Fields(Reads(k), [i \in DOMAIN Reads(k) |-> chunks[i].content])]

-----------------------------------------------------------------------------
Init ==
  /\ kind \in Kinds /\ reader \in Kinds
  /\ nameSize \in NameSizes /\ streamSize \in NameSizes
  /\ payload \in Payloads /\ registered \in BOOLEAN
  /\ result = [status |-> "none", fields |-> {}]

Refuse ==
  /\ result.status = "none"
  /\ CannotEncode
  /\ result' = [result EXCEPT !.status = "refused"]
  /\ UNCHANGED <<kind, nameSize, streamSize, payload, registered, reader>>

Transfer ==
  /\ result.status = "none"
  /\ ~CannotEncode
  /\ result' = Decoded(reader, Encoded)
  /\ UNCHANGED <<kind, nameSize, streamSize, payload, registered, reader>>

Next == Refuse \/ Transfer

Spec == Init /\ [][Next]_vars

-----------------------------------------------------------------------------
Restored ==
  /\ result.status = "ok"
  /\ result.fields = Fields(Writes(kind), [i \in DOMAIN Writes(kind) |-> Content(Writes(kind)[i])])

\* A payload, state or error that encodes to nothing is left out: it decodes
\* to none.
Sent == result.status \notin {"none", "refused"} /\ reader = kind /\ payload # 0

\* The bytes by which a reader's minimum exceeds the fixed part of a container:
\* names and payload together must be that long.
Slack(k) ==
  CASE k = "event" -> 8 [] k = "command" -> 10 [] k = "stream" -> 22 [] k = "reply" -> 0

Lengths ==
  PayloadSize + (IF kind = "reply" THEN 0 ELSE nameSize)
              + (IF kind \in {"event", "command"} THEN streamSize ELSE 0)

\* The containers that a reader accepts are exactly those whose names and
\* payload are long enough, and it restores every field of them.
LongOnesRoundTrip == Sent => (Restored <=> Lengths >= Slack(kind))

\* A container is never taken for one of another kind, whatever its sizes.
OnlyItsOwnKind == result.status \in {"ok", "garbled"} => reader = kind
=============================================================================

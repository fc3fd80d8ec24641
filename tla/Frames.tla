------------------------------- MODULE Frames -------------------------------
(***************************************************************************)
(* The frames of the configuration protocol and the two decoders that find *)
(* them in a stream of bytes: the pedal's (core/frame_decoder.cpp) and the *)
(* editor's (packages/protocol/src/frame.ts).                              *)
(*                                                                         *)
(* The magic keeps its four bytes, since what a decoder does on noise      *)
(* depends on them; every other field is one byte here. Crc stands for     *)
(* CRC-32.                                                                 *)
(***************************************************************************)
EXTENDS Integers, FiniteSetsExt, SequencesExt

CONSTANTS
  MaxPayload,  \* 4096
  Commands     \* 1 .. 10

Magic == <<77, 80, 67, 70>>
Version == 1

\* Where the fields are.
VersionAt == 5
RequestIdAt == 6
CommandAt == 7
FlagsAt == 8
PayloadLengthAt == 9
HeaderSize == 9
CrcSize == 1
BufferSize == HeaderSize + MaxPayload + CrcSize

Crc(bytes) == FoldLeft(LAMBDA sum, byte : (sum * 31 + byte + 1) % 65521, 0, bytes)

\* encodeFrame, and emit of the dispatcher.
Encoded(frame) ==
  LET body == Magic \o <<Version, frame.request_id, frame.command, frame.flags, Len(frame.payload)>>
                    \o frame.payload
  IN  Append(body, Crc(body))

FrameLength(bytes) == HeaderSize + bytes[PayloadLengthAt] + CrcSize

is_command(command) == command \in Commands

\* What a complete frame must satisfy to be one.
IsFrame_Unchecked(bytes) == bytes[VersionAt] = Version /\ is_command(bytes[CommandAt])

IsFrame(bytes) ==
  /\ bytes[VersionAt] = Version
  /\ is_command(bytes[CommandAt])
  /\ LET body == SubSeq(bytes, 1, FrameLength(bytes) - CrcSize)
     IN  bytes[FrameLength(bytes)] = Crc(body)

DecodedFrame(bytes) ==
  [request_id |-> bytes[RequestIdAt], command |-> bytes[CommandAt], flags |-> bytes[FlagsAt],
   payload |-> SubSeq(bytes, HeaderSize + 1, HeaderSize + bytes[PayloadLengthAt])]

MagicsIn(bytes, first) ==
  {start \in first .. Len(bytes) - 3 : SubSeq(bytes, start, start + 3) = Magic}

From(bytes, start) == SubSeq(bytes, start, Len(bytes))
\* The end of a buffer that may be the beginning of a magic.
Tail3(bytes) == From(bytes, Max({1, Len(bytes) - 2}))

-----------------------------------------------------------------------------
(* The pedal's decoder takes the bytes one by one. *)

Resync_Forgets(buffer) ==
  IF MagicsIn(buffer, 2) = {} THEN <<>> ELSE From(buffer, Min(MagicsIn(buffer, 2)))

Resync(buffer) ==
  IF MagicsIn(buffer, 2) = {} THEN Tail3(buffer) ELSE From(buffer, Min(MagicsIn(buffer, 2)))

\* The loop of resync() ends after one round: it leaves a magic in front, or three bytes.
Aligned(buffer) ==
  IF Len(buffer) >= Len(Magic) /\ ~IsPrefix(Magic, buffer) THEN Resync(buffer) ELSE buffer

\* One byte: the new buffer, and the frames found so far.
Take(decoder, byte) ==
  LET room == IF Len(decoder.buffer) = BufferSize THEN Resync(decoder.buffer) ELSE decoder.buffer
      bytes == Aligned(Append(room, byte))
  IN  IF Len(bytes) < HeaderSize THEN [decoder EXCEPT !.buffer = bytes]
      ELSE IF bytes[PayloadLengthAt] > MaxPayload THEN [decoder EXCEPT !.buffer = Resync(bytes)]
      ELSE IF Len(bytes) < FrameLength(bytes) THEN [decoder EXCEPT !.buffer = bytes]
      ELSE [buffer |-> From(bytes, FrameLength(bytes) + 1),
            frames |-> decoder.frames \o (IF IsFrame(bytes) THEN <<DecodedFrame(bytes)>> ELSE <<>>)]

Feed(buffer, bytes) == FoldLeft(Take, [buffer |-> buffer, frames |-> <<>>], bytes)

-----------------------------------------------------------------------------
(* The editor's decoder takes a chunk and looks for frames until none is left. *)

Drained_Forgets(bytes) == <<>>
\* Without a magic, all but the last three bytes are noise.
Drained(bytes) == Tail3(bytes)

RECURSIVE Decode(_, _)
Decode(buffer, frames) ==
  LET bytes == From(buffer, Min(MagicsIn(buffer, 1)))
  IN  IF Len(buffer) < Len(Magic) THEN [buffer |-> buffer, frames |-> frames]
      ELSE IF MagicsIn(buffer, 1) = {} THEN [buffer |-> Drained(buffer), frames |-> frames]
      ELSE IF Len(bytes) < HeaderSize THEN [buffer |-> bytes, frames |-> frames]
      ELSE IF bytes[PayloadLengthAt] > MaxPayload THEN Decode(From(bytes, Len(Magic) + 1), frames)
      ELSE IF Len(bytes) < FrameLength(bytes) THEN [buffer |-> bytes, frames |-> frames]
      ELSE Decode(From(bytes, FrameLength(bytes) + 1),
                  IF IsFrame(bytes) THEN Append(frames, DecodedFrame(bytes)) ELSE frames)

Push(buffer, chunk) == Decode(buffer \o chunk, <<>>)
=============================================================================

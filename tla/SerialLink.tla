----------------------------- MODULE SerialLink -----------------------------
(***************************************************************************)
(* The line between the editor and the pedal, byte by byte: what the       *)
(* editor writes, the pedal's decoder behind PicoUsbPort::service, the     *)
(* queue of response frames that flush_cdc empties into the USB stack as   *)
(* far as there is room (usb/pico_usb.cpp), and the editor's decoder. The  *)
(* line itself does not damage bytes, but a pulled cable or a closed page  *)
(* cuts a frame off, and other programs of the host write to the port.     *)
(***************************************************************************)
EXTENDS Frames

CONSTANTS
  Payloads,          \* payloads of requests
  Noises,            \* what other programs write
  CdcQueueCapacity,  \* 4
  PortRoom,          \* the USB stack's buffer for bytes to the host
  Arrivals,          \* how many bytes the USB stack may hand over at a time, at either end
  MaxRequests, MaxFaults, MaxInFlight  \* bounds of the exploration

VARIABLES
  mounted,        \* the pedal is connected to a host
  sent,           \* every request written by the editor
  to_device,      \* bytes on their way to the pedal
  decoder,        \* buffer_ of the pedal's decoder
  received,       \* every request its dispatcher got
  queue,          \* queue_: response frames, the first of them partly written
  offset,         \* how much of it
  answered,       \* every response accepted by the queue
  to_host,        \* bytes the USB stack holds for the host
  host_decoder,   \* buffer of the editor's decoder
  heard,          \* every response the editor got
  since,          \* bytes taken since the last cut, up to BufferSize
  sure_requests,  \* request ids the pedal must get
  sure_responses, \* request ids of responses the editor must get
  faults

pedal_vars == <<decoder, received, queue, offset, answered>>
editor_vars == <<sent, host_decoder, heard>>
vars == <<mounted, to_device, to_host, pedal_vars, editor_vars, since, sure_requests,
          sure_responses, faults>>

Ids(frames) == {frames[k].request_id : k \in DOMAIN frames}
AtMost(n, limit) == Min({n, limit})

Init ==
  /\ mounted = TRUE
  /\ sent = <<>> /\ received = <<>> /\ answered = <<>> /\ heard = <<>>
  /\ to_device = <<>> /\ to_host = <<>>
  /\ decoder = <<>> /\ host_decoder = <<>>
  /\ queue = <<>> /\ offset = 0
  /\ since = BufferSize
  /\ sure_requests = {} /\ sure_responses = {}
  /\ faults = 0

-----------------------------------------------------------------------------
(* The pedal *)

\* emit: every request has a response.
Response(request) ==
  [request_id |-> request.request_id, command |-> request.command, flags |-> 0, payload |-> <<0>>]
Responses(requests) == [k \in DOMAIN requests |-> Response(requests[k])]

\* enqueue_cdc refuses a frame when the queue is full; nobody looks at the answer.
Accepted(frames, responses) ==
  SubSeq(responses, 1, AtMost(Len(responses), CdcQueueCapacity - Len(frames)))

\* flush_cdc: what waits goes out as far as there is room; a frame leaves the queue once its
\* last byte is written.
Flush(frames, done, room) ==
  LET waiting == From(FlattenSeq(frames), done + 1)
      count == AtMost(Len(waiting), room)
      End(k) == Len(FlattenSeq(SubSeq(frames, 1, k)))
      gone == Max({k \in 0 .. Len(frames) : End(k) <= done + count})
  IN  [queue |-> SubSeq(frames, gone + 1, Len(frames)), offset |-> done + count - End(gone),
       bytes |-> SubSeq(waiting, 1, count)]

\* PicoUsbPort::service with count bytes to read: flush, decode, dispatch, flush.
Service(count) ==
  LET before == Flush(queue, offset, PortRoom - Len(to_host))
      fed == Feed(decoder, SubSeq(to_device, 1, count))
      responses == Accepted(before.queue, Responses(fed.frames))
      after == Flush(before.queue \o [k \in DOMAIN responses |-> Encoded(responses[k])],
                     before.offset, PortRoom - Len(to_host \o before.bytes))
  IN  /\ mounted
      /\ decoder' = fed.buffer
      /\ received' = received \o fed.frames
      /\ answered' = answered \o responses
      /\ queue' = after.queue /\ offset' = after.offset
      /\ to_host' = to_host \o before.bytes \o after.bytes
      /\ to_device' = From(to_device, count + 1)
      /\ since' = AtMost(since + count, BufferSize)
      /\ sure_responses' = sure_responses \cup Ids(responses)
      /\ UNCHANGED <<mounted, editor_vars, sure_requests, faults>>

-----------------------------------------------------------------------------
(* The host *)

Write(bytes) ==
  /\ mounted
  /\ Len(to_device \o bytes) <= MaxInFlight
  /\ to_device' = to_device \o bytes

\* DeviceSession writes a request, without a response to the one before if that took too long.
SendRequest(payload) ==
  LET request == [request_id |-> Len(sent) + 1, command |-> 1, flags |-> 0, payload |-> payload]
      sure == since + Len(to_device) >= BufferSize
  IN  /\ Len(sent) < MaxRequests
      /\ Write(Encoded(request))
      /\ sent' = Append(sent, request)
      /\ sure_requests' = sure_requests \cup {id \in {request.request_id} : sure}
      /\ UNCHANGED <<mounted, to_host, pedal_vars, host_decoder, heard, since, sure_responses, faults>>

ReadResponses(count) ==
  LET pushed == Push(host_decoder, SubSeq(to_host, 1, count))
  IN  /\ host_decoder' = pushed.buffer
      /\ heard' = heard \o pushed.frames
      /\ to_host' = From(to_host, count + 1)
      /\ UNCHANGED <<mounted, sent, to_device, pedal_vars, since, sure_requests, sure_responses,
                     faults>>

Fault == faults < MaxFaults /\ faults' = faults + 1

WriteNoise(noise) ==
  /\ Fault
  /\ Write(noise)
  /\ UNCHANGED <<mounted, to_host, pedal_vars, editor_vars, since, sure_requests, sure_responses>>

\* What is on its way is lost. The pedal keeps its queue, of whose first response the host may
\* have missed the beginning, and the bytes of an unfinished request.
Cut ==
  /\ to_device' = <<>> /\ to_host' = <<>> /\ host_decoder' = <<>>
  /\ since' = IF decoder = <<>> THEN since ELSE 0
  /\ sure_requests' = sure_requests \cap Ids(received)
  /\ sure_responses' =
       Ids(heard) \cup {queue[k][RequestIdAt] : k \in IF offset = 0 THEN DOMAIN queue
                                                      ELSE DOMAIN queue \ {1}}
  /\ UNCHANGED <<pedal_vars, sent, heard>>

\* The page is closed or loaded again: what the system has not sent may be dropped.
ReopenPort == mounted /\ Fault /\ Cut /\ UNCHANGED mounted

Unplug == mounted /\ Fault /\ Cut /\ mounted' = FALSE

Plug == ~mounted /\ mounted' = TRUE
        /\ UNCHANGED <<to_device, to_host, pedal_vars, editor_vars, since, sure_requests,
                       sure_responses, faults>>

Next ==
  \/ \E count \in Arrivals \cup {0} : Service(AtMost(Len(to_device), count))
  \/ \E payload \in Payloads : SendRequest(payload)
  \/ \E count \in Arrivals : to_host # <<>> /\ ReadResponses(AtMost(Len(to_host), count))
  \/ \E noise \in Noises : WriteNoise(noise)
  \/ ReopenPort
  \/ Unplug
  \/ Plug

Spec == Init /\ [][Next]_vars
-----------------------------------------------------------------------------
(* Properties *)

RequestChannel == INSTANCE LossyChannel WITH sent <- sent, received <- received
ResponseChannel == INSTANCE LossyChannel WITH sent <- answered, received <- heard

\* Both directions are lossy channels: whatever is cut off or written in between, a decoder
\* makes no frame of pieces of others, repeats none and keeps their order.
LineIsLossyChannel == RequestChannel!Spec /\ ResponseChannel!Spec

\* The pedal gets every request that is written whole while its decoder is between frames, also
\* after noise; a cut, which may leave the beginning of a request in the decoder, costs requests
\* only until the longest frame has passed.
RequestsArrive == to_device = <<>> => sure_requests \subseteq Ids(received)

\* The editor gets every response that was accepted by the queue, but for those that a cut hits
\* on their way: written in parts, or queued while no host was there, they come out whole.
ResponsesArrive == queue = <<>> /\ to_host = <<>> => sure_responses \subseteq Ids(heard)
=============================================================================

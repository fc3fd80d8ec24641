----------------------------- MODULE MidiQueue -----------------------------
(***************************************************************************)
(* The TRS output: the ring buffer MidiQueue (core/midi_queue.hpp) behind  *)
(* PicoUartMidi (hal/pico_uart_midi.cpp). enqueue runs in the control loop *)
(* for every TRS message, service once per pass of the main loop.          *)
(***************************************************************************)
EXTENDS Naturals, Sequences

CONSTANTS
  Messages,   \* MIDI messages
  Capacity,   \* 64
  NoMessage   \* what an unused element of messages_ holds

ASSUME QueueAssumption == Capacity \in Nat \ {0} /\ NoMessage \notin Messages

VARIABLES
  messages,  \* messages_: [Slots -> ...]
  read,      \* read_
  write,     \* write_
  size,      \* size_
  sent,      \* what service() handed to the UART in the last step
  accepted   \* the answer of the last push

queue_vars == <<messages, read, write, size>>
vars == <<queue_vars, sent, accepted>>

Slots == 0 .. Capacity - 1

Init ==
  /\ messages = [i \in Slots |-> NoMessage]
  /\ read = 0
  /\ write = 0
  /\ size = 0
  /\ sent = <<>>
  /\ accepted = TRUE

Advance_TooFar(i) == (i + 1) % (Capacity + 1)
Advance(i) == (i + 1) % Capacity

Full_OffByOne == size = Capacity + 1
Full == size = Capacity

Enqueue(message) ==
  /\ accepted' = ~Full
  /\ IF Full
     THEN UNCHANGED queue_vars
     ELSE /\ messages' = [messages EXCEPT ![write] = message]
          /\ write' = Advance(write)
          /\ size' = size + 1
          /\ UNCHANGED read
  /\ sent' = <<>>

Pop ==
  /\ read' = Advance(read)
  /\ size' = size - 1
  /\ UNCHANGED <<messages, write>>

\* One message per pass, when the UART can take it.
Service ==
  /\ size # 0
  /\ sent' = <<messages[read]>>
  /\ Pop
  /\ UNCHANGED accepted

Next == (\E message \in Messages : Enqueue(message)) \/ Service

Spec == Init /\ [][Next]_vars
-----------------------------------------------------------------------------
Slot(i) == (read + i) % Capacity
Contents == [i \in 1 .. size |-> messages[Slot(i - 1)]]

\* The indices stay within the ring and the size within its capacity.
QueueTypeOK ==
  /\ messages \in [Slots -> Messages \cup {NoMessage}]
  /\ read \in Slots /\ write \in Slots
  /\ size \in 0 .. Capacity
  /\ sent \in Seq(Messages \cup {NoMessage})
  /\ accepted \in BOOLEAN

\* The two indices and the size agree, and every element between them was pushed.
RingIsConsistent ==
  /\ write = Slot(size)
  /\ \A i \in 0 .. size - 1 : messages[Slot(i)] \in Messages

Fifo == INSTANCE BoundedFifo WITH Items <- Messages, contents <- Contents, taken <- sent

\* The ring behaves as a bounded queue that refuses the newest message: nothing is lost,
\* repeated, reordered or overwritten, also after the indices have wrapped.
QueueIsFifo == Fifo!Spec
=============================================================================

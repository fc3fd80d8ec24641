------------------------- MODULE ProtocolDispatcher -------------------------
(***************************************************************************)
(* The device end of the configuration protocol: ProtocolDispatcher with   *)
(* its replay cache (usb/protocol_dispatcher.cpp), the service behind it   *)
(* (app/controller_protocol_service.cpp), the CDC response queue it writes *)
(* to (usb/pico_usb.cpp), and the copy of the active configuration that    *)
(* the live engine works from (app/pedal_runtime.cpp).                     *)
(*                                                                         *)
(* ConfigStore is seen from above: module ConfigStore shows that its       *)
(* active image changes atomically, so here a command is one step. A chunk *)
(* stands for the WRITE_CHUNKs of one flash sector.                        *)
(***************************************************************************)
EXTENDS Naturals, Sequences

CONSTANTS
  Configs,           \* behavioural configurations a user can draft
  FactoryEmpty,      \* the configuration of the image built into the firmware
  FirstImages,       \* what the flash may hold to begin with: an image, or Nil for none
  SampleValues,      \* readings of the expression pedal, 0 .. 4095
  MaxSequence,       \* bound on image sequence numbers (uint32_t in the code)
  BankCount,         \* banks in an image: 128 in every image the editor compiles
  ChunkCount,        \* chunks in an image: 51 WRITE_CHUNKs and more
  CacheCapacity,     \* CacheCapacity: 16
  CdcQueueCapacity,  \* CdcQueueCapacity: 4
  Erased,            \* a chunk of 0xff
  Garbled,           \* a chunk that belongs to no image
  Nil

Images == [sequence : 0 .. MaxSequence, config : Configs \cup {FactoryEmpty}]
factory_image == [sequence |-> 0, config |-> FactoryEmpty]
Chunks == 1 .. ChunkCount
Mutations == {"BEGIN_UPLOAD", "WRITE_CHUNK", "VERIFY_UPLOAD", "ACTIVATE_UPLOAD",
              "SET_EXPRESSION_CALIBRATION", "FACTORY_EMPTY_RESET"}
Commands == Mutations \cup {"GET_CAPABILITIES", "GET_CONFIG_INFO", "READ_CONFIG",
                           "GET_EXPRESSION_SAMPLE"}

\* "UNREADABLE" is an OK with a text that the editor cannot parse.
Statuses == {"OK", "BUSY", "INVALID_CONFIGURATION", "VERIFY_FAILED", "INVALID_STATE", "UNREADABLE"}

\* The two end points of the expression pedal: those of a pedal never calibrated, those a user
\* has measured, and a pair that is too narrow.
Default == 0
Measured == 1
Narrow == 2

\* A request names the image it is about (BEGIN_UPLOAD, WRITE_CHUNK) and the bank, the chunk or
\* the calibration.
Frames == [id : Nat, command : Commands, image : Images \cup {Nil}, index : Nat]
Responses == [id : Nat, command : Commands, status : Statuses, image : Images \cup {Nil}]
Uploads == [image : Images, erased : SUBSET Chunks, verified : BOOLEAN]
Snapshots == [available : BOOLEAN, sequence : 0 .. MaxSequence, bank_count : Nat]

ASSUME DispatcherAssumption ==
  /\ MaxSequence \in Nat /\ BankCount \in Nat \ {0} /\ ChunkCount \in Nat \ {0}
  /\ CacheCapacity \in Nat \ {0} /\ CdcQueueCapacity \in Nat \ {0}
  /\ Erased \notin Images /\ Garbled \notin Images /\ Erased # Garbled
  /\ Nil \notin Images \cup Uploads
  /\ FirstImages \subseteq Images \cup {Nil}
  /\ FactoryEmpty \notin Configs /\ SampleValues \subseteq 0 .. 4095

VARIABLES
  active,      \* the active image, or Nil
  spare,       \* [Chunks -> ...]: the slot that does not hold the active image
  upload,      \* upload_, or Nil
  calibration, \* expression_calibration_, in the store and in the ExpressionProcessor
  cache,       \* cache_: the remembered responses, least recently used first
  responses,   \* PicoUsbPort::queue_ and what the host has yet to read
  snapshot,    \* PedalRuntime::config_snapshot_
  bank         \* the image that PedalRuntime::bank_ was loaded from, or Nil

store_vars == <<active, spare, upload, calibration>>
runtime_vars == <<snapshot, bank>>
dispatcher_vars == <<store_vars, cache, responses, runtime_vars>>
-----------------------------------------------------------------------------
SequenceOf(image) == IF image = Nil THEN 0 ELSE image.sequence
BanksOf(image) == IF image = Nil THEN 0 ELSE BankCount

\* RuntimeConfigSource::status()
Status == [available |-> active # Nil, sequence |-> SequenceOf(active),
           bank_count |-> BanksOf(active)]

DispatcherInit ==
  /\ active \in FirstImages
  /\ spare = [k \in Chunks |-> Erased]
  /\ upload = Nil
  /\ calibration = Default
  /\ cache = <<>>
  /\ responses = <<>>
  /\ snapshot = Status
  /\ bank = active

\* enqueue_cdc: a full queue refuses the frame, and nobody looks at the answer.
Enqueue(queue, response) ==
  IF Len(queue) = CdcQueueCapacity THEN queue ELSE Append(queue, response)

Remember_Forever(entries, response) == Append(entries, response)
Remember_Nothing(entries, response) == entries

\* emit: the new response takes the place of the least recently used one.
Remember(entries, response) ==
  Append(IF Len(entries) = CacheCapacity THEN Tail(entries) ELSE entries, response)

Matches(frame, entry) == entry.id = frame.id /\ entry.command = frame.command
IsCached(frame) == \E k \in DOMAIN cache : Matches(frame, cache[k])

\* replay: answer from the cache, which makes the entry the most recently used one.
Replay(frame) ==
  \E k \in DOMAIN cache :
    /\ Matches(frame, cache[k])
    /\ cache' = SubSeq(cache, 1, k - 1) \o SubSeq(cache, k + 1, Len(cache)) \o <<cache[k]>>
    /\ responses' = Enqueue(responses, cache[k])
    /\ UNCHANGED <<store_vars, runtime_vars>>

\* emit: remember the response, then write it.
Emit(frame, status, image) ==
  LET response == [id |-> frame.id, command |-> frame.command, status |-> status, image |-> image]
  IN  /\ cache' = Remember(cache, response)
      /\ responses' = Enqueue(responses, response)
      /\ UNCHANGED runtime_vars
-----------------------------------------------------------------------------
Capabilities(frame) ==
  /\ frame.command = "GET_CAPABILITIES"
  /\ Emit(frame, "OK", Nil)
  /\ UNCHANGED store_vars

ConfigInfo(frame) ==
  /\ frame.command = "GET_CONFIG_INFO"
  /\ Emit(frame, "OK", active)
  /\ UNCHANGED store_vars

\* A record of the image active now.
BankRecord(index) == IF index <= BanksOf(active) THEN active ELSE Nil

ReadConfig(frame) ==
  /\ frame.command = "READ_CONFIG"
  /\ LET record == BankRecord(frame.index)
     IN  Emit(frame, IF record = Nil THEN "INVALID_CONFIGURATION" ELSE "OK", record)
  /\ UNCHANGED store_vars

\* Every mutation is refused while a footswitch is held or has just been handled.
Busy(frame) ==
  /\ frame.command \in Mutations
  /\ Emit(frame, "BUSY", Nil)
  /\ UNCHANGED store_vars

BeginUpload(frame) ==
  /\ frame.command = "BEGIN_UPLOAD"
  /\ upload' = [image |-> frame.image, erased |-> {}, verified |-> FALSE]
  /\ Emit(frame, "OK", Nil)
  /\ UNCHANGED <<active, spare, calibration>>

\* Programming what this upload has not erased can only clear bits.
Programmed(old, data) == IF old \in {Erased, data} THEN data ELSE Garbled

upload_error(accepted) == IF accepted THEN "OK" ELSE "INVALID_CONFIGURATION"

WriteChunk_StillVerified(frame) ==
  /\ frame.command = "WRITE_CHUNK"
  /\ Emit(frame, upload_error(upload # Nil), Nil)
  /\ IF upload = Nil
     THEN UNCHANGED store_vars
     ELSE /\ spare' = [spare EXCEPT ![frame.index] =
                         IF frame.index \in upload.erased THEN Programmed(@, frame.image)
                                                          ELSE frame.image]
          /\ upload' = [upload EXCEPT !.erased = @ \cup {frame.index}]
          /\ UNCHANGED <<active, calibration>>

WriteChunk(frame) ==
  /\ frame.command = "WRITE_CHUNK"
  /\ Emit(frame, upload_error(upload # Nil), Nil)
  /\ IF upload = Nil
     THEN UNCHANGED store_vars
     ELSE /\ spare' = [spare EXCEPT ![frame.index] =
                         IF frame.index \in upload.erased THEN Programmed(@, frame.image)
                                                          ELSE frame.image]
          /\ upload' = [upload EXCEPT !.erased = @ \cup {frame.index}, !.verified = FALSE]
          /\ UNCHANGED <<active, calibration>>

VerifyUpload(frame) ==
  /\ frame.command = "VERIFY_UPLOAD"
  /\ IF upload # Nil /\ \A k \in Chunks : spare[k] = upload.image
     THEN /\ upload' = [upload EXCEPT !.verified = TRUE]
          /\ Emit(frame, "OK", Nil)
     ELSE /\ UNCHANGED upload
          /\ Emit(frame, "VERIFY_FAILED", Nil)
  /\ UNCHANGED <<active, spare, calibration>>

\* The slots change places: the image replaced becomes the content of the spare slot.
Activate(image) ==
  /\ active' = image
  /\ spare' = [k \in Chunks |-> IF active = Nil THEN Erased ELSE active]
  /\ upload' = Nil
  /\ UNCHANGED calibration

ActivateUpload(frame) ==
  /\ frame.command = "ACTIVATE_UPLOAD"
  /\ IF upload # Nil /\ upload.verified
     THEN /\ Activate(upload.image)
          /\ Emit(frame, "OK", Nil)
     ELSE /\ Emit(frame, "INVALID_STATE", Nil)
          /\ UNCHANGED store_vars

\* The last three digits, without the zeros in front only if the value has fewer.
SampleDigits(value) ==
  (IF value >= 100 THEN <<(value \div 100) % 10>> ELSE <<>>)
    \o (IF value >= 10 THEN <<(value \div 10) % 10>> ELSE <<>>)
    \o <<value % 10>>

\* JSON has no number that starts with a zero and goes on.
Readable(digits) == Len(digits) = 1 \/ digits[1] # 0

ExpressionSample(frame) ==
  /\ frame.command = "GET_EXPRESSION_SAMPLE"
  /\ \E value \in SampleValues :
       Emit(frame, IF Readable(SampleDigits(value)) THEN "OK" ELSE "UNREADABLE", Nil)
  /\ UNCHANGED store_vars

\* Kept in flash first, then used.
SetExpressionCalibration(frame) ==
  /\ frame.command = "SET_EXPRESSION_CALIBRATION"
  /\ IF frame.index = Narrow
     THEN /\ Emit(frame, "INVALID_CONFIGURATION", Nil)
          /\ UNCHANGED store_vars
     ELSE /\ calibration' = frame.index
          /\ Emit(frame, "OK", Nil)
          /\ UNCHANGED <<active, spare, upload>>

\* An upload of the built-in image in one call, which takes the place of a staged one.
FactoryEmptyReset(frame) ==
  /\ frame.command = "FACTORY_EMPTY_RESET"
  /\ Activate(factory_image)
  /\ Emit(frame, "OK", Nil)

Dispatch(frame) ==
  \/ Capabilities(frame)
  \/ ConfigInfo(frame)
  \/ ReadConfig(frame)
  \/ Busy(frame)
  \/ BeginUpload(frame)
  \/ WriteChunk(frame)
  \/ VerifyUpload(frame)
  \/ ActivateUpload(frame)
  \/ ExpressionSample(frame)
  \/ SetExpressionCalibration(frame)
  \/ FactoryEmptyReset(frame)
-----------------------------------------------------------------------------
\* refresh_configuration: reload the working bank when the store's status has changed.
RefreshConfiguration ==
  /\ Status # snapshot
  /\ snapshot' = Status
  /\ bank' = active
  /\ UNCHANGED <<store_vars, cache, responses>>

\* navigate to another bank, which loads that bank from the image active now.
ChangeBank ==
  /\ snapshot.bank_count > 1
  /\ snapshot' = Status
  /\ bank' = active
  /\ UNCHANGED <<store_vars, cache, responses>>

\* Power cycle or watchdog reset: only the flash survives.
PowerCycle ==
  /\ upload' = Nil
  /\ cache' = <<>>
  /\ responses' = <<>>
  /\ snapshot' = Status
  /\ bank' = active
  /\ UNCHANGED <<active, spare, calibration>>

DispatcherTypeOK ==
  /\ active \in Images \cup {Nil}
  /\ spare \in [Chunks -> Images \cup {Erased, Garbled}]
  /\ upload \in Uploads \cup {Nil}
  /\ calibration \in {Default, Measured}
  /\ cache \in Seq(Responses) /\ Len(cache) <= CacheCapacity
  /\ responses \in Seq(Responses) /\ Len(responses) <= CdcQueueCapacity
  /\ snapshot \in Snapshots
  /\ bank \in Images \cup {Nil}
=============================================================================

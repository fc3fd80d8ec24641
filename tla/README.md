# A verification project for midi-pedal

TLA+ models of the pedal firmware and of its browser editor, TLC configurations that check
them on small instances, and TLAPS proofs about their core. Definitions carry the names of
the source; the `map` of `PROJECT.json` gives the lines each of them stands for.

Run everything from this directory: `tlc -config StoreAtomicity.cfg MCConfigStore` checks a
configuration, `tlapm ConfigStoreProofs.tla` checks the proofs of a module.

## 1. The system

midi-pedal is a foot controller on a Raspberry Pi Pico 2 (`firmware/`), a browser editor that
configures it over WebSerial (`editor/`), and the protocol package they share
(`packages/protocol/`). The firmware is one thread: `main()` initialises everything and then
repeats a pass

```
runtime.tick → usb.service → runtime.finish_control_phase → midi.service → watchdog.feed → display.service
```

The display's transfer by DMA and the USB stack's buffers are all that runs beside it. The
editor is a browser page: asynchronous calls that interleave at every `await`. The two meet
on a serial line that loses and delays, and the pedal can lose power at any instant.

| component | state | operations | interacts with |
|---|---|---|---|
| Config store (`core/config_store.cpp`) | two image slots and two metadata sectors in flash; RAM copies of the records, the staged upload, the calibration | `begin_upload`, `write_chunk`, `verify_upload`, `activate_upload`, `set_expression_calibration`, `scan` at boot | the flash port; called by the protocol service; the live engine loads banks from it |
| Protocol dispatcher (`usb/protocol_dispatcher.cpp`) and service (`app/controller_protocol_service.cpp`) | a replay cache of 16 responses | `on_frame`, `replay`, `emit`, one handler per command | frames in from the decoder, frames out to the CDC queue; the service refuses mutations while an action is live |
| USB CDC port, frame decoders (`usb/pico_usb.cpp`, `core/frame_decoder.cpp`, `packages/protocol/src/frame.ts`) | a queue of four frames and the part of one already sent; bytes not yet a frame | `enqueue_cdc`, `flush_cdc`, `service`, `feed`, `push` | TinyUSB, the browser's serial stream |
| Device session (`editor/src/device/DeviceSession.ts`), App, `WebSerialTransport` | next request id, last info, the calls in progress, the open port | `connect`, `readConfiguration`, `syncConfiguration`, the maintenance commands, each request with a timeout and three attempts | the dispatcher; `synchronizeDraft` and the App report the outcome |
| Editor state (`editor/src/domain`), its screens | the draft, its dirty flag, the selection | reducer actions | the App syncs the draft and marks it clean |
| Image codec (`packages/protocol/src/binary.ts`, `validate.ts`, `core/image_reader.cpp`) | none | `encodeImage`, `decodeImage`, `validateConfiguration`, `validate_all_banks`, `load_bank` | the editor's session, the store, the live engine |
| Footswitch gestures (`core/switch_engine.cpp`) | debounced mask, chord window, active chord, single presses, their timers | `update(mask, now)` | called by every tick; its events drive the live engine |
| Live engine (`app/pedal_runtime.cpp`, `core/action_engine.cpp`) | working copy of a bank, bank and page, positions, relays, overflow flag, live-action latch | `tick`, `handle_event`, `execute`, `navigate`, `send_midi`, `relay`, `refresh_configuration`, `render` | store (reads), gestures, MIDI outputs, relays, display, expression; the service reads the latch |
| Expression pedal (`core/expression.cpp`) | calibration, five samples, filter, last value sent, two timers | `sample`, `set_assignment`, `set_calibration` | tick, service |
| TRS MIDI output (`core/midi_queue.hpp`, `hal/pico_uart_midi.cpp`) | a ring of 64 messages | `push`, `pop` | filled by the live engine, drained once per pass |
| USB MIDI output (`usb/usb_transport.cpp`) | a counter of dropped messages | `send_midi` | TinyUSB; the live engine compares the counter |
| Display (`display/live_renderer.cpp`, `display/font_deck.cpp`, `display/st7796s.cpp`) | the last view, the frame, a dirty range and the one pending behind it, the transfer | `render`, `present`, `mark_dirty`, `service`, `write` | tick presents, the main loop serves, DMA completes |
| Boot, relays, watchdog, ADC and switch reading | | | |

What is hard about it, and what makes each part correct:

- **Config store.** Power can fail in every erase and every program of up to three sector
  writes, again after the reboot, and generations wrap. Correct: the image in use is always
  whole; an activation takes effect at one instant or not at all; what is reported as done is
  durable.
- **Link.** A retry may meet its first copy, an answer may come after its request was given
  up, a session may meet the answers and the replay cache of the one before, and the Sync
  button stays enabled during a sync. Correct: a mutation is executed once; a session never
  takes an old answer for its own; nothing but the image that was sent is activated; every
  call ends; what the editor says is what the pedal plays.
- **Frames.** A pulled cable or a closed page leaves a piece of a frame in a decoder that
  nothing resets, other programs write to the port, and the USB stack takes a response in
  parts. Correct: what is received was sent, once and in order, and only what a cut hits is
  lost.
- **Editor.** Numbers are cut to their width, texts to their bytes, and four readers of the
  same bytes must agree; the draft is edited while its sync is awaited. Correct: a valid
  draft means to the pedal what it means to the editor; ids are unique; a clean draft is what
  the pedal runs.
- **Gestures.** Debouncing, the chord window, long presses and repeats run on different clocks
  over the same contacts. Correct: gestures exclude each other, every Press gets a Release,
  a held chord keeps its rate, a press is reported.
- **Live engine.** A preset's messages can change the bank, the page and the position that
  the next message depends on; outputs refuse; the configuration can be replaced between two
  passes. Correct: an event gives out its preset's messages, all and in order; the position
  moves last; no loss goes unseen; what is played is what is active.
- **Expression.** An integer filter, a rate limit on a clock that wraps, and a memory of what
  was sent that a new bank, calibration or pedal makes void. Correct: a resting pedal shows
  and has sent exactly its position; messages keep their distance.
- **Display.** Only what changed is drawn, in boxes of bands of regions, and the frame changes
  while it is sent. Correct: what is drawn in parts is what would be drawn at once; the panel
  ends up with the last view.
- **TRS queue.** A ring whose full and empty states have equal indices. Correct: first in,
  first out, only the newest is refused.

## 2. Modules

| module | models | state and actions |
|---|---|---|
| `AtomicRegister` | what a durable setting promises | abstract specification |
| `ConfigStore` | the config store and the flash port | `flash`, `sector_metadata`, `sector_settings` are flash, the other variables RAM. `BeginUpload`, `WriteChunk`, `VerifyUpload` are the calls; `Activate` and `SetCalibration` start a plan (`job`) of sector writes which `EraseSector` and `ProgramSector` carry out one flash operation at a time; `PowerLoss` interrupts anything, leaving a sector wiped or garbled, and boots through `Scan`; `FlashFails` lets an operation return false |
| `ProtocolDispatcher` | dispatcher, service, response queue, working copy of the live engine | one action per command, the maintenance commands included; `Replay` and `Emit` keep the cache. The store is seen from above, a command is one step, which `ConfigStore` justifies |
| `EditorLink` | device session, App, wire | extends `ProtocolDispatcher`. Every `await` is a point where steps interleave: `Deliver` and `Timeout` resume a call, `Receive` lets the pedal handle a frame, `LoseRequest` and `LoseResponse` lose one, `Disconnect` and `Restart` end a session |
| `LossyChannel` | what a line of frames promises | abstract specification |
| `Frames` | the frame format and both decoders | `Feed` is the firmware's decoder, a byte at a time; `Push` the editor's, a chunk at a time |
| `SerialLink` | the bytes between the two | extends `Frames`. `SendRequest` and `ReadResponses` are the editor's end, `Service` is `PicoUsbPort::service` with `Flush`; `WriteNoise`, `ReopenPort`, `Unplug` and `Plug` are what happens to the port |
| `ConfigImage` | documents, the editor's encoder, decoder and validation, the pedal's reader | pure operators over sequences of bytes |
| `EditorState` | reducer, screens, App | extends `ConfigImage`. `EditBank`, `EditPreset`, `EditSlots` are the edits that the screens offer, `Import`, `Connect`, `Sync`, `SyncSucceeded`, `SyncRefused`, `SyncFailed`, `Reload` what happens around them |
| `SwitchEngine` | `SwitchEngine::update` | one action `Update(mask, gap)`; timestamps are kept as ages, cut off at their thresholds |
| `SwitchGestures` | | `SwitchEngine` with a history of its events, and the properties |
| `Expression` | `ExpressionProcessor` and the schedule of its samples | `Tick` (a sample, a pass between two, or an unavailable pedal), `set_assignment`, `set_calibration` |
| `BoundedFifo` | what the TRS queue promises | abstract specification |
| `MidiQueue` | the ring | `Enqueue` is `push`, `Service` is `pop` |
| `PedalRuntime` | live engine, main loop | `BeginTick`, `HandleSwitch`, `HandleChord`, `SampleExpression`, `EndTick`, `ServiceUsb`, `FinishPass` are the parts of a pass; `ExecuteSlot` is one iteration of the loop in `execute`, `FinishPreset` its end; `Restart` is a reset. Its gestures are constrained as `SwitchGestures` shows: Press and Release alternate and a chord excludes presses |
| `DeckFonts`, `DeckDrawing` | the widths of the fonts; what `draw_tile` draws in each region | layers of shapes; a pixel's ink is that of the last shape that covers it |
| `LiveView` | the view that `PedalRuntime::render` fills in | |
| `Panel` | the panel's controller, as far as it decides where a pixel appears (external), and `initialize`, `set_window` | `Obeyed` carries out a command |
| `LiveDisplay` | renderer and display driver | extends the four above. `Tick` renders and presents a state of the engine, `Service` is `St7796sDisplay::service`, `FinishDma` the end of a transfer by DMA, `Restart` a reset |
| `…Proofs` | | proofs about `ConfigStore`, `EditorLink`, `EditorState`, `SwitchGestures`, `Expression`, `MidiQueue`, `PedalRuntime`, `LiveDisplay` |
| `MC…` | | small instances for TLC |

An image is a value wherever bytes do not matter (store, link, engine): a damaged one is one
that does not verify. `ConfigImage` has the bytes. Names that end in `_Something`
(`Remember_Forever`, `Box_Corner`) are variants of a definition with a plausible mistake;
`PROJECT.json` lists, for every property, the variant that breaks it.

How the models meet: `SerialLink` shows that the line is a `LossyChannel` in both directions,
which is the wire of `EditorLink`; `EditorLink` composes editor, wire, dispatcher, service
and an abstract store; `ConfigStore` refines that store's atomic activation; `EditorState`
takes a sync as a whole, with the outcomes `EditorLink` has, and decides by `ConfigImage`
whether the pedal accepts it; `PedalRuntime` takes an activation as a step of `ServiceUsb`,
gestures as `SwitchGestures` describes them and an expression message as something that may
be due, which `Expression` says more about; the queue behind `PedalRuntime.queued` is
`MidiQueue`; `LiveDisplay` starts from the states of the engine as `render` reads them.

## 3. Runs

| run | instance | what it shows |
|---|---|---|
| `store_atomicity` | two one-page images, two calibrations, four generations, power loss anywhere | `StoreInvariant`, the inductive invariant of the proofs, holds; the durable image is an `AtomicRegister`; RAM copies equal what a reboot finds; working flash means success |
| `store_faults` | images of one and two pages, any chunks, flash operations that return false; at most one calibration | types; the running image never loses a page; no success is reported that is not durable |
| `link_sessions` | one call at a time, two sessions, power cycles, all three maintenance commands | retried mutations execute once, and are executed if taken as done; a connection shows the active configuration; calls end |
| `link_two_syncs` | two syncs at a time, two attempts, at most two frames in flight | no mixture is activated; a reported success was an activation |
| `link_stale_bank` | syncs in sequence | **violation**: the pedal plays the old bank after "synchronized" |
| `serial_frames` | three requests, two faults, a queue of two responses | both directions are lossy channels and nothing is lost but what a cut hits |
| `editor_image` | two banks, one preset each, two files, two edits | a valid draft reaches the pedal and comes back, an invalid one comes back as what the pedal has or not at all; ids are unique; a clean draft is on the pedal |
| `switch_gestures` | three switches, two chords, bouncing or resting contacts | gestures exclude each other, alternate, keep time; steady presses are reported |
| `expression_pedal` | an unplugged pedal and the ends of its travel, two calibrations, three assignments, a wrapping clock | a resting pedal is shown and sent; messages keep their distance; values stay in range |
| `queue_order` | a ring of four, two messages | it implements `BoundedFifo` |
| `live_engine` | two switches, two pages, images of two banks and of one, a queue of two | presets run whole and in order, positions move last, losses show, the working bank is the active one |
| `live_display` | four states of the engine with and without a pressed switch, 32 pixels of the real screen | redrawing parts equals drawing all; the panel ends up with the view that stays |

Deadlock is checked except in the runs of the link, where the bounds on request ids and
sessions let the system stop.

Five more configurations are kept beside the runs. Each reproduces a property that a comment
or a design document suggests and the code does not have; section 5 tells what they show:
`StoreSettingsCut.cfg` (module `MCConfigStore`), `LinkLostAnswer.cfg` and
`LinkResetReconnect.cfg` (`MCEditorLink`), `SwitchLostPress.cfg` (`MCSwitchGestures`), `LiveBankAlias.cfg` (`MCPedalRuntime`).

### Bounds, and why they are enough

- *Store.* `GenerationModulus = 4` stands for 2³²: the code only compares a generation with
  its successor, and wrapping is reached. One page per image suffices for atomicity, since
  whether an image is whole is all the plan asks; `store_faults` has two pages, chunks of two
  and a slot of one sector so that overlapping, partial and reordered writes happen.
  `OneCalibration` bounds that run only; any number of calibrations is in `store_atomicity`.
- *Link.* `CacheCapacity = 3` (2 in the runs of one session) is below the number of requests
  of connecting to a pedal with an image (with `BankCount = 2`: capabilities, info, two reads)
  and of a sync, as 16 is below 130 and 55. It is above that of connecting to a pedal without
  an image and one more request, as 16 is: what the cache then answers from the session before
  is in `link_sessions`, which therefore starts with and without an image (`FirstImages`). `ChunkCount` stands for the sectors of an image. `MaxRequestId`, `MaxSequence`
  and `MaxSessions` end the exploration; the first leaves room for a connection and a sync
  with retries, or for two syncs. `OtherIds` says at which request ids a maintenance command
  may start: right after connecting and in the midst of what follows. `FewInFlight` bounds what
  two syncs have on the wire: each waits for one request, so two covers one copy for each, and
  late duplicates.
- *Frames.* Payloads of none and three bytes, the largest there may be; four and nine bytes
  (`Arrivals`) may be read at once, so that a frame is split anywhere and two are joined;
  `PortRoom = 7` is below any response, so each takes two or three flushes, and
  `CdcQueueCapacity = 2` fills. The noises are a lone first byte of the magic and a text that
  ends in a piece of one. Two faults are one to leave a piece behind and one to hit the recovery.
- *Editor.* Names and labels of two characters and presets of two messages are full at once.
  Typed numbers are in range, beyond MIDI's and beyond a byte; the label has a character of
  two bytes, the accent 17 bits, and one file uses the last id there is, so that none remains. Any number of imports, connections and syncs come between two edits; what an
  edit may be depends only on the draft, and every draft that one edit makes of the factory
  document or of a file is edited again (`BeforeLastEdit`).
- *Switches.* The thresholds are scaled down in the order of the real ones (20, 35, 300, 500,
  600 and 200 ms become 2, 4, 5, 6, 7 and 2); a pass may come `MaxGap` late, more than a
  repeat interval, and update() depends on the order in which thresholds are passed.
  `Rests` gives the shortest time between two changes of the contacts; 0 lets them bounce at
  will, 7 is past debouncing and the window. `HeldMax` bounds how long a chord is held: five
  repeats.
- *Expression.* Window and divisor of the filter are the real ones, and 16 steps between two
  readings leave the fraction that it needs to settle, as 256 do. The readings are an unplugged
  pedal and the two ends of the first calibration, which lie beyond those of the second, so
  that clamping happens. The clock wraps after
  three messages. `SettleSamples = 18` is how long the filter takes from one end to the other
  here, and from when on the pedal counts as at rest.
- *Queue.* With four places and two messages the ring is full, empty and wrapped in every
  phase.
- *Live engine.* The presets were chosen for what makes execution hard: more messages than
  the queue takes, both positions, navigation by page and by bank in between, toggles on a
  trigger before which navigation happens. Presets' ids are distinct modulo `PresetCount`.
- *Display.* The layout, the fonts' widths, the buffers and the panel's commands are the real
  ones. Drawing, comparing and sending treat every pixel alone, so the run follows 32 of the
  153600: at corners and gaps, under texts of either view, in the meter, at the edges of bands.
  The states are a normal one, another page with other labels, a bank with diagnostics, and no
  bank; rows go out 120 at a time instead of 4, so that a transfer takes up to three chunks
  and states change between them.

### Fairness

- `CallsEnd`: `FairSpec` of `EditorLink` has weak fairness of `Deliver` (the browser hands over
  what has arrived) and `Timeout` (its timers fire). Nothing is assumed of the pedal or of the
  wire: they may lose everything and never answer.
- `ViewIsShown`: `Spec` of `LiveDisplay` has weak fairness of `Service`, which the main loop
  calls in every pass, and of `FinishDma`, since a transfer to the SPI port takes its time and
  ends. Nothing is assumed of how often states change or switches are pressed: the property
  is about a state that stays.

No fairness is needed elsewhere. A pass of the firmware is not assumed to be fast.

## 4. Proofs

The theorems hold for every value of the constants that satisfies the modules' named
assumptions.

- `ConfigStoreProofs`. `TypeCorrect` and `RepliesAreTruthful` need nothing more, and neither
  does `RunningImageAlwaysIntact`: also where flash operations fail and the RAM copies fall
  behind the sectors, no upload is written into the slot in use. That takes one fact besides
  the property: the slots of the image in use and of a staged upload differ (`SlotsApart`),
  because an upload takes the slot that `scan` did not select and whatever `scan` selects it
  has found whole. `StoreIsSafe`
  proves `StoreInvariant`, on which the others rest, under `~FlashCanFail`: an operation
  that is not cut by a power loss succeeds. During a plan the RAM copies are behind the
  sectors, so the invariant says,
  for each stage of a plan, which sector holds a record of the image in use: the newest
  readable record always describes it (`TopIsActive`), an upload is in the other slot
  (`UploadIsApart`), and the sector that is not being rewritten is the fallback
  (`PlanIsSafe`). With failing operations the records can get out of step with the RAM
  copies, and these do not hold. `StoreImplementsRegister` maps the
  durable image, as `Scan` of the sectors would find it, to the value of `AtomicRegister` and
  the image of an activation in progress to its request; the step that takes effect is the
  `ProgramSector` of the peer sector. `RunningStaysDurable` adds the calibration
  (`CalibrationInvariant`): RAM and sectors agree except in the sector that is being rewritten,
  and a calibration is in both sectors when its plan ends. `SuccessAlwaysReported` follows
  because the record that a plan writes last is the one `scan` then finds.
- `EditorLinkProofs`. `OnlyWholeImagesActivate` is about two or more syncs that share the one
  staged upload. What makes it harmless is `VerifiedIsWhole`: a verified upload is in flash
  chunk by chunk, because every chunk and every new upload take the verification back.
  `LinkTypeCorrect` rests on `LinkInvariant`, which narrows what a call, a frame and an answer
  may be: that a chunk's image is an image is known only from the step of the call that sent it.
  `OneCallExecutesOnce` proves `NeverExecutedTwice` for one call at a time, which is what
  `link_sessions` explores, for a replay cache of any size. Its `OnceInvariant` says that the
  wire holds requests in the order in which sessions and ids were given out (`InOrder`), and
  that a request still on the wire, or that a call may yet send again, does not come before
  anything executed in this session and is held by the cache if it was itself executed
  (`WireCovered`, `CallCovered`). A request that is taken off
  the wire and is not in the cache is then newer than all that was executed (`Increasing`),
  and what remains on the wire does not come before it. The hypothesis is needed: see "Link" in
  section 5.
- `MidiQueueProofs`. The invariant ties `write` to `(read + size) % Capacity` and says that
  what lies between was pushed; `QueueImplementsFifo` then maps the ring to the sequence of
  its contents.
- `SwitchGesturesProofs`. `SwitchInvariant` (exclusion, and that the switches with an open
  Press are exactly those the engine holds active) is inductive over `Update`.
  `RepeatsKeepTheirRate` assumes `BatchHoldsAll`: a pass is never so late that it owes more
  repeats than a batch of 16 events holds. The watchdog sees to that: it resets the pedal
  after 2000 ms, in which ten intervals of 200 ms pass. `SteadyPressesAreReported` rests on
  `SteadyInvariant`: when edges are further apart than debouncing and the chord window take,
  the mask before an edge is stable (`SettledAtEdge`), so the first switch to go down opens a
  window that cannot close before the switch is stable (`WindowMeetsEdge`); without a window
  every switch that is down has been reported (`AllAreReported`).
- `ExpressionProofs`. `ExpressionTypeCorrect` needs that the filter never leaves the range of
  its readings and that the mapping stays within the assignment. The median is defined by what
  it is, so that there is one has to be proved: a finite set of integers has a least and a
  greatest member because strict inclusion is well-founded on finite sets. `RateAlwaysLimited`
  rests on `ClockTellsPause`: the clock wraps, but until `EmitMs` have passed since a message
  it tells exactly how long ago that was.
  `RestAlwaysShown` and `RestAlwaysSent` are about a filter that runs for as many samples as it
  takes, which needs no induction: `rest` counts equal samples already, so that a table of what
  may be left of the way after each of them (`Shrinks`) is an invariant (`FilterFollows`). A step
  of the filter leaves less of a shorter way (`StepShrinks`, which is about division that
  truncates), and less than half a step of the ADC rounds to the reading (`RoundsToReading`).
  Readings that are off in the minority do not reach the filter at all (`MedianOfMajority`).
  That there is such a table, `FilterSettles`, is the hypothesis on the constants, and
  `CodeSettles` proves it for the numbers of the code with a table of 42 entries. For what is sent,
  `CalmIsTimed` says that the clock of the limit has run for at least as long as the pedal rests
  unsent. `PassesAreShort` is the second hypothesis: a pass that takes more than half the
  range of the 32-bit millisecond clock, 24 days, could make a sample look not yet due.
- `PedalRuntimeProofs`. Between two passes the USB side may replace the configuration, so
  "the working bank is of the active image" is not inductive. `RuntimeInvariant` says instead
  that the working bank is of *some* image whose status the snapshot holds
  (`BankIsOfSnapshot`) and that this status is the active image's once a tick has begun
  (`SnapshotIsCurrent`); `PlaysTheActive` follows because, by `RuntimeAssumption`, a status
  tells images apart. `LossesAreShown` needs that a loss is in `overflow` or still in
  `dropped`, which the end of a tick empties into `overflow`; `ConfigurationWaits` that
  everything done for a gesture has set the latch by the time the USB side has its turn.
  `PresetsRunWhole` and `PositionsMoveLast` add `PresetOnItsWay`: until a message changes the
  bank, the reference that `execute` reads through is the preset of the event, and the slots
  performed are exactly those the event asks for below the loop's index, in order. A message
  that was performed is recorded with its slot, so that this is a statement about sets of
  indices and needs no induction over the sequence.
- `LiveDisplayProofs`. `FramesAreFresh` and `PanelsShowFrames` rest on `DisplayInvariant`.
  `FrameInvariant` says that the frame is what drawing `previous` at once gives and that
  `last_view`, which decides whether there is anything to draw, gives the same layers. A
  view that is drawn in part keeps this because regions are apart, a band is at the top of its
  region or cut off where the next begins, the box of a band holds every pixel that changed, and a
  region that is not redrawn has the same layers in both views. `PanelInvariant` says that the
  panel is on and addressed as the driver set it up (`Readable`), that the rows sent so far
  are the frame's unless a further transfer is due (`TransferInvariant`), and that otherwise
  panel and frame agree. That the commands of `initialize` leave the panel readable, and that a
  chunk fills the window's next rows in order, are lemmas. The last conjunct of `DisplayAssumption` asks
  that some followed pixel is in a region: with none, there would be nothing to draw, and a
  panel without a picture would never be due a transfer.
- `EditorStateProofs`. `CleanDraftAlwaysOnPedal` derives one property of the run from another:
  given that drafts reach the pedal (`ValidDraftReachesPedal`, which is about the codec), the
  marks of the editor are right for documents and files of any kind. `PedalInvariant` says
  that what the pedal runs, and what a sync under way may make it run, is read back as a
  document that compiles to the same image, and that an upload is the draft unless it was
  touched. `IdsAlwaysUnique` is about documents of any size. `Ids` is a function of
  the places of a document: a place is a bank, page, preset or message by its indices.
  `EditorInvariant` adds to uniqueness that every bank has the shape of the schema (`Shaped`)
  and that the selection is within the document; without the shape an edit could put a part
  where `Ids` does not look. Every edit comes down to one lemma, `IdsAfterEdit`: outside one preset
  nothing changes its id, and in it every message has an id that the preset had, or one that no part
  has. A removed or moved message leaves the others different (`DifferRemoved`,
  `DifferInserted`); an added one is larger than all (`LargestId`). That the default ids of
  banks, pages and presets are apart (`FactoryUnique`) is arithmetic, and needs what
  `ImageAssumption` says: at most 255 banks, four pages and four presets.

Only model-checked:

- `NeverExecutedTwice` for several calls, `AcceptedIsExecuted`, `ConnectShowsActive`: they are
  true of the sizes the code has (a cache smaller than what connecting sends, larger than what
  one call leaves on the wire) and false of others, so they are no theorems about all constants.
  The last two are also about few sessions in a row: each can leave one more answer behind, and
  after some 130 interrupted reconnections the next could be answered from the cache alone.
- `SyncIsTrue`: it is about which answers of two calls can be on the wire together.
- `CallsEnd`, `ViewIsShown`: liveness under fairness is out of the prover's reach.
- The decoders and the line (`RequestsArrive`, `ResponsesArrive`, `LineIsLossyChannel`): `Frames`
  has recursive operators, and what it decodes depends on checksums that do not collide.
- `ValidDraftReachesPedal`: that what is encoded is read back is a fact about folds over
  sequences, which needs induction over data.

## 5. What the models show about the code

One violation is listed as a finding in `PROJECT.json`, and more came up on the way.

**After "synchronized" the pedal may play the old bank** (`link_stale_bank`,
`pedal_runtime.cpp:102`). The control loop recognises a new image by a sequence number. When
the answer to an activation is lost, the editor's next sync uses the same number again.

Refuted by the configurations kept beside the runs:

- `StoreSettingsCut`: two power losses can bring back an older calibration, because an
  activation may erase the sector that holds the only copy of the newest one
  (`config_store.cpp:245`).
- `LinkLostAnswer`: a sync that fails may have changed the configuration, when its activation
  was executed and its answers were lost (`synchronize.ts:21`; `docs/protocol.md:53` says
  that the previous configuration stays).
- `LinkResetReconnect`: on a pedal without an image, connecting takes two requests, which the
  replay cache still holds when a factory reset and a reconnection follow. The reconnection,
  whose ids and commands are the same, is answered from the cache: the editor says that there is no
  configuration, while the pedal has the factory one (`protocol_dispatcher.cpp:70`).
  `ConnectShowsActive` is what remains true: a configuration that is shown is the active one.
- `SwitchLostPress`: the chord window can close while a switch is down but not yet stable,
  and its press is then never reported (`switch_engine.cpp:103`).
- `LiveBankAlias`: a preset is executed through a reference into the working bank, and after
  a message that changes the bank goes on with another preset's messages
  (`pedal_runtime.cpp:154`).

Hazards of the code that no property covers are listed in `PROJECT.json` with their reason:
a flash write may come between a Press and its Release while the release is being debounced,
or while an expression pedal moves; presets whose ids are congruent modulo 2048 share a
position; and the calibration above.

Behaviour that the models contain, without a property about it:

- *Editor.* `validateDraft` has no caller, so a draft that validation would refuse is
  uploaded. Most of these the pedal refuses, but an expression maximum of 200 it accepts; the
  editor then refuses the pedal's configuration at the next connection. An edit of a message
  is merged into the old one, so fields of the former type stay, and `BANK_SET` changed to a
  relative navigation keeps its `target`, which the pedal refuses. Numbers above 255 are cut to
  a byte. `nextId` throws when the last id is in use. A sync that succeeds clears the dirty
  flag of edits made while it ran (`touched` in `EditorState`). Connecting again after the
  connection was lost replaces the unsynchronized draft.
- *Link.* Two syncs at a time can have the pedal execute a mutation twice: if an answer is lost,
  the other sync's requests may push it out of the replay cache before the retry, 1000 ms
  later. On a pedal without an image the replay cache can answer the first sync of a session
  from the one before. A connection that fails while reading leaves a port open that nobody
  owns (`phase = "abandoned"`). The sample of the expression pedal is printed without its
  thousands, so that readings from 1000 to 1099 are no valid JSON (`UNREADABLE`).
- *Frames.* The beginning of a request that was cut off swallows what follows, up to the
  longest frame.
- *Store.* `validate_all_banks` passes an image with no banks, which no editor makes.
- *Gestures.* A switch that outlasts its chord emits a Press (`EndChord` opens a new window).
- *Expression.* Samples and filter of an unplugged pedal are kept for the next; a message
  that the full TRS queue refuses counts as sent. There is no hysteresis of one step, which the
  design document asks for.
- *Display.* Long labels in the fallback font are clipped, wide ones in the footer overlap
  the meter.

## 6. Not modelled

- Glyphs' dots and anti-aliasing: a text is its characters' cells, each of one ink.
- The screens' layout, theme and wording, file dialogs, the migration of older files,
  `draft.resetToDevice`, which nothing in the editor dispatches.
- CRC arithmetic: a checksum tells a damaged frame, record or image from a whole one.
- Boot, watchdog, ADC and switch reading: straight-line initialisation and single register
  accesses. That the watchdog does not reset the pedal during a long flash operation is a
  matter of time that the models do not have.
- TinyUSB, the Pico SDK, the browser's serial port: modelled as their callers use them.
- The simulated transport, a stand-in for the pedal in tests and demonstrations.
- Images that differ while sequence and bank count are equal are excluded from
  `PedalRuntime` by its assumption; they are the subject of `link_stale_bank`.

## 7. Plan

The modules were built in this order: the store, the link, the inputs and outputs of the live
engine, the live engine, the bytes of the line, the expression pedal, the display, the editor
with its image. What could follow:

1. Which records survive when flash operations fail (`PlanIsSafe` with `FlashCanFail`), so that
   the durable image, too, is known not to go back there.
2. Preset ids that collide modulo 2048, and flash writes between Press and Release, once the
   code says what should happen.

---------------------------- MODULE ConfigStore ----------------------------
(***************************************************************************)
(* firmware/src/core/config_store.cpp: the crash-safe configuration store. *)
(*                                                                         *)
(* The flash holds two image slots and two metadata sectors. A sector      *)
(* carries one metadata record (which slot holds which image) and one      *)
(* settings record (the expression calibration), each with a generation    *)
(* and a CRC of its own. Everything else is RAM that a power loss destroys *)
(* and scan() rebuilds.                                                    *)
(*                                                                         *)
(* A step is one flash operation (the erase or the program of a metadata   *)
(* sector) or one call that needs no metadata write, so power can be lost  *)
(* between any two of them and in the middle of each.                      *)
(***************************************************************************)
EXTENDS Integers

CONSTANTS
  Images,              \* configuration images, told apart by sequence, size and CRC
  ImagePages,          \* [Images -> Nat]: how many pages each image takes
  PageCount,           \* pages in an image slot
  PagesPerSector,      \* pages erased together
  ChunkPages,          \* the longest WRITE_CHUNK, in pages
  Calibrations,        \* calibrations that pass valid_calibration
  DefaultCalibration,  \* {0, 4095}, in use while no settings record is valid
  GenerationModulus,   \* 2^32 in the code: generations are uint32_t
  FlashCanFail,        \* may erase/program return false? never for PicoFlashPort in bounds
  Erased,              \* a page of 0xff
  Garbled,             \* a page that belongs to no image
  Nil                  \* a record that is absent or fails its CRC

Index == {0, 1}        \* names both the two slots and the two metadata sectors
Pages == 0 .. PageCount - 1
Generations == 0 .. GenerationModulus - 1
Cells == Images \cup {Erased, Garbled}

Metadata == [generation : Generations, slot : Index, image : Images]
Settings == [generation : Generations, calibration : Calibrations]
Uploads == [slot : Index, image : Images, verified : BOOLEAN, erased : SUBSET Pages]
Jobs == [kind : {"activate", "calibrate"}, target : Index,
         peerMetadata : Metadata \cup {Nil}, targetMetadata : Metadata \cup {Nil},
         settings : Settings]

ASSUME StoreAssumption ==
  /\ PageCount \in Nat \ {0}
  /\ PagesPerSector \in Nat \ {0}
  /\ ChunkPages \in Nat \ {0}
  /\ ImagePages \in [Images -> 1 .. PageCount]
  /\ DefaultCalibration \in Calibrations
  /\ GenerationModulus \in Nat /\ GenerationModulus > 2
  /\ FlashCanFail \in BOOLEAN
  /\ Erased \notin Images /\ Garbled \notin Images /\ Erased # Garbled
  /\ Nil \notin Images \cup Calibrations \cup Metadata \cup Settings \cup Uploads \cup Jobs

VARIABLES
  flash,             \* [Index -> [Pages -> Cells]]: the two image slots
  sector_metadata,   \* [Index -> ...]: the metadata record in each sector
  sector_settings,   \* [Index -> ...]: the settings record in each sector
  metadata,          \* metadata_: RAM copy of the metadata records
  settings,          \* settings_: RAM copy of the settings records
  active,            \* active_: the record of the image in use, or Nil
  active_index,      \* active_metadata_index_
  calibration,       \* expression_calibration_
  upload,            \* upload_, or Nil
  job,               \* the activate/calibrate call being executed, or Nil
  stage,             \* which of its sector writes comes next
  wiped,             \* that sector has been erased and not yet programmed
  reply              \* what the last such call returned

flash_vars == <<flash, sector_metadata, sector_settings>>
ram_vars == <<metadata, settings, active, active_index, calibration>>
call_vars == <<job, stage, wiped, reply>>
vars == <<flash_vars, ram_vars, upload, call_vars>>

-----------------------------------------------------------------------------
Other(i) == 1 - i

NextGeneration_NoWrap(g) == g + 1
NextGeneration(g) == IF g = GenerationModulus - 1 THEN 0 ELSE g + 1

Newer_Unsigned(left, right) == left > right

\* newer(): the sign of the wrapped 32-bit difference.
Newer(left, right) ==
  LET diff == IF left >= right THEN left - right
                               ELSE left - right + GenerationModulus
  IN  0 < diff /\ 2 * diff < GenerationModulus

\* image_valid(): every page of the declared image is there (header, CRC, banks).
ImageValid(F, slot, image) == \A p \in 0 .. ImagePages[image] - 1 : F[slot][p] = image

\* The indices scan() would accept, and the one it prefers: 0 wins a tie.
Bootable(M, F) == {i \in Index : M[i] # Nil /\ ImageValid(F, M[i].slot, M[i].image)}
Newest(R, candidates) ==
  IF 0 \in candidates /\ (1 \notin candidates \/ ~Newer(R[1].generation, R[0].generation))
  THEN 0 ELSE 1

\* newest_settings_index()
ValidSettings(S) == {i \in Index : S[i] # Nil}
NewestSettings(S) == S[Newest(S, ValidSettings(S))]
EffectiveCalibration(S) ==
  IF ValidSettings(S) = {} THEN DefaultCalibration ELSE NewestSettings(S).calibration

SelectedMetadata(M, F) == IF Bootable(M, F) = {} THEN Nil ELSE M[Newest(M, Bootable(M, F))]

\* scan(): rebuild the RAM from what the flash now holds.
Scan(M, S, F) ==
  /\ metadata' = M
  /\ settings' = S
  /\ calibration' = EffectiveCalibration(S)
  /\ active' = SelectedMetadata(M, F)

\* (Definitions whose names have a suffix _Something are deliberately wrong variants of
\* the definition that follows them; they show that the properties notice.)

\* What the store would come up with if power were cut now.
DurableImage ==
  LET selected == SelectedMetadata(sector_metadata, flash)
  IN  IF selected = Nil THEN Nil ELSE selected.image
DurableCalibration == EffectiveCalibration(sector_settings)
-----------------------------------------------------------------------------
\* A blank flash, scanned by the constructor.
Init ==
  /\ flash = [i \in Index |-> [p \in Pages |-> Erased]]
  /\ sector_metadata = [i \in Index |-> Nil]
  /\ sector_settings = [i \in Index |-> Nil]
  /\ metadata = sector_metadata
  /\ settings = sector_settings
  /\ active = Nil
  /\ active_index = 0
  /\ calibration = DefaultCalibration
  /\ upload = Nil
  /\ job = Nil
  /\ stage = "idle"
  /\ wiped = FALSE
  /\ reply = "none"

(***************************************************************************)
(* Staged upload.                                                          *)
(***************************************************************************)
UploadSlot_First == 0
UploadSlot == IF active # Nil THEN Other(active.slot) ELSE 0

BeginUpload(image) ==
  /\ stage = "idle"
  /\ upload' = [slot |-> UploadSlot, image |-> image, verified |-> FALSE, erased |-> {}]
  /\ UNCHANGED <<flash_vars, ram_vars, call_vars>>

SectorOf(p) == p \div PagesPerSector
ChunkAccepted(first, last) ==
  /\ upload # Nil
  /\ first <= last
  /\ last - first < ChunkPages
  /\ last < ImagePages[upload.image]

\* The pages erase_upload_sectors erases for this chunk: whole sectors, once an upload.
FreshlyErased(first, last) ==
  {p \in Pages : \E q \in first .. last : SectorOf(p) = SectorOf(q)} \ upload.erased

WithErased(slot, pages) == [p \in Pages |-> IF p \in pages THEN Erased ELSE flash[slot][p]]

\* Programming can only clear bits: what was not erased ends up a mixture.
Programmed(cell, data) == IF cell \in {Erased, data} THEN data ELSE Garbled

\* write_chunk: the host sends pages first..last of data, whatever it declared.
WriteChunk(first, last, data) ==
  LET fresh == FreshlyErased(first, last)
      base == WithErased(upload.slot, fresh)
  IN
  /\ stage = "idle"
  /\ ChunkAccepted(first, last)
  /\ flash' = [flash EXCEPT ![upload.slot] =
       [p \in Pages |-> IF p \in first .. last THEN Programmed(base[p], data) ELSE base[p]]]
  /\ upload' = [upload EXCEPT !.verified = FALSE, !.erased = @ \cup fresh]
  /\ UNCHANGED <<sector_metadata, sector_settings, ram_vars, call_vars>>

VerifyUpload ==
  /\ stage = "idle"
  /\ upload # Nil
  /\ ImageValid(flash, upload.slot, upload.image)
  /\ upload' = [upload EXCEPT !.verified = TRUE]
  /\ UNCHANGED <<flash_vars, ram_vars, call_vars>>
-----------------------------------------------------------------------------
(***************************************************************************)
(* activate_upload and set_expression_calibration plan their sector writes *)
(* from the RAM copies and then execute them one flash operation at a time.*)
(***************************************************************************)
Start(newJob, firstStage) ==
  /\ job' = newJob
  /\ stage' = firstStage
  /\ wiped' = FALSE
  /\ reply' = "none"
  /\ UNCHANGED <<flash_vars, ram_vars, upload>>

\* The sector activate_upload writes last: the older record, or the missing one.
ActivationTarget ==
  IF metadata[0] # Nil /\ (metadata[1] = Nil \/ Newer(metadata[0].generation, metadata[1].generation))
  THEN 1 ELSE 0

ActivationSettings ==
  IF ValidSettings(settings) = {}
  THEN [generation |-> 1, calibration |-> calibration]
  ELSE NewestSettings(settings)

HasCurrentFallback_AnyImage(target, effective) ==
  target \in Bootable(metadata, flash) /\ settings[target] = effective

\* target_has_current_fallback
HasCurrentFallback(target, effective) ==
  /\ target \in Bootable(metadata, flash)
  /\ active # Nil =>
       /\ metadata[target].slot = metadata[active_index].slot
       /\ metadata[target].image = metadata[active_index].image
  /\ settings[target] = effective

Activate ==
  LET target == ActivationTarget
      effective == ActivationSettings
      next == [generation |-> IF active # Nil THEN NextGeneration(active.generation) ELSE 1,
               slot |-> upload.slot, image |-> upload.image]
      mustCopy == /\ active # Nil
                  /\ active_index = Other(target)
                  /\ ~HasCurrentFallback(target, effective)
  IN
  /\ stage = "idle"
  /\ upload # Nil
  /\ upload.verified
  /\ Start([kind |-> "activate", target |-> target,
            peerMetadata |-> metadata[IF active # Nil THEN active_index ELSE Other(target)],
            targetMetadata |-> next, settings |-> effective],
           IF mustCopy THEN "copy" ELSE "peer")

SetCalibration(c) ==
  LET valid == ValidSettings(settings)
      next == [generation |-> IF valid = {} THEN 1
                              ELSE NextGeneration(NewestSettings(settings).generation),
               calibration |-> c]
      first == IF valid = {} THEN 0 ELSE Other(Newest(settings, valid))
      target == IF active # Nil THEN active_index ELSE Other(first)
  IN
  /\ stage = "idle"
  /\ Start([kind |-> "calibrate", target |-> target,
            peerMetadata |-> metadata[IF active # Nil THEN active_index ELSE first],
            targetMetadata |-> metadata[target], settings |-> next],
           "peer")

\* The sector and the metadata record of the write in progress.
StageIndex == IF stage = "peer" THEN Other(job.target) ELSE job.target
StageMetadata == IF stage = "target" THEN job.targetMetadata ELSE job.peerMetadata

\* write_sector, first half.
EraseSector ==
  /\ stage # "idle"
  /\ ~wiped
  /\ sector_metadata' = [sector_metadata EXCEPT ![StageIndex] = Nil]
  /\ sector_settings' = [sector_settings EXCEPT ![StageIndex] = Nil]
  /\ wiped' = TRUE
  /\ UNCHANGED <<flash, ram_vars, upload, job, stage, reply>>

\* write_sector, second half, with the RAM update that follows it.
Program ==
  /\ wiped
  /\ sector_metadata' = [sector_metadata EXCEPT ![StageIndex] = StageMetadata]
  /\ sector_settings' = [sector_settings EXCEPT ![StageIndex] = job.settings]
  /\ wiped' = FALSE
  /\ UNCHANGED flash

ProgramSector ==
  /\ stage \in {"copy", "peer"}
  /\ Program
  /\ metadata' = [metadata EXCEPT ![StageIndex] = StageMetadata]
  /\ settings' = [settings EXCEPT ![StageIndex] = job.settings]
  /\ stage' = IF stage = "copy" THEN "peer" ELSE "target"
  /\ UNCHANGED <<active, active_index, calibration, upload, job, reply>>

Finish_Optimistic(answer) ==
  /\ job' = Nil
  /\ stage' = "idle"
  /\ reply' = "true"

Finish(answer) ==
  /\ job' = Nil
  /\ stage' = "idle"
  /\ reply' = answer

FinishActivation ==
  LET bootable == Bootable(sector_metadata', flash)
      found == SelectedMetadata(sector_metadata', flash)
      next == job.targetMetadata
  IN
  /\ stage = "target" /\ job.kind = "activate"
  /\ Program
  /\ upload' = Nil
  /\ Scan(sector_metadata', sector_settings', flash)
  /\ active_index' = IF bootable = {} THEN active_index ELSE Newest(sector_metadata', bootable)
  /\ Finish(IF found # Nil /\ found.image = next.image /\ found.slot = next.slot
            THEN "true" ELSE "false")

FinishCalibration_NotAdopted ==
  /\ stage = "target" /\ job.kind = "calibrate"
  /\ Program
  /\ settings' = [settings EXCEPT ![StageIndex] = job.settings]
  /\ Finish("true")
  /\ UNCHANGED <<metadata, active, active_index, calibration, upload>>

FinishCalibration ==
  /\ stage = "target" /\ job.kind = "calibrate"
  /\ Program
  /\ settings' = [settings EXCEPT ![StageIndex] = job.settings]
  /\ calibration' = job.settings.calibration
  /\ Finish("true")
  /\ UNCHANGED <<metadata, active, active_index, upload>>

\* A FlashPort that returns false ends the call with what it has written so far:
\* the sectors erased for the chunk, or the sector writes already done.
WriteChunkFails(first, last) ==
  /\ FlashCanFail
  /\ stage = "idle"
  /\ ChunkAccepted(first, last)
  /\ \E sectors \in SUBSET {SectorOf(p) : p \in FreshlyErased(first, last)} :
       LET gone == {p \in FreshlyErased(first, last) : SectorOf(p) \in sectors}
       IN  /\ flash' = [flash EXCEPT ![upload.slot] = WithErased(upload.slot, gone)]
           /\ upload' = [upload EXCEPT !.verified = FALSE, !.erased = @ \cup gone]
  /\ UNCHANGED <<sector_metadata, sector_settings, ram_vars, call_vars>>

FlashFails ==
  /\ FlashCanFail
  /\ stage # "idle"
  /\ wiped' = FALSE
  /\ Finish("false")
  /\ UNCHANGED <<flash_vars, ram_vars, upload>>
-----------------------------------------------------------------------------
(***************************************************************************)
(* Power loss, followed by the scan of the next boot. A torn erase loses   *)
(* or keeps each record, a torn program completes or loses each record:    *)
(* the CRCs make everything in between unreadable.                         *)
(***************************************************************************)
Reboot(M, S, F) ==
  /\ flash' = F /\ sector_metadata' = M /\ sector_settings' = S
  /\ Scan(M, S, F)
  /\ active_index' = IF Bootable(M, F) = {} THEN 0 ELSE Newest(M, Bootable(M, F))
  /\ upload' = Nil
  /\ job' = Nil
  /\ stage' = "idle"
  /\ wiped' = FALSE
  /\ reply' = "none"

PowerLossIdle ==
  /\ stage = "idle"
  /\ Reboot(sector_metadata, sector_settings, flash)

PowerLossInErase ==
  /\ stage # "idle" /\ ~wiped
  /\ \E m \in {sector_metadata[StageIndex], Nil}, s \in {sector_settings[StageIndex], Nil} :
       Reboot([sector_metadata EXCEPT ![StageIndex] = m],
              [sector_settings EXCEPT ![StageIndex] = s], flash)

PowerLossInProgram ==
  /\ wiped
  /\ \E m \in {StageMetadata, Nil}, s \in {job.settings, Nil} :
       Reboot([sector_metadata EXCEPT ![StageIndex] = m],
              [sector_settings EXCEPT ![StageIndex] = s], flash)

\* A chunk cut short leaves each page it concerns old, erased, complete or garbled.
PowerLossInChunk(first, last, data) ==
  /\ stage = "idle"
  /\ ChunkAccepted(first, last)
  /\ \E torn \in [FreshlyErased(first, last) \cup (first .. last) -> {Erased, Garbled, data}] :
       Reboot(sector_metadata, sector_settings,
              [flash EXCEPT ![upload.slot] =
                 [p \in Pages |-> IF p \in DOMAIN torn THEN torn[p] ELSE @[p]]])

PowerLoss ==
  \/ PowerLossIdle
  \/ PowerLossInErase
  \/ PowerLossInProgram
  \/ \E first, last \in Pages, data \in Images : PowerLossInChunk(first, last, data)

Operation ==
  \/ \E image \in Images : BeginUpload(image)
  \/ \E first, last \in Pages, data \in Images : WriteChunk(first, last, data)
  \/ VerifyUpload
  \/ Activate
  \/ \E c \in Calibrations : SetCalibration(c)
  \/ EraseSector
  \/ ProgramSector
  \/ FinishActivation
  \/ FinishCalibration
  \/ FlashFails
  \/ \E first, last \in Pages : WriteChunkFails(first, last)

Next == Operation \/ PowerLoss

Spec == Init /\ [][Next]_vars
-----------------------------------------------------------------------------
\* What flash, the RAM copies, the staged upload and a call in progress can hold.
TypeOK ==
  /\ flash \in [Index -> [Pages -> Cells]]
  /\ sector_metadata \in [Index -> Metadata \cup {Nil}]
  /\ sector_settings \in [Index -> Settings \cup {Nil}]
  /\ metadata \in [Index -> Metadata \cup {Nil}]
  /\ settings \in [Index -> Settings \cup {Nil}]
  /\ active \in Metadata \cup {Nil}
  /\ active_index \in Index
  /\ calibration \in Calibrations
  /\ upload \in Uploads \cup {Nil}
  /\ job \in Jobs \cup {Nil}
  /\ stage \in {"idle", "copy", "peer", "target"}
  /\ wiped \in BOOLEAN
  /\ reply \in {"none", "true", "false"}
  /\ stage = "idle" <=> job = Nil
  /\ stage = "idle" => ~wiped

\* The image in use stays intact in flash, and so readable by the live engine, whatever
\* a host uploads, verifies or activates, and whenever power is lost.
RunningImageIntact == active # Nil => ImageValid(flash, active.slot, active.image)

\* Between calls, what the running firmware uses is what a reboot would come up with.
RunningIsDurable ==
  stage = "idle" =>
    /\ DurableImage = (IF active = Nil THEN Nil ELSE active.image)
    /\ DurableCalibration = calibration

\* A durable image is never an unverified one: only the image of an activation in progress
\* can replace it, and it is replaced by that image or not at all.
PendingImage == IF job # Nil /\ job.kind = "activate" THEN job.targetMetadata.image ELSE Nil
ImageRegister == INSTANCE AtomicRegister WITH
  Values <- Images \cup {Nil}, Nothing <- Nil, value <- DurableImage, pending <- PendingImage
\* The durable image is an atomic register: what activate_upload promises, cut anywhere.
ImageIsAtomic == ImageRegister!Spec

\* Cut short anywhere, a call that writes the metadata sectors leaves the calibration that a
\* reboot would have come up with, or the one it was asked to save.
CalibrationIsOldOrNew ==
  [][ job # Nil =>
        \/ DurableCalibration' = DurableCalibration
        \/ job.kind = "calibrate" /\ DurableCalibration' = job.settings.calibration ]_vars

\* A call that returns true has made what it was asked for durable.
ReplyIsTruthful ==
  [][ job # Nil /\ job' = Nil /\ reply' # "none" =>
        IF job.kind = "activate"
        THEN reply' = "true" => DurableImage' = job.targetMetadata.image
        ELSE reply' = "true" => DurableCalibration' = job.settings.calibration ]_vars

\* An activation or a calibration whose flash operations all succeed returns true.
SuccessIsReported == ~FlashCanFail => reply # "false"
-----------------------------------------------------------------------------
(***************************************************************************)
(* The inductive invariant behind RunningImageIntact and ImageIsAtomic.    *)
(* Its core: the newest readable record always describes the image in use, *)
(* in every intermediate state of a plan of sector writes.                 *)
(***************************************************************************)
Readable(M) == {i \in Index : M[i] # Nil}
Top(M) == IF Readable(M) = {} THEN Nil ELSE M[Newest(M, Readable(M))]
SameImage(r, s) == IF s = Nil THEN r = Nil
                   ELSE r # Nil /\ r.slot = s.slot /\ r.image = s.image

TopIsActive ==
  /\ SameImage(Top(sector_metadata), active)
  /\ stage = "idle" =>
       /\ Top(sector_metadata) = active
       /\ metadata = sector_metadata
       /\ active # Nil => sector_metadata[active_index] = active

UploadIsApart ==
  upload # Nil =>
    /\ active # Nil => upload.slot # active.slot
    /\ upload.verified => ImageValid(flash, upload.slot, upload.image)

PlanIsSafe ==
  LET target == job.target
      peer == Other(job.target)
  IN
  job # Nil =>
    /\ job.peerMetadata = active
    /\ job.kind = "calibrate" =>
         /\ job.targetMetadata = active
         /\ metadata[target] = active
         /\ stage # "copy"
         /\ active # Nil => active_index = target
    /\ job.kind = "activate" =>
         /\ upload # Nil
         /\ upload.verified
         /\ job.targetMetadata =
              [generation |-> IF active # Nil THEN NextGeneration(active.generation) ELSE 1,
               slot |-> upload.slot, image |-> upload.image]
    /\ \A i \in Index : ~(wiped /\ i = StageIndex) => metadata[i] = sector_metadata[i]
    /\ wiped => sector_metadata[StageIndex] = Nil
    /\ stage \in {"copy", "target"} => sector_metadata[peer] = active
    /\ stage = "peer" \/ (stage = "target" /\ ~wiped) => SameImage(sector_metadata[target], active)

\* The invariant of every step of activate_upload, set_expression_calibration and scan.
StoreInvariant ==
  /\ TypeOK
  /\ RunningImageIntact
  /\ TopIsActive
  /\ UploadIsApart
  /\ PlanIsSafe
=============================================================================

-------------------------- MODULE ConfigStoreProofs --------------------------
(***************************************************************************)
(* Proofs about ConfigStore, for every set of images and calibrations,     *)
(* every slot size and every width of the generation counter.              *)
(***************************************************************************)
EXTENDS ConfigStore, TLAPS

USE DEF Index, Other

\* newer() orders a generation before its successor, across the wrap of the counter.
LEMMA GenerationOrder ==
  ASSUME NEW g \in Generations
  PROVE  /\ NextGeneration(g) \in Generations
         /\ Newer(NextGeneration(g), g)
         /\ ~Newer(g, NextGeneration(g))
BY StoreAssumption, SMT DEF NextGeneration, Newer, Generations

\* Nil is no record, so a record is told from a missing one.
LEMMA NilIsNoRecord ==
  /\ Nil \notin Images /\ Nil \notin Calibrations /\ Nil \notin Metadata
  /\ Nil \notin Settings /\ Nil \notin Uploads /\ Nil \notin Jobs
BY StoreAssumption

\* Top is one of the two records, and is missing only when both are.
LEMMA TopCases ==
  ASSUME NEW M
  PROVE  /\ Top(M) \in {M[0], M[1]}
         /\ Top(M) = Nil <=> M[0] = Nil /\ M[1] = Nil
         /\ \A i \in Index : M[i] = Nil => Top(M) = M[Other(i)]
BY DEF Top, Readable, Newest

\* A record one generation ahead of its peer is on top, and so is a lone record.
LEMMA TopIsNext ==
  ASSUME NEW M, NEW i \in Index, M[i] \in Metadata,
         M[Other(i)] = Nil
           \/ (M[Other(i)] \in Metadata /\ M[i].generation = NextGeneration(M[Other(i)].generation))
  PROVE  Top(M) = M[i]
<1>1. CASE M[Other(i)] = Nil
  BY <1>1, TopCases
<1>2. CASE M[Other(i)] \in Metadata /\ M[i].generation = NextGeneration(M[Other(i)].generation)
  <2>1. Readable(M) = Index
    BY <1>2, NilIsNoRecord DEF Readable
  <2>2. M[Other(i)].generation \in Generations
    BY <1>2 DEF Metadata
  <2>3. Newer(M[i].generation, M[Other(i)].generation) /\ ~Newer(M[Other(i)].generation, M[i].generation)
    BY <1>2, <2>2, GenerationOrder
  <2>4. Newest(M, Index) = i
    BY <2>3 DEF Newest
  <2> QED BY <2>1, <2>4 DEF Top
<1> QED BY <1>1, <1>2

\* scan() selects the top record whenever the image of the top record is intact.
LEMMA ScanSelectsTop ==
  ASSUME NEW M, NEW F, Top(M) # Nil => ImageValid(F, Top(M).slot, Top(M).image)
  PROVE  /\ SelectedMetadata(M, F) = Top(M)
         /\ Top(M) # Nil => /\ Newest(M, Bootable(M, F)) \in Index
                            /\ M[Newest(M, Bootable(M, F))] = Top(M)
                            /\ Bootable(M, F) # {}
<1>1. CASE Top(M) = Nil
  <2>1. Bootable(M, F) = {}
    BY <1>1, TopCases DEF Bootable
  <2> QED BY <1>1, <2>1 DEF SelectedMetadata
<1>2. CASE Top(M) # Nil
  <2>1. PICK i \in Index : i = Newest(M, Readable(M))
    BY DEF Newest
  <2>2. Readable(M) # {} /\ Top(M) = M[i]
    BY <1>2, <2>1 DEF Top
  <2>3. i \in Bootable(M, F) /\ Bootable(M, F) \subseteq Readable(M)
    BY <1>2, <2>2 DEF Bootable, Readable
  <2>4. Newest(M, Bootable(M, F)) = i
    BY <2>1, <2>3 DEF Newest, Readable
  <2> QED BY <2>2, <2>3, <2>4 DEF SelectedMetadata
<1> QED BY <1>1, <1>2

-----------------------------------------------------------------------------
(***************************************************************************)
(* Type correctness.                                                       *)
(***************************************************************************)
LEMMA SelectedIsRecord ==
  ASSUME NEW M \in [Index -> Metadata \cup {Nil}], NEW F
  PROVE  SelectedMetadata(M, F) \in Metadata \cup {Nil}
BY DEF SelectedMetadata, Newest, Bootable

\* scan() comes up with a calibration, and with the settings of a sector if one is valid.
LEMMA EffectiveIsCalibration ==
  ASSUME NEW S \in [Index -> Settings \cup {Nil}]
  PROVE  /\ EffectiveCalibration(S) \in Calibrations
         /\ ValidSettings(S) # {} => NewestSettings(S) \in Settings
<1>1. Newest(S, ValidSettings(S)) \in Index
  BY DEF Newest
<1>2. ValidSettings(S) # {} => S[Newest(S, ValidSettings(S))] \in Settings
  BY <1>1 DEF ValidSettings, Newest
<1> QED BY <1>2, StoreAssumption DEF EffectiveCalibration, NewestSettings, Settings

\* Whatever a power loss left in flash, booting from it yields a state of the right type.
LEMMA RebootType ==
  ASSUME NEW M \in [Index -> Metadata \cup {Nil}], NEW S \in [Index -> Settings \cup {Nil}],
         NEW F \in [Index -> [Pages -> Cells]], Reboot(M, S, F)
  PROVE  TypeOK'
<1>1. SelectedMetadata(M, F) \in Metadata \cup {Nil}
  BY SelectedIsRecord
<1>2. EffectiveCalibration(S) \in Calibrations
  BY EffectiveIsCalibration
<1>3. active_index' \in Index
  BY DEF Reboot, Newest
<1> QED BY <1>1, <1>2, <1>3 DEF Reboot, Scan, TypeOK

\* A factory-new pedal starts with the right types.
THEOREM InitType == Init => TypeOK
<1> SUFFICES ASSUME Init PROVE TypeOK
  OBVIOUS
<1>1. flash \in [Index -> [Pages -> Cells]]
  BY DEF Init, Cells
<1>2. /\ sector_metadata \in [Index -> Metadata \cup {Nil}]
      /\ sector_settings \in [Index -> Settings \cup {Nil}]
  BY DEF Init
<1>3. calibration \in Calibrations
  BY StoreAssumption DEF Init
<1> QED BY <1>1, <1>2, <1>3 DEF Init, TypeOK

\* The sector write in progress goes to a sector and writes a record.
LEMMA StageTypes ==
  ASSUME TypeOK, stage # "idle"
  PROVE  /\ job \in Jobs
         /\ StageIndex \in Index
         /\ StageMetadata \in Metadata \cup {Nil}
         /\ job.settings \in Settings
BY DEF TypeOK, StageIndex, StageMetadata, Jobs

\* activate_upload and set_expression_calibration start a plan of the right type.
LEMMA PlanTypes ==
  ASSUME TypeOK, NEW next \in Metadata \cup {Nil}, NEW peer \in Metadata \cup {Nil},
         NEW target \in Index, NEW kind \in {"activate", "calibrate"},
         NEW eff \in Settings, NEW first \in {"copy", "peer"},
         Start([kind |-> kind, target |-> target, peerMetadata |-> peer,
                targetMetadata |-> next, settings |-> eff], first)
  PROVE  TypeOK'
<1>1. job' \in Jobs
  BY DEF Start, Jobs
<1>2. job' # Nil
  BY <1>1, NilIsNoRecord
<1> QED BY <1>1, <1>2 DEF Start, TypeOK, flash_vars, ram_vars

\* Every operation, every flash operation and every power loss keeps the types.
THEOREM StepType == TypeOK /\ [Next]_vars => TypeOK'
<1> SUFFICES ASSUME TypeOK, [Next]_vars PROVE TypeOK'
  OBVIOUS
<1> USE DEF flash_vars, ram_vars, call_vars
<1>1. ASSUME NEW image \in Images, BeginUpload(image) PROVE TypeOK'
  <2>1. upload' \in Uploads
    BY <1>1 DEF BeginUpload, UploadSlot, TypeOK, Uploads, Metadata
  <2> QED BY <1>1, <2>1 DEF BeginUpload, TypeOK
<1>2. ASSUME NEW first \in Pages, NEW last \in Pages, NEW data \in Images,
             WriteChunk(first, last, data)
      PROVE  TypeOK'
  <2>1. upload \in Uploads
    BY <1>2 DEF WriteChunk, ChunkAccepted, TypeOK
  <2>2. upload' \in Uploads
    BY <1>2, <2>1 DEF WriteChunk, Uploads, FreshlyErased
  <2>3. flash' \in [Index -> [Pages -> Cells]]
    BY <1>2, <2>1, StoreAssumption DEF WriteChunk, Uploads, TypeOK, Programmed, WithErased, Cells
  <2> QED BY <1>2, <2>2, <2>3 DEF WriteChunk, TypeOK
<1>3. CASE VerifyUpload
  <2>1. upload' \in Uploads
    BY <1>3 DEF VerifyUpload, TypeOK, Uploads
  <2> QED BY <1>3, <2>1 DEF VerifyUpload, TypeOK
<1>4. CASE Activate
  <2>1. upload \in Uploads /\ (active # Nil => active \in Metadata)
    BY <1>4 DEF Activate, TypeOK
  <2>2. [generation |-> IF active # Nil THEN NextGeneration(active.generation) ELSE 1,
         slot |-> upload.slot, image |-> upload.image] \in Metadata
    BY <2>1, GenerationOrder, StoreAssumption DEF Metadata, Uploads, Generations
  <2>3. ActivationTarget \in Index
    BY DEF ActivationTarget
  <2>4. ActivationSettings \in Settings
    <3>1. settings \in [Index -> Settings \cup {Nil}] /\ calibration \in Calibrations
      BY DEF TypeOK
    <3>2. 1 \in Generations
      BY StoreAssumption DEF Generations
    <3> QED BY <3>1, <3>2, EffectiveIsCalibration DEF ActivationSettings, Settings
  <2>5. metadata[IF active # Nil THEN active_index ELSE Other(ActivationTarget)] \in Metadata \cup {Nil}
    BY <2>3 DEF TypeOK
  <2> QED BY <1>4, <2>2, <2>3, <2>4, <2>5, PlanTypes DEF Activate
<1>5. ASSUME NEW c \in Calibrations, SetCalibration(c) PROVE TypeOK'
  <2> DEFINE valid == ValidSettings(settings)
             next == [generation |-> IF valid = {} THEN 1
                                     ELSE NextGeneration(NewestSettings(settings).generation),
                      calibration |-> c]
             first == IF valid = {} THEN 0 ELSE Other(Newest(settings, valid))
             target == IF active # Nil THEN active_index ELSE Other(first)
  <2>1. next \in Settings
    <3>1. settings \in [Index -> Settings \cup {Nil}]
      BY DEF TypeOK
    <3>2. valid # {} => NewestSettings(settings).generation \in Generations
      BY <3>1, EffectiveIsCalibration DEF Settings
    <3>3. 1 \in Generations
      BY StoreAssumption DEF Generations
    <3> QED BY <3>2, <3>3, GenerationOrder DEF Settings
  <2>2. first \in Index /\ target \in Index
    BY DEF Newest, TypeOK
  <2>3. metadata[IF active # Nil THEN active_index ELSE first] \in Metadata \cup {Nil}
    BY <2>2 DEF TypeOK
  <2>4. metadata[target] \in Metadata \cup {Nil}
    BY <2>2 DEF TypeOK
  <2> HIDE DEF next, first, target
  <2> QED BY <1>5, <2>1, <2>2, <2>3, <2>4, PlanTypes DEF SetCalibration, next, first, target, valid
<1>6. CASE EraseSector
  BY <1>6 DEF EraseSector, TypeOK
<1>7. CASE ProgramSector
  BY <1>7, StageTypes DEF ProgramSector, Program, TypeOK
<1>8. CASE FinishActivation
  <2>1. /\ sector_metadata' \in [Index -> Metadata \cup {Nil}]
        /\ sector_settings' \in [Index -> Settings \cup {Nil}]
        /\ wiped' = FALSE /\ flash' \in [Index -> [Pages -> Cells]]
    BY <1>8, StageTypes DEF FinishActivation, Program, TypeOK
  <2>2. active_index' \in Index
    BY <1>8 DEF FinishActivation, TypeOK, Newest
  <2>3. /\ SelectedMetadata(sector_metadata', flash) \in Metadata \cup {Nil}
        /\ EffectiveCalibration(sector_settings') \in Calibrations
    BY <2>1, SelectedIsRecord, EffectiveIsCalibration
  <2> QED BY <1>8, <2>1, <2>2, <2>3 DEF FinishActivation, Scan, Finish, TypeOK
<1>9. CASE FinishCalibration
  BY <1>9, StageTypes DEF FinishCalibration, Program, Finish, TypeOK, Settings
<1>10. CASE FlashFails
  BY <1>10 DEF FlashFails, Finish, TypeOK
<1>11. ASSUME NEW first \in Pages, NEW last \in Pages, WriteChunkFails(first, last) PROVE TypeOK'
  <2>1. upload \in Uploads
    BY <1>11 DEF WriteChunkFails, ChunkAccepted, TypeOK
  <2>2. PICK gone \in SUBSET Pages :
          /\ flash' = [flash EXCEPT ![upload.slot] =
                         [p \in Pages |-> IF p \in gone THEN Erased ELSE @[p]]]
          /\ upload' = [upload EXCEPT !.verified = FALSE, !.erased = @ \cup gone]
    BY <1>11 DEF WriteChunkFails, WithErased, FreshlyErased
  <2>3. upload' \in Uploads
    BY <2>1, <2>2 DEF Uploads
  <2>4. flash' \in [Index -> [Pages -> Cells]]
    BY <2>1, <2>2 DEF Uploads, TypeOK, Cells
  <2> QED BY <1>11, <2>3, <2>4 DEF WriteChunkFails, TypeOK
<1>12. CASE PowerLossIdle
  BY <1>12, RebootType DEF PowerLossIdle, TypeOK
<1>13. CASE PowerLossInErase
  <2>1. PICK m \in {sector_metadata[StageIndex], Nil}, s \in {sector_settings[StageIndex], Nil} :
          Reboot([sector_metadata EXCEPT ![StageIndex] = m],
                 [sector_settings EXCEPT ![StageIndex] = s], flash)
    BY <1>13 DEF PowerLossInErase
  <2>2. /\ [sector_metadata EXCEPT ![StageIndex] = m] \in [Index -> Metadata \cup {Nil}]
        /\ [sector_settings EXCEPT ![StageIndex] = s] \in [Index -> Settings \cup {Nil}]
        /\ flash \in [Index -> [Pages -> Cells]]
    BY <1>13, StageTypes DEF PowerLossInErase, TypeOK
  <2> QED BY <2>1, <2>2, RebootType
<1>14. CASE PowerLossInProgram
  <2>1. PICK m \in {StageMetadata, Nil}, s \in {job.settings, Nil} :
          Reboot([sector_metadata EXCEPT ![StageIndex] = m],
                 [sector_settings EXCEPT ![StageIndex] = s], flash)
    BY <1>14 DEF PowerLossInProgram
  <2>2. stage # "idle"
    BY <1>14 DEF PowerLossInProgram, TypeOK
  <2>3. /\ [sector_metadata EXCEPT ![StageIndex] = m] \in [Index -> Metadata \cup {Nil}]
        /\ [sector_settings EXCEPT ![StageIndex] = s] \in [Index -> Settings \cup {Nil}]
        /\ flash \in [Index -> [Pages -> Cells]]
    BY <2>2, StageTypes DEF TypeOK
  <2> QED BY <2>1, <2>3, RebootType
<1>15. ASSUME NEW first \in Pages, NEW last \in Pages, NEW data \in Images,
              PowerLossInChunk(first, last, data)
       PROVE  TypeOK'
  <2>1. PICK torn \in [FreshlyErased(first, last) \cup (first .. last) -> {Erased, Garbled, data}] :
          Reboot(sector_metadata, sector_settings,
                 [flash EXCEPT ![upload.slot] =
                    [p \in Pages |-> IF p \in DOMAIN torn THEN torn[p] ELSE @[p]]])
    BY <1>15 DEF PowerLossInChunk
  <2>2. upload \in Uploads
    BY <1>15 DEF PowerLossInChunk, ChunkAccepted, TypeOK
  <2>3. [flash EXCEPT ![upload.slot] =
           [p \in Pages |-> IF p \in DOMAIN torn THEN torn[p] ELSE @[p]]]
        \in [Index -> [Pages -> Cells]]
    BY <2>1, <2>2 DEF TypeOK, Cells, Uploads
  <2> QED BY <2>1, <2>3, RebootType DEF TypeOK
<1>16. CASE UNCHANGED vars
  BY <1>16 DEF vars, TypeOK
<1> QED BY <1>1, <1>2, <1>3, <1>4, <1>5, <1>6, <1>7, <1>8, <1>9, <1>10, <1>11, <1>12, <1>13,
           <1>14, <1>15, <1>16 DEF Next, Operation, PowerLoss

\* Every variable keeps its type, whatever the host asks and wherever power is cut.
THEOREM TypeCorrect == Spec => []TypeOK
BY InitType, StepType, PTL DEF Spec

-----------------------------------------------------------------------------
(***************************************************************************)
(* The store invariant, for a FlashPort whose operations succeed.          *)
(***************************************************************************)

\* When both records show the same image, or one does and the other is missing, so does Top.
LEMMA TopAgrees ==
  ASSUME NEW M, NEW s, NEW i \in Index, SameImage(M[i], s),
         M[Other(i)] = Nil \/ SameImage(M[Other(i)], s)
  PROVE  SameImage(Top(M), s)
BY TopCases DEF SameImage

\* While a plan is carried out the top record shows the active image: losing the
\* record being written, or completing a copy of the active one, changes nothing.
LEMMA PlanKeepsTop ==
  ASSUME StoreInvariant, stage # "idle",
         NEW m \in {Nil, sector_metadata[StageIndex], active}
  PROVE  SameImage(Top([sector_metadata EXCEPT ![StageIndex] = m]), active)
<1> DEFINE M == [sector_metadata EXCEPT ![StageIndex] = m]
<1>0. StageIndex \in Index /\ job \in Jobs /\ job # Nil
  BY StageTypes, NilIsNoRecord DEF StoreInvariant
<1>1. /\ M[StageIndex] = m /\ M[Other(StageIndex)] = sector_metadata[Other(StageIndex)]
      /\ sector_metadata \in [Index -> Metadata \cup {Nil}]
  BY <1>0 DEF StoreInvariant, TypeOK
<1>2. CASE m = sector_metadata[StageIndex]
  <2>1. M = sector_metadata
    BY <1>1, <1>2, <1>0
  <2> QED BY <2>1 DEF StoreInvariant, TopIsActive
<1>3. SameImage(active, active) /\ (active = Nil => SameImage(Nil, active))
  BY DEF SameImage
<1>4. SameImage(M[Other(StageIndex)], active)
  <2>1. CASE stage = "peer"
    BY <1>0, <1>1, <2>1 DEF StoreInvariant, PlanIsSafe, StageIndex, Jobs
  <2>2. CASE stage \in {"copy", "target"}
    BY <1>0, <1>1, <1>3, <2>2 DEF StoreInvariant, PlanIsSafe, StageIndex, Jobs
  <2> QED BY <2>1, <2>2 DEF StoreInvariant, TypeOK
<1>5. Other(StageIndex) \in Index /\ Other(Other(StageIndex)) = StageIndex
  BY <1>0
<1> HIDE DEF M
<1>6. CASE m \in {Nil, active}
  <2>1. M[StageIndex] = Nil \/ SameImage(M[StageIndex], active)
    BY <1>1, <1>3, <1>6
  <2> QED BY <1>4, <1>5, <2>1, TopAgrees DEF M
<1> QED BY <1>2, <1>6

\* A reboot re-establishes the invariant from sectors whose top record has its image.
LEMMA RebootInvariant ==
  ASSUME NEW M \in [Index -> Metadata \cup {Nil}], NEW S \in [Index -> Settings \cup {Nil}],
         NEW F \in [Index -> [Pages -> Cells]], Reboot(M, S, F),
         Top(M) # Nil => ImageValid(F, Top(M).slot, Top(M).image)
  PROVE  StoreInvariant' /\ active' = Top(M)
<1>1. TypeOK'
  BY RebootType
<1>2. active' = Top(M) /\ sector_metadata' = M /\ metadata' = M /\ flash' = F
  BY ScanSelectsTop DEF Reboot, Scan
<1>3. stage' = "idle" /\ upload' = Nil /\ job' = Nil
  BY DEF Reboot
<1>4. active' # Nil => sector_metadata'[active_index'] = active'
  BY <1>2, ScanSelectsTop DEF Reboot
<1>5. RunningImageIntact'
  BY <1>2 DEF RunningImageIntact
<1>6. TopIsActive'
  BY <1>2, <1>3, <1>4 DEF TopIsActive, SameImage
<1> QED BY <1>1, <1>2, <1>3, <1>5, <1>6 DEF StoreInvariant, UploadIsApart, PlanIsSafe

\* A factory-new pedal satisfies the invariant.
THEOREM InitInvariant == Init => StoreInvariant
<1> SUFFICES ASSUME Init PROVE StoreInvariant
  OBVIOUS
<1>1. TypeOK
  BY InitType
<1>2. Top(sector_metadata) = Nil
  BY TopCases DEF Init
<1> QED BY <1>1, <1>2 DEF Init, StoreInvariant, RunningImageIntact, TopIsActive, SameImage,
                          UploadIsApart, PlanIsSafe

\* A call starts from an idle store, where RAM and sectors agree.
LEMMA IdleFacts ==
  ASSUME StoreInvariant, stage = "idle"
  PROVE  /\ metadata = sector_metadata
         /\ active # Nil => active \in Metadata /\ metadata[active_index] = active
         /\ active = Nil => metadata[0] = Nil /\ metadata[1] = Nil
         /\ SameImage(Top(sector_metadata), active)
         /\ job = Nil /\ ~wiped
BY TopCases DEF StoreInvariant, TopIsActive, TypeOK

\* Sectors whose top record shows the active image boot, as long as that image is intact.
LEMMA AgreeingTopBoots ==
  ASSUME NEW M, NEW F, SameImage(Top(M), active),
         active # Nil => ImageValid(F, active.slot, active.image)
  PROVE  Top(M) # Nil => ImageValid(F, Top(M).slot, Top(M).image)
BY DEF SameImage

\* The last write of an activation leaves its image in use: scan() finds the record just
\* written on top and the image whole, and the call reports success.
LEMMA ActivationIsAdopted ==
  ASSUME StoreInvariant, FinishActivation
  PROVE  /\ active' = job.targetMetadata /\ reply' = "true"
         /\ job' = Nil /\ stage' = "idle" /\ upload' = Nil
         /\ flash' = flash /\ metadata' = sector_metadata'
         /\ Top(sector_metadata') = job.targetMetadata
         /\ sector_metadata'[active_index'] = job.targetMetadata
         /\ ImageValid(flash, job.targetMetadata.slot, job.targetMetadata.image)
<1> DEFINE t == job.target
           next == job.targetMetadata
           M == sector_metadata'
<1>a. TypeOK
  BY DEF StoreInvariant
<1>b. FinishActivation
  OBVIOUS
<1>1. stage = "target" /\ wiped /\ job.kind = "activate" /\ stage # "idle"
  BY <1>b DEF FinishActivation, Program
<1>2. job \in Jobs /\ job # Nil /\ t \in Index /\ StageIndex = t
  BY <1>a, <1>1, StageTypes, NilIsNoRecord DEF StageIndex, Jobs
<1>3. /\ upload \in Uploads
      /\ ImageValid(flash, upload.slot, upload.image)
      /\ sector_metadata[Other(t)] = active
      /\ next = [generation |-> IF active # Nil THEN NextGeneration(active.generation) ELSE 1,
                 slot |-> upload.slot, image |-> upload.image]
  BY <1>a, <1>1, <1>2 DEF StoreInvariant, PlanIsSafe, UploadIsApart, TypeOK
<1>4. next # Nil /\ next \in Metadata
  <2>1. next \in Metadata
    BY <1>a, <1>3, GenerationOrder, StoreAssumption DEF TypeOK, Metadata, Uploads, Generations
  <2> QED BY <2>1, NilIsNoRecord
<1>5. M = [sector_metadata EXCEPT ![t] = next]
  BY <1>b, <1>1, <1>2 DEF FinishActivation, Program, StageMetadata
<1>6. M[t] = next /\ M[Other(t)] = active
  BY <1>a, <1>2, <1>3, <1>5 DEF TypeOK
<1>7. active # Nil => active \in Metadata /\ next.generation = NextGeneration(active.generation)
  BY <1>a, <1>3 DEF TypeOK
<1>8. Top(M) = next
  <2> HIDE DEF next, t, M
  <2> QED BY <1>2, <1>4, <1>6, <1>7, TopIsNext
<1>9. ImageValid(flash, Top(M).slot, Top(M).image)
  BY <1>3, <1>8
<1>10. /\ SelectedMetadata(M, flash) = next
       /\ M[Newest(M, Bootable(M, flash))] = next
       /\ Bootable(M, flash) # {}
  <2> HIDE DEF next, M
  <2> QED BY <1>4, <1>8, <1>9, ScanSelectsTop
<1>11. /\ active' = next /\ reply' = "true" /\ metadata' = M /\ flash' = flash
       /\ sector_metadata'[active_index'] = next
       /\ stage' = "idle" /\ upload' = Nil /\ job' = Nil
  <2>1. SelectedMetadata(M, flash) = job.targetMetadata /\ job.targetMetadata # Nil
    BY <1>4, <1>10
  <2> HIDE DEF next
  <2> QED BY <1>b, <1>10, <2>1 DEF FinishActivation, Program, Scan, Finish
<1> QED BY <1>8, <1>9, <1>11

\* Every step keeps the invariant, when flash operations that are not cut succeed.
THEOREM StepInvariant ==
  ASSUME ~FlashCanFail, StoreInvariant, [Next]_vars
  PROVE  StoreInvariant'
<1> USE DEF flash_vars, ram_vars, call_vars
<1>0. TypeOK /\ TypeOK'
  BY StepType DEF StoreInvariant
<1>1. ASSUME NEW image \in Images, BeginUpload(image) PROVE StoreInvariant'
  <2>1. UploadIsApart'
    BY <1>0, <1>1 DEF BeginUpload, UploadSlot, UploadIsApart, TypeOK, Metadata
  <2>2. PlanIsSafe'
    BY <1>0, <1>1 DEF BeginUpload, PlanIsSafe, TypeOK
  <2> QED BY <1>0, <1>1, <2>1, <2>2
          DEF BeginUpload, StoreInvariant, RunningImageIntact, TopIsActive
<1>2. ASSUME NEW first \in Pages, NEW last \in Pages, NEW data \in Images,
             WriteChunk(first, last, data)
      PROVE  StoreInvariant'
  <2>1. upload \in Uploads /\ upload' = [upload EXCEPT !.verified = FALSE,
                                       !.erased = @ \cup FreshlyErased(first, last)]
    BY <1>0, <1>2 DEF WriteChunk, ChunkAccepted, TypeOK
  <2>2. upload'.slot = upload.slot /\ upload'.verified = FALSE
    BY <2>1 DEF Uploads
  <2>3. active # Nil => flash'[active.slot] = flash[active.slot]
    BY <1>0, <1>2, <2>1 DEF WriteChunk, ChunkAccepted, StoreInvariant, UploadIsApart, TypeOK,
                            Metadata, Uploads
  <2>4. RunningImageIntact'
    BY <1>2, <2>3 DEF WriteChunk, StoreInvariant, RunningImageIntact, ImageValid
  <2>5. UploadIsApart'
    BY <1>2, <2>1, <2>2 DEF WriteChunk, ChunkAccepted, StoreInvariant, UploadIsApart
  <2>6. PlanIsSafe'
    BY <1>0, <1>2 DEF WriteChunk, PlanIsSafe, TypeOK
  <2> QED BY <1>0, <1>2, <2>4, <2>5, <2>6 DEF WriteChunk, StoreInvariant, TopIsActive
<1>3. CASE VerifyUpload
  <2>1. upload \in Uploads
    BY <1>0, <1>3 DEF VerifyUpload, TypeOK
  <2>2. upload'.slot = upload.slot /\ upload'.image = upload.image
    BY <1>3, <2>1 DEF VerifyUpload, Uploads
  <2>3. UploadIsApart'
    BY <1>3, <2>2 DEF VerifyUpload, StoreInvariant, UploadIsApart, ImageValid
  <2>4. PlanIsSafe'
    BY <1>0, <1>3 DEF VerifyUpload, PlanIsSafe, TypeOK
  <2> QED BY <1>0, <1>3, <2>3, <2>4
          DEF VerifyUpload, StoreInvariant, RunningImageIntact, TopIsActive
<1>4. CASE Activate
  <2> DEFINE target == ActivationTarget
             effective == ActivationSettings
             next == [generation |-> IF active # Nil THEN NextGeneration(active.generation) ELSE 1,
                      slot |-> upload.slot, image |-> upload.image]
             peer == metadata[IF active # Nil THEN active_index ELSE Other(target)]
  <2>1. stage = "idle" /\ upload # Nil /\ upload.verified /\ target \in Index
    BY <1>4 DEF Activate, ActivationTarget
  <2>2. /\ metadata = sector_metadata
        /\ active # Nil => active \in Metadata /\ metadata[active_index] = active
        /\ active = Nil => metadata[0] = Nil /\ metadata[1] = Nil
    BY <2>1, IdleFacts
  <2>3. peer = active
    BY <2>1, <2>2
  <2>4. /\ job' = [kind |-> "activate", target |-> target, peerMetadata |-> peer,
                   targetMetadata |-> next, settings |-> effective]
        /\ stage' = IF /\ active # Nil /\ active_index = Other(target)
                       /\ ~HasCurrentFallback(target, effective)
                    THEN "copy" ELSE "peer"
        /\ ~wiped'
        /\ UNCHANGED <<flash, sector_metadata, sector_settings, metadata, settings, active,
                       active_index, calibration, upload>>
    BY <1>4 DEF Activate, Start
  <2> HIDE DEF target, effective, next, peer
  <2>5. stage' = "copy" => sector_metadata[Other(target)] = active
    BY <2>2, <2>4
  <2>6. stage' = "peer" => SameImage(sector_metadata[target], active)
    <3>1. CASE active = Nil
      BY <2>1, <2>2, <3>1 DEF SameImage
    <3>2. CASE active # Nil /\ active_index # Other(target)
      <4>1. active_index = target
        BY <1>0, <2>1, <3>2 DEF TypeOK
      <4> QED BY <2>2, <3>2, <4>1 DEF SameImage
    <3>3. CASE active # Nil /\ HasCurrentFallback(target, effective)
      BY <2>2, <3>3 DEF HasCurrentFallback, Bootable, SameImage
    <3> QED BY <2>4, <3>1, <3>2, <3>3
  <2>7. PlanIsSafe'
    BY <2>1, <2>2, <2>3, <2>4, <2>5, <2>6 DEF PlanIsSafe, next, SameImage
  <2>8. TopIsActive'
    BY <2>4 DEF StoreInvariant, TopIsActive
  <2> QED BY <1>0, <2>4, <2>7, <2>8 DEF StoreInvariant, RunningImageIntact, UploadIsApart
<1>5. ASSUME NEW c \in Calibrations, SetCalibration(c) PROVE StoreInvariant'
  <2> DEFINE
        Sector(first) == IF active # Nil THEN active_index ELSE Other(first)
        Calibrate(first, sett) ==
          Start([kind |-> "calibrate", target |-> Sector(first),
                 peerMetadata |-> metadata[IF active # Nil THEN active_index ELSE first],
                 targetMetadata |-> metadata[Sector(first)], settings |-> sett], "peer")
  <2>0. PICK sett : \E first \in Index : Calibrate(first, sett)
    <3>1. (IF ValidSettings(settings) = {} THEN 0
           ELSE Other(Newest(settings, ValidSettings(settings)))) \in Index
      BY DEF Newest
    <3> QED BY <1>5, <3>1 DEF SetCalibration
  <2>1. PICK first \in Index : Calibrate(first, sett)
    BY <2>0
  <2> DEFINE target == IF active # Nil THEN active_index ELSE Other(first)
  <2>2. stage = "idle" /\ target \in Index
    BY <1>0, <1>5 DEF SetCalibration, TypeOK
  <2>3. /\ metadata = sector_metadata
        /\ active # Nil => metadata[active_index] = active
        /\ active = Nil => metadata[0] = Nil /\ metadata[1] = Nil
    BY <2>2, IdleFacts
  <2>4. metadata[IF active # Nil THEN active_index ELSE first] = active /\ metadata[target] = active
    BY <2>2, <2>3
  <2>5. /\ job' = [kind |-> "calibrate", target |-> target, peerMetadata |-> active,
                   targetMetadata |-> active, settings |-> sett]
        /\ stage' = "peer" /\ ~wiped'
        /\ UNCHANGED <<flash, sector_metadata, sector_settings, metadata, settings, active,
                       active_index, calibration, upload>>
    BY <2>1, <2>4 DEF Start
  <2>6. active # Nil => active_index = target
    OBVIOUS
  <2> HIDE DEF target
  <2>7. PlanIsSafe'
    BY <2>2, <2>3, <2>4, <2>5, <2>6 DEF PlanIsSafe, SameImage
  <2>8. TopIsActive'
    BY <2>5 DEF StoreInvariant, TopIsActive
  <2> QED BY <1>0, <2>5, <2>7, <2>8 DEF StoreInvariant, RunningImageIntact, UploadIsApart
<1>6. CASE EraseSector
  <2>1. stage # "idle" /\ ~wiped
    BY <1>6 DEF EraseSector
  <2>2. job \in Jobs /\ job # Nil /\ StageIndex \in Index
    BY <1>0, <2>1, StageTypes, NilIsNoRecord
  <2>3. /\ sector_metadata' = [sector_metadata EXCEPT ![StageIndex] = Nil]
        /\ wiped' = TRUE
        /\ UNCHANGED <<flash, metadata, settings, active, active_index, calibration, upload,
                       job, stage>>
    BY <1>6 DEF EraseSector
  <2>4. StageIndex' = StageIndex
    BY <2>3 DEF StageIndex
  <2>5. SameImage(Top(sector_metadata)', active)
    BY <2>1, <2>3, PlanKeepsTop
  <2>6. TopIsActive'
    BY <2>1, <2>3, <2>5 DEF TopIsActive
  <2>7. /\ sector_metadata'[StageIndex] = Nil
        /\ sector_metadata'[Other(StageIndex)] = sector_metadata[Other(StageIndex)]
    BY <1>0, <2>2, <2>3 DEF TypeOK
  <2>8. PlanIsSafe'
    BY <1>0, <2>1, <2>2, <2>3, <2>4, <2>7 DEF StoreInvariant, PlanIsSafe, StageIndex, TypeOK, Jobs
  <2> QED BY <1>0, <2>3, <2>6, <2>8 DEF StoreInvariant, RunningImageIntact, UploadIsApart
<1>7. CASE ProgramSector
  <2>1. stage \in {"copy", "peer"} /\ wiped /\ stage # "idle"
    BY <1>7 DEF ProgramSector, Program
  <2>2. job \in Jobs /\ job # Nil /\ StageIndex \in Index
    BY <1>0, <2>1, StageTypes, NilIsNoRecord
  <2>3. StageMetadata = active
    BY <2>1, <2>2 DEF StageMetadata, StoreInvariant, PlanIsSafe
  <2>4. /\ sector_metadata' = [sector_metadata EXCEPT ![StageIndex] = active]
        /\ metadata' = [metadata EXCEPT ![StageIndex] = active]
        /\ ~wiped'
        /\ stage' = IF stage = "copy" THEN "peer" ELSE "target"
        /\ UNCHANGED <<flash, active, active_index, calibration, upload, job>>
    BY <1>7, <2>3 DEF ProgramSector, Program
  <2>5. SameImage(Top(sector_metadata)', active)
    BY <2>1, <2>4, PlanKeepsTop
  <2>6. TopIsActive'
    BY <2>1, <2>4, <2>5 DEF TopIsActive
  <2>7. /\ sector_metadata'[StageIndex] = active /\ metadata'[StageIndex] = active
        /\ sector_metadata'[Other(StageIndex)] = sector_metadata[Other(StageIndex)]
        /\ metadata'[Other(StageIndex)] = metadata[Other(StageIndex)]
    BY <1>0, <2>2, <2>4 DEF TypeOK
  <2>8. metadata[Other(StageIndex)] = sector_metadata[Other(StageIndex)]
    BY <2>2 DEF StoreInvariant, PlanIsSafe
  <2>9. \A i \in Index : metadata'[i] = sector_metadata'[i]
    BY <2>2, <2>7, <2>8
  <2>10. SameImage(active, active)
    BY DEF SameImage
  <2>11. ASSUME stage = "copy" PROVE PlanIsSafe'
    <3>1. StageIndex = job.target /\ stage' = "peer" /\ job.kind = "activate"
      BY <2>2, <2>4, <2>11 DEF StageIndex, StoreInvariant, PlanIsSafe, Jobs
    <3>2. SameImage(sector_metadata'[job.target], active)
      BY <2>7, <2>10, <3>1
    <3> QED BY <2>2, <2>4, <2>9, <3>1, <3>2 DEF StoreInvariant, PlanIsSafe
  <2>12. ASSUME stage = "peer" PROVE PlanIsSafe'
    <3>1. StageIndex = Other(job.target) /\ stage' = "target" /\ job.target \in Index
      BY <2>2, <2>4, <2>12 DEF StageIndex, Jobs
    <3>2. sector_metadata'[Other(job.target)] = active
      BY <2>7, <3>1
    <3>3. /\ SameImage(sector_metadata'[job.target], active)
          /\ metadata'[job.target] = metadata[job.target]
      BY <2>2, <2>7, <2>12, <3>1 DEF StoreInvariant, PlanIsSafe
    <3> QED BY <2>2, <2>4, <2>9, <3>1, <3>2, <3>3 DEF StoreInvariant, PlanIsSafe
  <2> QED BY <1>0, <2>1, <2>4, <2>6, <2>11, <2>12
          DEF StoreInvariant, RunningImageIntact, UploadIsApart
<1>8. CASE FinishActivation
  <2>1. /\ active' = job.targetMetadata /\ flash' = flash /\ metadata' = sector_metadata'
        /\ sector_metadata'[active_index'] = active' /\ Top(sector_metadata') = active'
        /\ ImageValid(flash', active'.slot, active'.image)
        /\ stage' = "idle" /\ upload' = Nil /\ job' = Nil
    BY <1>8, ActivationIsAdopted
  <2>2. RunningImageIntact'
    BY <2>1 DEF RunningImageIntact
  <2>3. TopIsActive'
    BY <2>1 DEF TopIsActive, SameImage
  <2> QED BY <1>0, <2>1, <2>2, <2>3 DEF StoreInvariant, UploadIsApart, PlanIsSafe
<1>9. CASE FinishCalibration
  <2> DEFINE t == job.target
  <2>1. stage = "target" /\ wiped /\ job.kind = "calibrate" /\ stage # "idle"
    BY <1>9 DEF FinishCalibration, Program
  <2>2. job \in Jobs /\ job # Nil /\ t \in Index /\ StageIndex = t
    BY <1>0, <2>1, StageTypes, NilIsNoRecord DEF StageIndex, Jobs
  <2>3. /\ job.targetMetadata = active /\ metadata[t] = active
        /\ sector_metadata[Other(t)] = active
        /\ metadata[Other(t)] = sector_metadata[Other(t)]
        /\ active # Nil => active_index = t
    BY <2>1, <2>2 DEF StoreInvariant, PlanIsSafe
  <2>4. /\ sector_metadata' = [sector_metadata EXCEPT ![t] = active]
        /\ stage' = "idle" /\ job' = Nil
        /\ UNCHANGED <<flash, metadata, active, active_index, upload>>
    BY <1>9, <2>1, <2>2, <2>3 DEF FinishCalibration, Program, Finish, StageMetadata
  <2>5. sector_metadata'[t] = active /\ sector_metadata'[Other(t)] = active
    BY <1>0, <2>2, <2>3, <2>4 DEF TypeOK
  <2>6. sector_metadata' = metadata
    <3> HIDE DEF t
    <3>1. \A i \in Index : sector_metadata'[i] = metadata[i]
      BY <2>2, <2>3, <2>5
    <3> QED BY <1>0, <3>1 DEF TypeOK
  <2>7. Top(sector_metadata') = active
    <3> HIDE DEF t
    <3> QED BY <2>2, <2>5, TopCases
  <2>8. TopIsActive'
    BY <2>3, <2>4, <2>5, <2>6, <2>7 DEF TopIsActive, SameImage
  <2> QED BY <1>0, <2>4, <2>8 DEF StoreInvariant, RunningImageIntact, UploadIsApart, PlanIsSafe
<1>10. CASE PowerLossIdle
  <2>1. Reboot(sector_metadata, sector_settings, flash) /\ stage = "idle"
    BY <1>10 DEF PowerLossIdle
  <2>2. Top(sector_metadata) # Nil =>
          ImageValid(flash, Top(sector_metadata).slot, Top(sector_metadata).image)
    BY <2>1 DEF StoreInvariant, TopIsActive, RunningImageIntact
  <2> QED BY <1>0, <2>1, <2>2, RebootInvariant DEF TypeOK
<1>11. CASE PowerLossInErase
  <2>1. stage # "idle"
    BY <1>11 DEF PowerLossInErase
  <2>2. PICK m \in {sector_metadata[StageIndex], Nil}, s \in {sector_settings[StageIndex], Nil} :
          Reboot([sector_metadata EXCEPT ![StageIndex] = m],
                 [sector_settings EXCEPT ![StageIndex] = s], flash)
    BY <1>11 DEF PowerLossInErase
  <2> DEFINE M == [sector_metadata EXCEPT ![StageIndex] = m]
             S == [sector_settings EXCEPT ![StageIndex] = s]
  <2>3. SameImage(Top(M), active)
    BY <2>1, PlanKeepsTop
  <2>4. /\ M \in [Index -> Metadata \cup {Nil}] /\ S \in [Index -> Settings \cup {Nil}]
        /\ flash \in [Index -> [Pages -> Cells]]
    BY <1>0, <2>1, StageTypes DEF TypeOK
  <2>5. Top(M) # Nil => ImageValid(flash, Top(M).slot, Top(M).image)
    BY <2>3, AgreeingTopBoots DEF StoreInvariant, RunningImageIntact
  <2>6. Reboot(M, S, flash)
    BY <2>2
  <2> HIDE DEF M, S
  <2> QED BY <2>4, <2>5, <2>6, RebootInvariant
<1>12. CASE PowerLossInProgram
  <2>1. stage # "idle" /\ wiped /\ job \in Jobs /\ job # Nil /\ StageIndex \in Index
    BY <1>0, <1>12, StageTypes, NilIsNoRecord DEF PowerLossInProgram, TypeOK
  <2>2. PICK m \in {StageMetadata, Nil}, s \in {job.settings, Nil} :
          Reboot([sector_metadata EXCEPT ![StageIndex] = m],
                 [sector_settings EXCEPT ![StageIndex] = s], flash)
    BY <1>12 DEF PowerLossInProgram
  <2> DEFINE M == [sector_metadata EXCEPT ![StageIndex] = m]
             S == [sector_settings EXCEPT ![StageIndex] = s]
  <2>3. /\ M \in [Index -> Metadata \cup {Nil}] /\ S \in [Index -> Settings \cup {Nil}]
        /\ flash \in [Index -> [Pages -> Cells]]
    BY <1>0, <2>1, StageTypes DEF TypeOK
  <2>4. Reboot(M, S, flash)
    BY <2>2
  <2>5. Top(M) # Nil => ImageValid(flash, Top(M).slot, Top(M).image)
    <3>1. CASE m \in {Nil, active}
      <4>1. SameImage(Top(M), active)
        BY <2>1, <3>1, PlanKeepsTop
      <4> HIDE DEF M
      <4> QED BY <4>1, AgreeingTopBoots DEF StoreInvariant, RunningImageIntact
    <3>2. CASE m \notin {Nil, active}
      <4>1. stage = "target" /\ job.kind = "activate" /\ m = job.targetMetadata
        BY <2>1, <3>2 DEF StageMetadata, StoreInvariant, PlanIsSafe, TypeOK, Jobs
      <4>2. StageIndex = job.target /\ job.target \in Index
        BY <2>1, <4>1 DEF StageIndex, Jobs
      <4>3. /\ upload \in Uploads
            /\ ImageValid(flash, upload.slot, upload.image)
            /\ sector_metadata[Other(job.target)] = active
            /\ m = [generation |-> IF active # Nil THEN NextGeneration(active.generation) ELSE 1,
                    slot |-> upload.slot, image |-> upload.image]
        BY <1>0, <2>1, <4>1 DEF StoreInvariant, PlanIsSafe, UploadIsApart, TypeOK
      <4>4. M[job.target] = m /\ M[Other(job.target)] = active
        BY <1>0, <4>2, <4>3 DEF TypeOK
      <4>5. m \in Metadata
        BY <1>0, <3>2, <2>1, StageTypes
      <4>6. active # Nil => active \in Metadata /\ m.generation = NextGeneration(active.generation)
        BY <1>0, <4>3 DEF TypeOK
      <4>7. Top(M) = m
        <5> HIDE DEF M
        <5> QED BY <4>2, <4>4, <4>5, <4>6, TopIsNext
      <4> QED BY <4>3, <4>7
    <3> QED BY <3>1, <3>2
  <2> HIDE DEF M, S
  <2> QED BY <2>3, <2>4, <2>5, RebootInvariant
<1>13. ASSUME NEW first \in Pages, NEW last \in Pages, NEW data \in Images,
              PowerLossInChunk(first, last, data)
       PROVE  StoreInvariant'
  <2>1. PICK torn \in [FreshlyErased(first, last) \cup (first .. last) -> {Erased, Garbled, data}] :
          Reboot(sector_metadata, sector_settings,
                 [flash EXCEPT ![upload.slot] =
                    [p \in Pages |-> IF p \in DOMAIN torn THEN torn[p] ELSE @[p]]])
    BY <1>13 DEF PowerLossInChunk
  <2> DEFINE F == [flash EXCEPT ![upload.slot] =
                     [p \in Pages |-> IF p \in DOMAIN torn THEN torn[p] ELSE @[p]]]
  <2>2. upload \in Uploads /\ stage = "idle" /\ upload # Nil
    BY <1>0, <1>13 DEF PowerLossInChunk, ChunkAccepted, TypeOK
  <2>3. F \in [Index -> [Pages -> Cells]]
    BY <1>0, <2>1, <2>2 DEF TypeOK, Cells, Uploads
  <2>4. active # Nil => F[active.slot] = flash[active.slot]
    BY <1>0, <2>2 DEF StoreInvariant, UploadIsApart, TypeOK, Metadata, Uploads
  <2>5. active # Nil => ImageValid(F, active.slot, active.image)
    BY <2>4 DEF StoreInvariant, RunningImageIntact, ImageValid
  <2>6. Reboot(sector_metadata, sector_settings, F)
    BY <2>1
  <2> HIDE DEF F
  <2>7. Top(sector_metadata) # Nil =>
          ImageValid(F, Top(sector_metadata).slot, Top(sector_metadata).image)
    BY <2>2, <2>5, AgreeingTopBoots DEF StoreInvariant, TopIsActive
  <2> QED BY <1>0, <2>3, <2>6, <2>7, RebootInvariant DEF TypeOK
<1>14. CASE UNCHANGED vars
  BY <1>0, <1>14 DEF vars, StoreInvariant, RunningImageIntact, TopIsActive, UploadIsApart,
                     PlanIsSafe, StageIndex
<1> QED BY <1>1, <1>2, <1>3, <1>4, <1>5, <1>6, <1>7, <1>8, <1>9, <1>10, <1>11, <1>12, <1>13,
           <1>14 DEF Next, Operation, PowerLoss, FlashFails, WriteChunkFails

\* The invariant holds in every reachable state: in particular the image in use is never
\* damaged, and a power loss at any point boots into it or into the one being activated.
THEOREM StoreIsSafe == ~FlashCanFail => (Spec => []StoreInvariant)
<1> SUFFICES ASSUME ~FlashCanFail PROVE Spec => []StoreInvariant
  OBVIOUS
<1>1. Init => StoreInvariant
  BY InitInvariant
<1>2. StoreInvariant /\ [Next]_vars => StoreInvariant'
  BY StepInvariant
<1> QED BY <1>1, <1>2, PTL DEF Spec

-----------------------------------------------------------------------------
(***************************************************************************)
(* The image in use, where flash operations may fail as well. A plan that  *)
(* stops half-way leaves the RAM copies behind the flash, so TopIsActive   *)
(* and PlanIsSafe do not hold. What remains is enough: active_ changes     *)
(* only in scan(), which takes a record whose image it has just read, and  *)
(* which drops the staged upload. An upload takes the other slot.          *)
(***************************************************************************)
SlotsApart == upload # Nil /\ active # Nil => upload.slot # active.slot

IntactInvariant == TypeOK /\ RunningImageIntact /\ SlotsApart

\* What scan() selects is intact.
LEMMA SelectedIsIntact ==
  ASSUME NEW M, NEW F, SelectedMetadata(M, F) # Nil
  PROVE  ImageValid(F, SelectedMetadata(M, F).slot, SelectedMetadata(M, F).image)
<1>1. Bootable(M, F) # {} /\ SelectedMetadata(M, F) = M[Newest(M, Bootable(M, F))]
  BY DEF SelectedMetadata
<1>2. Bootable(M, F) \subseteq {0, 1}
  BY DEF Bootable, Index
<1>3. Newest(M, Bootable(M, F)) \in Bootable(M, F)
  BY <1>1, <1>2 DEF Newest
<1> QED BY <1>1, <1>3 DEF Bootable

\* Whatever is scanned, on a boot or at the end of an activation.
LEMMA ScanIsIntact ==
  ASSUME NEW M, NEW S, NEW F, Scan(M, S, F), flash' = F, upload' = Nil
  PROVE  RunningImageIntact' /\ SlotsApart'
BY SelectedIsIntact DEF Scan, RunningImageIntact, SlotsApart

\* Writing into the slot of the upload leaves the image in use alone.
LEMMA OtherSlotIsIntact ==
  ASSUME IntactInvariant, upload # Nil, NEW pages,
         flash' = [flash EXCEPT ![upload.slot] = pages], active' = active,
         upload' # Nil, upload'.slot = upload.slot
  PROVE  RunningImageIntact' /\ SlotsApart'
<1>1. active # Nil => active.slot \in Index /\ flash'[active.slot] = flash[active.slot]
  BY DEF IntactInvariant, TypeOK, SlotsApart, Metadata
<1> QED BY <1>1 DEF IntactInvariant, RunningImageIntact, SlotsApart, ImageValid

LEMMA StepIntact ==
  ASSUME IntactInvariant, [Next]_vars
  PROVE  IntactInvariant'
<1> USE DEF flash_vars, ram_vars, call_vars
<1>1. TypeOK'
  BY StepType DEF IntactInvariant
<1> SUFFICES RunningImageIntact' /\ SlotsApart'
  BY <1>1 DEF IntactInvariant
<1>2. ASSUME UNCHANGED <<flash, active, upload>>  PROVE RunningImageIntact' /\ SlotsApart'
  BY <1>2 DEF IntactInvariant, RunningImageIntact, SlotsApart
<1>3. CASE \/ Activate \/ \E c \in Calibrations : SetCalibration(c)
           \/ EraseSector \/ ProgramSector \/ FinishCalibration \/ FlashFails \/ UNCHANGED vars
  BY <1>2, <1>3 DEF Activate, SetCalibration, Start, EraseSector, ProgramSector, Program,
                    FinishCalibration, FlashFails, vars
<1>4. ASSUME NEW image \in Images, BeginUpload(image)  PROVE RunningImageIntact' /\ SlotsApart'
  <2>1. upload'.slot = UploadSlot /\ UNCHANGED <<flash, active>>
    BY <1>4 DEF BeginUpload
  <2>2. active # Nil => active.slot \in Index /\ UploadSlot # active.slot
    BY DEF IntactInvariant, TypeOK, Metadata, UploadSlot, Other, Index
  <2> QED BY <2>1, <2>2 DEF IntactInvariant, RunningImageIntact, SlotsApart
<1>5. CASE VerifyUpload
  <2>1. upload # Nil /\ upload'.slot = upload.slot /\ UNCHANGED <<flash, active>>
    BY <1>5 DEF VerifyUpload, IntactInvariant, TypeOK, Uploads
  <2> QED BY <2>1 DEF IntactInvariant, RunningImageIntact, SlotsApart
<1>6. ASSUME NEW first \in Pages, NEW last \in Pages, NEW data \in Images,
             WriteChunk(first, last, data)
      PROVE  RunningImageIntact' /\ SlotsApart'
  <2>1. upload # Nil /\ upload \in Uploads /\ active' = active
    BY <1>6 DEF WriteChunk, ChunkAccepted, IntactInvariant, TypeOK
  <2>2. PICK fresh \in SUBSET Pages : upload' = [upload EXCEPT !.verified = FALSE, !.erased = @ \cup fresh]
    BY <1>6 DEF WriteChunk, FreshlyErased
  <2>3. upload' # Nil /\ upload'.slot = upload.slot
    <3>1. upload' \in Uploads
      BY <2>1, <2>2 DEF Uploads
    <3> QED BY <2>1, <2>2, <3>1, NilIsNoRecord DEF Uploads
  <2>4. PICK pages : flash' = [flash EXCEPT ![upload.slot] = pages]
    BY <1>6 DEF WriteChunk
  <2> QED BY <2>1, <2>3, <2>4, OtherSlotIsIntact
<1>7. ASSUME NEW first \in Pages, NEW last \in Pages, WriteChunkFails(first, last)
      PROVE  RunningImageIntact' /\ SlotsApart'
  <2>1. upload # Nil /\ upload \in Uploads /\ active' = active
    BY <1>7 DEF WriteChunkFails, ChunkAccepted, IntactInvariant, TypeOK
  <2>2. PICK fresh \in SUBSET Pages : upload' = [upload EXCEPT !.verified = FALSE, !.erased = @ \cup fresh]
    BY <1>7 DEF WriteChunkFails, FreshlyErased
  <2>3. upload' # Nil /\ upload'.slot = upload.slot
    <3>1. upload' \in Uploads
      BY <2>1, <2>2 DEF Uploads
    <3> QED BY <2>1, <2>2, <3>1, NilIsNoRecord DEF Uploads
  <2>4. PICK pages : flash' = [flash EXCEPT ![upload.slot] = pages]
    BY <1>7 DEF WriteChunkFails
  <2> QED BY <2>1, <2>3, <2>4, OtherSlotIsIntact
<1>8. CASE FinishActivation
  <2>1. Scan(sector_metadata', sector_settings', flash) /\ flash' = flash /\ upload' = Nil
    BY <1>8 DEF FinishActivation, Program
  <2> QED BY <2>1, ScanIsIntact
<1>9. CASE PowerLoss
  <2>1. ASSUME NEW M, NEW S, NEW F, Reboot(M, S, F)  PROVE RunningImageIntact' /\ SlotsApart'
    BY <2>1, ScanIsIntact DEF Reboot
  <2> QED BY <1>9, <2>1 DEF PowerLoss, PowerLossIdle, PowerLossInErase, PowerLossInProgram,
                            PowerLossInChunk
<1> QED BY <1>1, <1>3, <1>4, <1>5, <1>6, <1>7, <1>8, <1>9
        DEF Next, Operation, IntactInvariant

\* The running image is intact in flash at all times, and so readable by the live engine,
\* whatever the host uploads, verifies or activates, whenever power is lost and whichever
\* erase or program fails.
THEOREM RunningImageAlwaysIntact == Spec => []RunningImageIntact
<1>1. Init => IntactInvariant
  BY InitType DEF Init, IntactInvariant, RunningImageIntact, SlotsApart
<1>2. IntactInvariant /\ [Next]_vars => IntactInvariant'
  BY StepIntact
<1>3. IntactInvariant => RunningImageIntact
  BY DEF IntactInvariant
<1> QED BY <1>1, <1>2, <1>3, PTL DEF Spec

-----------------------------------------------------------------------------
\* An activation or a calibration that no power loss cuts and no flash operation fails is
\* reported as done: scan() finds the record it has just written, with the image whole.
THEOREM SuccessAlwaysReported == ~FlashCanFail => (Spec => []SuccessIsReported)
<1> SUFFICES ASSUME ~FlashCanFail PROVE Spec => []SuccessIsReported
  OBVIOUS
<1>1. Init => SuccessIsReported
  BY DEF Init, SuccessIsReported
<1>2. StoreInvariant /\ SuccessIsReported /\ [Next]_vars => SuccessIsReported'
  <2> SUFFICES ASSUME StoreInvariant, reply # "false", [Next]_vars PROVE reply' # "false"
    BY DEF SuccessIsReported
  <2> USE DEF flash_vars, ram_vars, call_vars
  <2>1. CASE \/ \E image \in Images : BeginUpload(image)
             \/ \E first, last \in Pages, data \in Images : WriteChunk(first, last, data)
             \/ \E first, last \in Pages : WriteChunkFails(first, last)
             \/ VerifyUpload \/ EraseSector \/ ProgramSector \/ UNCHANGED vars
    BY <2>1 DEF BeginUpload, WriteChunk, WriteChunkFails, VerifyUpload, EraseSector,
                ProgramSector, vars
  <2>2. CASE Activate \/ \E c \in Calibrations : SetCalibration(c)
    BY <2>2 DEF Activate, SetCalibration, Start
  <2>3. CASE FinishActivation
    BY <2>3, ActivationIsAdopted
  <2>4. CASE FinishCalibration
    BY <2>4 DEF FinishCalibration, Finish
  <2>5. CASE PowerLoss
    BY <2>5 DEF PowerLoss, PowerLossIdle, PowerLossInErase, PowerLossInProgram,
                PowerLossInChunk, Reboot
  <2>6. ~FlashFails
    BY DEF FlashFails
  <2> QED BY <2>1, <2>2, <2>3, <2>4, <2>5, <2>6 DEF Next, Operation
<1> QED BY <1>1, <1>2, StoreIsSafe, PTL DEF Spec

-----------------------------------------------------------------------------
(***************************************************************************)
(* The store implements AtomicRegister: activations are atomic.            *)
(***************************************************************************)
ActiveImage == IF active = Nil THEN Nil ELSE active.image

DurableIsInUse == DurableImage = ActiveImage

\* What a reboot would find is the image in use.
LEMMA DurableIsActive == StoreInvariant => DurableIsInUse
<1> SUFFICES ASSUME StoreInvariant PROVE DurableImage = ActiveImage
  BY DEF DurableIsInUse
<1>1. SameImage(Top(sector_metadata), active)
  BY DEF StoreInvariant, TopIsActive
<1>2. SelectedMetadata(sector_metadata, flash) = Top(sector_metadata)
  BY <1>1, AgreeingTopBoots, ScanSelectsTop DEF StoreInvariant, RunningImageIntact
<1> QED BY <1>1, <1>2 DEF DurableImage, ActiveImage, SameImage

\* Before the last write of a calibration, the other sector holds it.
PeerIsCalibrated ==
  stage = "target" /\ job.kind = "calibrate" => sector_settings[Other(job.target)] = job.settings

\* What a plan of sector writes does to the calibration: RAM and sectors agree except in the
\* sector being rewritten, and before its last write a calibration is in the other sector.
CalibrationInvariant ==
  /\ job = Nil => settings = sector_settings /\ calibration = DurableCalibration
  /\ \A i \in Index : ~(wiped /\ i = StageIndex) => settings[i] = sector_settings[i]
  /\ PeerIsCalibrated

\* A calibration that both sectors hold is the one in force.
LEMMA SameRecordIsEffective ==
  ASSUME NEW S, NEW r \in Settings, S[0] = r, S[1] = r
  PROVE  EffectiveCalibration(S) = r.calibration
<1>1. ValidSettings(S) = Index
  BY NilIsNoRecord DEF ValidSettings
<1>2. NewestSettings(S) = r
  BY DEF NewestSettings, Newest
<1> QED BY <1>1, <1>2 DEF EffectiveCalibration

\* Every step keeps it: a calibration is written to both sectors, and everything else that
\* ends a call or a power cycle reads the calibration back from the sectors.
LEMMA CalibrationStep ==
  ASSUME ~FlashCanFail, StoreInvariant, CalibrationInvariant, [Next]_vars
  PROVE  CalibrationInvariant'
<1> USE DEF flash_vars, ram_vars, call_vars
<1>0. TypeOK /\ TypeOK'
  BY StepType DEF StoreInvariant
<1>1. CASE \/ \E image \in Images : BeginUpload(image)
           \/ \E first, last \in Pages, data \in Images : WriteChunk(first, last, data)
           \/ \E first, last \in Pages : WriteChunkFails(first, last)
           \/ VerifyUpload \/ UNCHANGED vars
  <2>1. UNCHANGED <<sector_settings, settings, calibration, job, stage, wiped>>
    BY <1>1 DEF BeginUpload, WriteChunk, WriteChunkFails, VerifyUpload, vars
  <2> QED BY <2>1 DEF CalibrationInvariant, PeerIsCalibrated, StageIndex, DurableCalibration
<1>2. CASE Activate \/ \E c \in Calibrations : SetCalibration(c)
  <2>1. /\ stage = "idle" /\ job = Nil /\ wiped' = FALSE /\ stage' \in {"copy", "peer"}
        /\ UNCHANGED <<sector_settings, settings, calibration>>
    BY <1>0, <1>2 DEF Activate, SetCalibration, Start, TypeOK
  <2>2. job' # Nil
    BY <1>0, <2>1 DEF TypeOK
  <2> QED BY <2>1, <2>2 DEF CalibrationInvariant, PeerIsCalibrated
<1>3. CASE EraseSector
  <2>1. /\ job # Nil /\ ~wiped /\ wiped' = TRUE
        /\ sector_settings' = [sector_settings EXCEPT ![StageIndex] = Nil]
        /\ UNCHANGED <<settings, calibration, job, stage>>
    BY <1>0, <1>3 DEF EraseSector, TypeOK
  <2>2. StageIndex' = StageIndex /\ StageIndex \in Index
    BY <1>0, <2>1, StageTypes DEF StageIndex, TypeOK
  <2>3. \A i \in Index : i # StageIndex => sector_settings'[i] = sector_settings[i]
    BY <1>0, <2>1 DEF TypeOK
  <2>4. stage = "target" => Other(job.target) # StageIndex /\ Other(job.target) \in Index
    BY <1>0, <2>1 DEF StageIndex, TypeOK, Jobs
  <2> QED BY <2>1, <2>2, <2>3, <2>4 DEF CalibrationInvariant, PeerIsCalibrated
<1>4. CASE ProgramSector
  <2>1. /\ job # Nil /\ job \in Jobs /\ stage # "idle" /\ wiped' = FALSE
        /\ sector_settings' = [sector_settings EXCEPT ![StageIndex] = job.settings]
        /\ settings' = [settings EXCEPT ![StageIndex] = job.settings]
        /\ stage' = IF stage = "copy" THEN "peer" ELSE "target"
        /\ UNCHANGED <<calibration, job>>
    BY <1>0, <1>4 DEF ProgramSector, Program, TypeOK
  <2>2. StageIndex \in Index
    BY <2>1, StageTypes, <1>0
  <2>3. \A i \in Index : settings'[i] = sector_settings'[i]
    BY <1>0, <2>1, <2>2 DEF CalibrationInvariant, PeerIsCalibrated, TypeOK
  <2>4. stage' = "target" => sector_settings'[Other(job.target)] = job.settings
    BY <1>0, <1>4, <2>1, <2>2 DEF ProgramSector, StageIndex, TypeOK
  <2> QED BY <2>1, <2>3, <2>4 DEF CalibrationInvariant, PeerIsCalibrated
<1>5. CASE FinishActivation
  <2>1. job' = Nil /\ stage' = "idle" /\ wiped' = FALSE
    BY <1>5 DEF FinishActivation, Program, Finish
  <2>2. settings' = sector_settings' /\ calibration' = EffectiveCalibration(sector_settings')
    BY <1>5 DEF FinishActivation, Scan
  <2> QED BY <2>1, <2>2 DEF CalibrationInvariant, PeerIsCalibrated, DurableCalibration
<1>6. CASE FinishCalibration
  <2>1. /\ job # Nil /\ job \in Jobs /\ stage = "target" /\ job.kind = "calibrate"
        /\ sector_settings' = [sector_settings EXCEPT ![StageIndex] = job.settings]
        /\ settings' = [settings EXCEPT ![StageIndex] = job.settings]
        /\ calibration' = job.settings.calibration
        /\ job' = Nil /\ stage' = "idle" /\ wiped' = FALSE
    BY <1>0, <1>6 DEF FinishCalibration, Program, Finish, TypeOK
  <2>2. StageIndex = job.target /\ job.target \in Index /\ job.settings \in Settings
    BY <2>1 DEF StageIndex, Jobs
  <2>3. \A i \in Index : sector_settings'[i] = job.settings
    BY <1>0, <2>1, <2>2 DEF CalibrationInvariant, PeerIsCalibrated, TypeOK
  <2>4. \A i \in Index : settings'[i] = sector_settings'[i]
    BY <1>0, <2>1, <2>2 DEF CalibrationInvariant, PeerIsCalibrated, TypeOK
  <2>5. settings' = sector_settings'
    BY <1>0, <2>4 DEF TypeOK
  <2>6. EffectiveCalibration(sector_settings') = job.settings.calibration
    BY <2>2, <2>3, SameRecordIsEffective
  <2> QED BY <2>1, <2>5, <2>6 DEF CalibrationInvariant, PeerIsCalibrated, DurableCalibration
<1>7. CASE PowerLoss
  <2>1. job' = Nil /\ stage' = "idle" /\ wiped' = FALSE
    BY <1>7 DEF PowerLoss, PowerLossIdle, PowerLossInErase, PowerLossInProgram,
                PowerLossInChunk, Reboot
  <2>2. settings' = sector_settings' /\ calibration' = EffectiveCalibration(sector_settings')
    BY <1>7 DEF PowerLoss, PowerLossIdle, PowerLossInErase, PowerLossInProgram,
                PowerLossInChunk, Reboot, Scan
  <2> QED BY <2>1, <2>2 DEF CalibrationInvariant, PeerIsCalibrated, DurableCalibration
<1>8. ~FlashFails
  BY DEF FlashFails
<1> QED BY <1>1, <1>2, <1>3, <1>4, <1>5, <1>6, <1>7, <1>8 DEF Next, Operation

\* Between calls the firmware runs with the image and the calibration that a reboot would
\* come up with.
THEOREM RunningStaysDurable == ~FlashCanFail => (Spec => []RunningIsDurable)
<1> SUFFICES ASSUME ~FlashCanFail PROVE Spec => []RunningIsDurable
  OBVIOUS
<1>1. Init => CalibrationInvariant
  BY DEF Init, CalibrationInvariant, PeerIsCalibrated, DurableCalibration, EffectiveCalibration, ValidSettings
<1>2. StoreInvariant /\ CalibrationInvariant /\ [Next]_vars => CalibrationInvariant'
  BY CalibrationStep
<1>3. StoreInvariant /\ CalibrationInvariant => RunningIsDurable
  BY DurableIsActive
     DEF RunningIsDurable, CalibrationInvariant, DurableIsInUse, ActiveImage, StoreInvariant, TypeOK
<1> QED BY <1>1, <1>2, <1>3, StoreIsSafe, PTL DEF Spec

\* A call that returns true has made what it was asked for durable, even where flash
\* operations fail: an activation asks scan() for its answer, and a calibration answers only
\* after both sectors hold it.
THEOREM RepliesAreTruthful == Spec => ReplyIsTruthful
<1> USE DEF flash_vars, ram_vars, call_vars
<1> DEFINE Truthful ==
      job # Nil /\ job' = Nil /\ reply' # "none" =>
        IF job.kind = "activate"
        THEN reply' = "true" => DurableImage' = job.targetMetadata.image
        ELSE reply' = "true" => DurableCalibration' = job.settings.calibration
<1>1. Init => PeerIsCalibrated
  BY DEF Init, PeerIsCalibrated
<1>2. TypeOK /\ PeerIsCalibrated /\ [Next]_vars => PeerIsCalibrated'
  <2> SUFFICES ASSUME TypeOK, PeerIsCalibrated, [Next]_vars,
                      stage' = "target", job'.kind = "calibrate"
               PROVE  sector_settings'[Other(job'.target)] = job'.settings
    BY DEF PeerIsCalibrated
  <2>1. CASE EraseSector
    <3>1. /\ job # Nil /\ stage = "target" /\ job' = job
          /\ sector_settings' = [sector_settings EXCEPT ![StageIndex] = Nil]
      BY <2>1 DEF EraseSector, TypeOK
    <3>2. StageIndex = job.target /\ job.target \in Index
      BY <3>1 DEF StageIndex, TypeOK, Jobs
    <3> QED BY <3>1, <3>2 DEF PeerIsCalibrated, TypeOK
  <2>2. CASE ProgramSector
    <3>1. /\ job # Nil /\ job \in Jobs /\ stage = "peer" /\ job' = job
          /\ sector_settings' = [sector_settings EXCEPT ![StageIndex] = job.settings]
      BY <2>2 DEF ProgramSector, Program, TypeOK
    <3>2. StageIndex = Other(job.target) /\ StageIndex \in Index
      BY <3>1 DEF StageIndex, Jobs
    <3> QED BY <3>1, <3>2 DEF TypeOK
  <2>3. CASE \/ \E image \in Images : BeginUpload(image)
             \/ \E first, last \in Pages, data \in Images : WriteChunk(first, last, data)
             \/ \E first, last \in Pages : WriteChunkFails(first, last)
             \/ VerifyUpload \/ UNCHANGED vars
    BY <2>3 DEF BeginUpload, WriteChunk, WriteChunkFails, VerifyUpload, vars, PeerIsCalibrated
  <2>4. ~(Activate \/ \E c \in Calibrations : SetCalibration(c))
    BY DEF Activate, SetCalibration, Start
  <2>5. ~(FinishActivation \/ FinishCalibration \/ FlashFails)
    BY DEF FinishActivation, FinishCalibration, FlashFails, Finish
  <2>6. ~PowerLoss
    BY DEF PowerLoss, PowerLossIdle, PowerLossInErase, PowerLossInProgram, PowerLossInChunk,
           Reboot
  <2> QED BY <2>1, <2>2, <2>3, <2>4, <2>5, <2>6 DEF Next, Operation
<1>3. TypeOK /\ PeerIsCalibrated /\ [Next]_vars => Truthful
  <2> SUFFICES ASSUME TypeOK, PeerIsCalibrated, [Next]_vars,
                      job # Nil, job' = Nil, reply' = "true"
               PROVE  IF job.kind = "activate"
                      THEN DurableImage' = job.targetMetadata.image
                      ELSE DurableCalibration' = job.settings.calibration
    OBVIOUS
  <2>1. CASE FinishActivation
    <3>1. /\ job.kind = "activate" /\ flash' = flash
          /\ SelectedMetadata(sector_metadata', flash) # Nil
          /\ SelectedMetadata(sector_metadata', flash).image = job.targetMetadata.image
      BY <2>1 DEF FinishActivation, Program, Finish
    <3> QED BY <3>1 DEF DurableImage
  <2>2. CASE FinishCalibration
    <3>1. /\ job \in Jobs /\ stage = "target" /\ job.kind = "calibrate"
          /\ sector_settings' = [sector_settings EXCEPT ![StageIndex] = job.settings]
      BY <2>2 DEF FinishCalibration, Program, TypeOK
    <3>2. StageIndex = job.target /\ job.target \in Index /\ job.settings \in Settings
      BY <3>1 DEF StageIndex, Jobs
    <3>3. \A i \in Index : sector_settings'[i] = job.settings
      BY <3>1, <3>2 DEF PeerIsCalibrated, TypeOK
    <3> QED BY <3>1, <3>2, <3>3, SameRecordIsEffective DEF DurableCalibration
  <2>3. stage # "idle"
    BY DEF TypeOK
  <2>4. ~FlashFails
    BY DEF FlashFails, Finish
  <2>5. ~PowerLoss
    BY DEF PowerLoss, PowerLossIdle, PowerLossInErase, PowerLossInProgram, PowerLossInChunk,
           Reboot
  <2>6. ~(EraseSector \/ ProgramSector \/ UNCHANGED vars)
    BY DEF EraseSector, ProgramSector, vars
  <2> QED BY <2>1, <2>2, <2>3, <2>4, <2>5, <2>6
          DEF Next, Operation, BeginUpload, WriteChunk, WriteChunkFails, VerifyUpload,
              Activate, SetCalibration
<1>4. TypeOK /\ PeerIsCalibrated /\ [Next]_vars => [Truthful]_vars
  BY <1>3
<1> HIDE DEF Truthful
<1>5. Spec => [][Truthful]_vars
  BY <1>1, <1>2, <1>4, TypeCorrect, PTL DEF Spec
<1> QED BY <1>5 DEF ReplyIsTruthful, Truthful

\* What each step does to the image in use and to the image being activated.
LEMMA StepEffect ==
  ASSUME ~FlashCanFail, StoreInvariant, [Next]_vars
  PROVE  \/ ActiveImage' = ActiveImage /\ PendingImage' = PendingImage
         \/ ActiveImage' = ActiveImage /\ PendingImage = Nil /\ PendingImage' \in Images
         \/ ActiveImage' \in {ActiveImage, PendingImage} /\ PendingImage # Nil /\ PendingImage' = Nil
<1> USE DEF flash_vars, ram_vars, call_vars, ActiveImage, PendingImage
<1>0. TypeOK
  BY DEF StoreInvariant
<1>1. CASE \/ \E image \in Images : BeginUpload(image)
           \/ \E first, last \in Pages, data \in Images : WriteChunk(first, last, data)
           \/ VerifyUpload \/ EraseSector \/ ProgramSector \/ UNCHANGED vars
  BY <1>1 DEF BeginUpload, WriteChunk, VerifyUpload, EraseSector, ProgramSector, vars
<1>2. CASE Activate
  <2>1. upload \in Uploads /\ job = Nil
    BY <1>0, <1>2 DEF Activate, TypeOK
  <2>2. job'.kind = "activate" /\ job' # Nil /\ job'.targetMetadata.image = upload.image
    <3>1. TypeOK'
      BY <1>0, <1>2, StepType DEF Next, Operation
    <3> QED BY <1>2, <3>1 DEF Activate, Start, TypeOK
  <2>3. active' = active
    BY <1>2 DEF Activate, Start
  <2> QED BY <2>1, <2>2, <2>3 DEF Uploads
<1>3. CASE \E c \in Calibrations : SetCalibration(c)
  <2>1. job = Nil /\ active' = active
    BY <1>0, <1>3 DEF SetCalibration, Start, TypeOK
  <2>2. job'.kind # "activate"
    BY <1>3 DEF SetCalibration, Start
  <2> QED BY <2>1, <2>2
<1>4. CASE FinishActivation
  <2>1. /\ job.kind = "activate" /\ job' = Nil /\ stage = "target" /\ wiped
        /\ job # Nil /\ job \in Jobs /\ StageIndex = job.target
    BY <1>0, <1>4, StageTypes, NilIsNoRecord DEF FinishActivation, Finish, Program, StageIndex
  <2>2. StoreInvariant' /\ stage' = "idle"
    BY <1>4, StepInvariant DEF FinishActivation, Finish
  <2>3. active' = Top(sector_metadata')
    BY <2>2 DEF StoreInvariant, TopIsActive
  <2>4. sector_metadata' = [sector_metadata EXCEPT ![job.target] = job.targetMetadata]
    BY <1>4, <2>1 DEF FinishActivation, Program, StageMetadata
  <2>5. Top(sector_metadata') \in {sector_metadata'[0], sector_metadata'[1]}
    BY TopCases
  <2>6. job.target \in Index /\ sector_metadata[Other(job.target)] = active
    BY <2>1 DEF StoreInvariant, PlanIsSafe, Jobs
  <2>7. active' \in {job.targetMetadata, active}
    BY <1>0, <2>3, <2>4, <2>5, <2>6 DEF TypeOK
  <2>8. job.targetMetadata.image \in Images /\ job.targetMetadata # Nil
    <3>1. upload \in Uploads
      BY <1>0, <2>1 DEF StoreInvariant, PlanIsSafe, TypeOK
    <3>2. job.targetMetadata.image = upload.image
      BY <2>1 DEF StoreInvariant, PlanIsSafe
    <3>3. job.targetMetadata \in Metadata
      <4>1. job.targetMetadata =
              [generation |-> IF active # Nil THEN NextGeneration(active.generation) ELSE 1,
               slot |-> upload.slot, image |-> upload.image]
        BY <2>1 DEF StoreInvariant, PlanIsSafe
      <4> QED BY <1>0, <3>1, <4>1, GenerationOrder, StoreAssumption
              DEF TypeOK, Metadata, Uploads, Generations
    <3> QED BY <3>1, <3>2, <3>3, NilIsNoRecord DEF Uploads
  <2> QED BY <2>1, <2>7, <2>8, NilIsNoRecord
<1>5. CASE FinishCalibration
  BY <1>5 DEF FinishCalibration, Finish
<1>6. CASE PowerLossIdle
  <2>1. job = Nil /\ job' = Nil /\ stage = "idle"
    BY <1>0, <1>6 DEF PowerLossIdle, Reboot, TypeOK
  <2>2. StoreInvariant' /\ stage' = "idle" /\ sector_metadata' = sector_metadata
    BY <1>6, StepInvariant DEF PowerLossIdle, Reboot, Next, PowerLoss
  <2>3. active' = active
    BY <2>1, <2>2 DEF StoreInvariant, TopIsActive
  <2> QED BY <2>1, <2>3
<1>7. CASE \E first, last \in Pages, data \in Images : PowerLossInChunk(first, last, data)
  <2>1. job = Nil /\ job' = Nil /\ stage = "idle"
    BY <1>0, <1>7 DEF PowerLossInChunk, Reboot, TypeOK
  <2>2. StoreInvariant' /\ stage' = "idle" /\ sector_metadata' = sector_metadata
    BY <1>7, StepInvariant DEF PowerLossInChunk, Reboot, Next, PowerLoss
  <2>3. active' = active
    BY <2>1, <2>2 DEF StoreInvariant, TopIsActive
  <2> QED BY <2>1, <2>3
<1>8. CASE PowerLossInErase \/ PowerLossInProgram
  <2>1. job' = Nil /\ stage' = "idle" /\ stage # "idle" /\ job \in Jobs /\ job # Nil
    BY <1>0, <1>8, StageTypes, NilIsNoRecord DEF PowerLossInErase, PowerLossInProgram, Reboot, TypeOK
  <2>2. PICK m \in {sector_metadata[StageIndex], Nil, StageMetadata} :
          /\ sector_metadata' = [sector_metadata EXCEPT ![StageIndex] = m]
          /\ m \notin {sector_metadata[StageIndex], Nil} => m = StageMetadata
    BY <1>8 DEF PowerLossInErase, PowerLossInProgram, Reboot
  <2>3. active' = Top(sector_metadata')
    <3>1. StoreInvariant'
      BY <1>8, StepInvariant DEF Next, PowerLoss
    <3> QED BY <2>1, <3>1 DEF StoreInvariant, TopIsActive
  <2>4. CASE m \in {sector_metadata[StageIndex], Nil, active}
    <3>1. SameImage(active', active)
      BY <2>1, <2>2, <2>3, <2>4, PlanKeepsTop
    <3>2. ActiveImage' = ActiveImage
      BY <3>1 DEF SameImage
    <3> QED BY <2>1, <3>2
  <2>5. CASE m \notin {sector_metadata[StageIndex], Nil, active}
    <3>1. /\ m = job.targetMetadata /\ stage = "target" /\ job.kind = "activate"
          /\ StageIndex = job.target /\ job.target \in Index
      BY <2>1, <2>2, <2>5 DEF StageMetadata, StageIndex, StoreInvariant, PlanIsSafe, Jobs, TypeOK
    <3>2. sector_metadata[Other(job.target)] = active
      BY <2>1, <3>1 DEF StoreInvariant, PlanIsSafe
    <3>3. active' \in {active, job.targetMetadata}
      <4>1. sector_metadata'[job.target] = m /\ sector_metadata'[Other(job.target)] = active
        BY <1>0, <2>2, <3>1, <3>2 DEF TypeOK
      <4>2. active' \in {sector_metadata'[0], sector_metadata'[1]}
        BY <2>3, TopCases
      <4> QED BY <3>1, <4>1, <4>2
    <3>4. job.targetMetadata \in Metadata
      BY <1>0, <2>1, <2>5, <3>1, StageTypes DEF StageMetadata
    <3>5. job.targetMetadata.image # Nil /\ job.targetMetadata # Nil
      BY <3>4, NilIsNoRecord DEF Metadata
    <3> QED BY <2>1, <3>1, <3>3, <3>5
  <2> QED BY <2>4, <2>5
<1> QED BY <1>1, <1>2, <1>3, <1>4, <1>5, <1>6, <1>7, <1>8
        DEF Next, Operation, PowerLoss, FlashFails, WriteChunkFails

\* An activation replaces the durable image by the uploaded one or not at all, a power loss
\* at any instant of it included, and nothing but an activation changes the durable image.
THEOREM StoreImplementsRegister == ~FlashCanFail => (Spec => ImageIsAtomic)
<1> SUFFICES ASSUME ~FlashCanFail PROVE Spec => ImageIsAtomic
  OBVIOUS
<1>1. Init => ImageRegister!Init
  <2> SUFFICES ASSUME Init PROVE ImageRegister!Init
    OBVIOUS
  <2>1. DurableImage = Nil
    BY InitInvariant, DurableIsActive DEF Init, ActiveImage, DurableIsInUse
  <2> QED BY <2>1 DEF Init, ImageRegister!Init, PendingImage
<1>2. StoreInvariant /\ DurableIsInUse /\ DurableIsInUse' /\ [Next]_vars
        => [ImageRegister!Next]_(ImageRegister!vars)
  BY StepEffect DEF DurableIsInUse, ImageRegister!Next, ImageRegister!vars, ImageRegister!Request,
                    ImageRegister!GiveUp
<1>3. Spec => []StoreInvariant
  BY StoreIsSafe
<1> QED BY <1>1, <1>2, <1>3, DurableIsActive, PTL DEF Spec, ImageIsAtomic, ImageRegister!Spec
=============================================================================

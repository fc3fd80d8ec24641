-------------------------- MODULE EditorLinkProofs --------------------------
(***************************************************************************)
(* Proofs about EditorLink for any number of concurrent calls, images,     *)
(* chunks, attempts and sessions, and whatever the link does.              *)
(***************************************************************************)
EXTENDS EditorLink, SequenceTheorems, TLAPS

(***************************************************************************)
(* Two syncs share one staged upload: the chunks of one may be programmed  *)
(* into the upload that the other began, and either may verify or activate *)
(* what is there. What makes that harmless is that every chunk and every   *)
(* new upload take back the verification.                                  *)
(***************************************************************************)
VerifiedIsWhole ==
  upload # Nil =>
    /\ upload = [image |-> upload.image, erased |-> upload.erased, verified |-> upload.verified]
    /\ upload.verified => \A k \in Chunks : spare[k] = upload.image

\* What a request that is not answered from the cache does to the staged upload.
LEMMA DispatchKeepsVerified ==
  ASSUME VerifiedIsWhole, NEW frame, Dispatch(frame)
  PROVE  /\ VerifiedIsWhole'
         /\ active' # active => active' = factory_image \/ \A k \in Chunks : spare[k] = active'
<1> USE DEF VerifiedIsWhole
<1>1. CASE Capabilities(frame) \/ ConfigInfo(frame) \/ ReadConfig(frame) \/ Busy(frame)
           \/ ExpressionSample(frame)
  BY <1>1 DEF Capabilities, ConfigInfo, ReadConfig, Busy, ExpressionSample, store_vars
<1>2. CASE BeginUpload(frame)
  BY <1>2 DEF BeginUpload
<1>3. CASE WriteChunk(frame)
  <2>1. CASE upload = Nil
    BY <1>3, <2>1 DEF WriteChunk, store_vars
  <2>2. CASE upload # Nil
    <3>1. active' = active
      BY <1>3, <2>2 DEF WriteChunk
    <3>2. upload' = [image |-> upload.image, erased |-> upload.erased \cup {frame.index},
                     verified |-> FALSE]
      BY <1>3, <2>2 DEF WriteChunk
    <3> QED BY <3>1, <3>2
  <2> QED BY <2>1, <2>2
<1>4. CASE VerifyUpload(frame)
  <2>1. active' = active /\ spare' = spare
    BY <1>4 DEF VerifyUpload
  <2>2. \/ upload' = upload
        \/ /\ upload # Nil /\ \A k \in Chunks : spare[k] = upload.image
           /\ upload' = [image |-> upload.image, erased |-> upload.erased, verified |-> TRUE]
    BY <1>4 DEF VerifyUpload
  <2> QED BY <2>1, <2>2
<1>5. CASE ActivateUpload(frame)
  BY <1>5 DEF ActivateUpload, Activate, store_vars
<1>6. CASE SetExpressionCalibration(frame)
  BY <1>6 DEF SetExpressionCalibration, store_vars
<1>7. CASE FactoryEmptyReset(frame)
  BY <1>7 DEF FactoryEmptyReset, Activate
<1> QED BY <1>1, <1>2, <1>3, <1>4, <1>5, <1>6, <1>7 DEF Dispatch

\* However the requests of several syncs interleave, are retried, lost or cut off, the pedal
\* switches only to an image that is at that moment complete in flash, or to its own.
THEOREM OnlyWholeImagesActivate == Spec => ActivatedImageIsWhole
<1> DEFINE Whole == active' # active =>
                      active' = factory_image \/ \A k \in Chunks : spare[k] = active'
<1>1. Init => VerifiedIsWhole
  BY DEF Init, DispatcherInit, VerifiedIsWhole
<1>2. VerifiedIsWhole /\ [Next]_vars => VerifiedIsWhole' /\ Whole
  <2> SUFFICES ASSUME VerifiedIsWhole, [Next]_vars PROVE VerifiedIsWhole' /\ Whole
    OBVIOUS
  <2>1. CASE Receive
    <3>1. CASE UNCHANGED store_vars
      BY <3>1 DEF store_vars, VerifiedIsWhole
    <3>2. CASE Dispatch(Head(requests).frame)
      BY <3>2, DispatchKeepsVerified
    <3> QED BY <2>1, <3>1, <3>2 DEF Receive, Replay
  <2>2. CASE Restart
    BY <2>2 DEF Restart, PowerCycle, VerifiedIsWhole
  <2>3. CASE \/ \E c \in Syncs : Connect(c) \/ Timeout(c)
             \/ \E c \in Syncs, config \in Configs : StartSync(c, config)
             \/ \E c \in Syncs, step \in Others : StartOther(c, step)
             \/ Deliver \/ LoseRequest \/ LoseResponse \/ Disconnect \/ Tick \/ Navigate
             \/ UNCHANGED vars
    <3>1. UNCHANGED store_vars
      BY <2>3 DEF Connect, Timeout, StartSync, StartOther, Deliver, LoseRequest, LoseResponse,
                  Disconnect, Tick, RefreshConfiguration, Navigate, ChangeBank, vars,
                  dispatcher_vars
    <3> QED BY <3>1 DEF store_vars, VerifiedIsWhole
  <2> QED BY <2>1, <2>2, <2>3 DEF Next
<1>3. Spec => [][Whole]_vars
  <2> HIDE DEF Whole
  <2> QED BY <1>1, <1>2, PTL DEF Spec
<1> QED BY <1>3 DEF ActivatedImageIsWhole
-----------------------------------------------------------------------------
(***************************************************************************)
(* Types. LinkTypeOK is not inductive: that an upload has an image, that   *)
(* the document read consists of images, and that a request belongs to a   *)
(* session depend on what the calls carry, on what an OK answer to         *)
(* READ_CONFIG carries and on nothing being asked before a connection.     *)
(***************************************************************************)
SyncSteps == {"begin", "write", "verify", "activate", "readback"}

CallsMade ==
  {call \in Calls :
     /\ call.step = "idle" => call = Idle
     /\ call.step \in SyncSteps => call.image \in Images
     /\ call.step = "write" => call.index \in Chunks
     /\ call.step = "calibrate" => call.index \in {Measured, Narrow}}

FramesSent ==
  {frame \in Frames :
     /\ frame.command \in {"BEGIN_UPLOAD", "WRITE_CHUNK"} => frame.image \in Images
     /\ frame.command = "WRITE_CHUNK" => frame.index \in Chunks
     /\ frame.command = "SET_EXPRESSION_CALIBRATION" => frame.index \in {Measured, Narrow}}

RequestsSent == [session : 1 .. MaxSessions, frame : FramesSent]

Answers ==
  {answer \in Responses :
     answer.command = "READ_CONFIG" /\ answer.status = "OK" => answer.image \in Images}

StoreTypes ==
  /\ active \in Images \cup {Nil}
  /\ spare \in [Chunks -> Images \cup {Erased, Garbled}]
  /\ upload \in Uploads \cup {Nil}
  /\ calibration \in {Default, Measured}

AnswerTypes ==
  /\ cache \in Seq(Answers) /\ Len(cache) <= CacheCapacity
  /\ responses \in Seq(Answers) /\ Len(responses) <= CdcQueueCapacity

RuntimeTypes == snapshot \in Snapshots /\ bank \in Images \cup {Nil}

HostTypes ==
  /\ session \in 0 .. MaxSessions
  /\ phase \in {"offline", "connecting", "connected", "abandoned"}
  /\ nextRequestId \in Nat
  /\ info \in Images \cup {Nil}
  /\ document \subseteq Images
  /\ calls \in [Syncs -> CallsMade]
  /\ result \in [Syncs -> {"none", "synchronized", "done", "failed"}]
  /\ previous \in [Syncs -> Images \cup {Nil}]
  /\ session = 0 => phase = "offline" /\ \A c \in Syncs : calls[c] = Idle

HistoryTypes == executed \in Seq(Nat) /\ activated \subseteq Images

LinkInvariant ==
  /\ StoreTypes /\ AnswerTypes /\ RuntimeTypes
  /\ requests \in Seq(RequestsSent)
  /\ HostTypes /\ HistoryTypes

\* What the link's types come to.
LEMMA LinkInvariantTypes == LinkInvariant => LinkTypeOK
<1> SUFFICES ASSUME LinkInvariant PROVE LinkTypeOK
  OBVIOUS
<1>1. Answers \subseteq Responses /\ RequestsSent \subseteq Requests /\ CallsMade \subseteq Calls
  BY DEF Answers, RequestsSent, Requests, FramesSent, CallsMade
<1>2. cache \in Seq(Responses) /\ responses \in Seq(Responses) /\ requests \in Seq(Requests)
  BY <1>1, SeqMonotonic DEF LinkInvariant, AnswerTypes
<1>3. calls \in [Syncs -> Calls]
  BY <1>1 DEF LinkInvariant, HostTypes
<1> QED BY <1>2, <1>3
        DEF LinkInvariant, LinkTypeOK, DispatcherTypeOK, StoreTypes, AnswerTypes, RuntimeTypes,
            HostTypes, HistoryTypes

\* Nil stands for no image and no upload.
LEMMA NilIsNoImage == Nil \notin Images /\ Nil \notin Uploads
BY DispatcherAssumption DEF DispatcherAssumption

\* The built-in image is an image.
LEMMA FactoryImageType == factory_image \in Images
BY DispatcherAssumption DEF DispatcherAssumption, factory_image, Images

\* The status of the store is what the live engine keeps a snapshot of.
LEMMA StatusType == active \in Images \cup {Nil} => Status \in Snapshots
BY DispatcherAssumption
   DEF DispatcherAssumption, Status, Snapshots, SequenceOf, BanksOf, Images

\* An answer joins the response queue unless it is full.
LEMMA EnqueueType ==
  ASSUME NEW queue \in Seq(Answers), Len(queue) <= CdcQueueCapacity, NEW answer \in Answers
  PROVE  /\ Enqueue(queue, answer) \in Seq(Answers)
         /\ Len(Enqueue(queue, answer)) <= CdcQueueCapacity
<1>1. Len(queue) \in Nat /\ CdcQueueCapacity \in Nat
  BY LenProperties, DispatcherAssumption DEF DispatcherAssumption
<1>2. Append(queue, answer) \in Seq(Answers) /\ Len(Append(queue, answer)) = Len(queue) + 1
  BY AppendProperties
<1> QED BY <1>1, <1>2 DEF Enqueue

\* A response takes the place of the least recently used one.
LEMMA RememberType ==
  ASSUME NEW entries \in Seq(Answers), Len(entries) <= CacheCapacity, NEW answer \in Answers
  PROVE  /\ Remember(entries, answer) \in Seq(Answers)
         /\ Len(Remember(entries, answer)) <= CacheCapacity
<1> DEFINE kept == IF Len(entries) = CacheCapacity THEN Tail(entries) ELSE entries
<1>1. Len(entries) \in Nat /\ CacheCapacity \in Nat \ {0}
  BY LenProperties, DispatcherAssumption DEF DispatcherAssumption
<1>2. kept \in Seq(Answers) /\ Len(kept) < CacheCapacity
  <2>1. CASE Len(entries) = CacheCapacity
    <3>1. entries # <<>>
      BY <1>1, <2>1, EmptySeq
    <3> QED BY <1>1, <2>1, <3>1, HeadTailProperties
  <2>2. CASE Len(entries) # CacheCapacity
    BY <1>1, <2>2
  <2> QED BY <2>1, <2>2
<1>3. Append(kept, answer) \in Seq(Answers) /\ Len(Append(kept, answer)) = Len(kept) + 1
  BY <1>2, AppendProperties
<1>4. Len(kept) \in Nat
  BY <1>2, LenProperties
<1> HIDE DEF kept
<1>5. Remember(entries, answer) = Append(kept, answer)
  BY DEF Remember, kept
<1> QED BY <1>1, <1>2, <1>3, <1>4, <1>5

\* An answer that is remembered and queued.
LEMMA EmitTypes ==
  ASSUME AnswerTypes, RuntimeTypes, NEW frame \in FramesSent, NEW status \in Statuses,
         NEW image \in Images \cup {Nil}, Emit(frame, status, image),
         frame.command = "READ_CONFIG" /\ status = "OK" => image \in Images
  PROVE  AnswerTypes' /\ RuntimeTypes'
<1> DEFINE response == [id |-> frame.id, command |-> frame.command, status |-> status,
                        image |-> image]
<1>1. response \in Answers
  BY DEF Answers, Responses, FramesSent, Frames
<1>2. /\ cache' = Remember(cache, response) /\ responses' = Enqueue(responses, response)
      /\ UNCHANGED <<snapshot, bank>>
  BY DEF Emit, runtime_vars
<1> HIDE DEF response
<1> QED BY <1>1, <1>2, RememberType, EnqueueType DEF AnswerTypes, RuntimeTypes

\* The cache answers: its entry moves to the end.
LEMMA ReplayTypes ==
  ASSUME AnswerTypes, RuntimeTypes, NEW frame, Replay(frame)
  PROVE  AnswerTypes' /\ RuntimeTypes' /\ UNCHANGED store_vars
<1>1. PICK k \in DOMAIN cache :
        /\ cache' = SubSeq(cache, 1, k - 1) \o SubSeq(cache, k + 1, Len(cache)) \o <<cache[k]>>
        /\ responses' = Enqueue(responses, cache[k])
        /\ UNCHANGED <<store_vars, runtime_vars>>
  BY DEF Replay
<1>2. Len(cache) \in Nat /\ k \in 1 .. Len(cache) /\ cache[k] \in Answers
      /\ \A i \in 1 .. Len(cache) : cache[i] \in Answers
  BY LenProperties, ElementOfSeq DEF AnswerTypes
<1> DEFINE before == SubSeq(cache, 1, k - 1)
           after == SubSeq(cache, k + 1, Len(cache))
<1>3. /\ before \in Seq(Answers) /\ Len(before) = k - 1
      /\ after \in Seq(Answers) /\ Len(after) = Len(cache) - k
  BY <1>2, SubSeqProperties
<1>4. <<cache[k]>> \in Seq(Answers) /\ Len(<<cache[k]>>) = 1
  BY <1>2
<1> HIDE DEF before, after
<1>5. /\ before \o after \in Seq(Answers)
      /\ Len(before \o after) = Len(cache) - 1
  BY <1>2, <1>3, ConcatProperties
<1>6. cache' \in Seq(Answers) /\ Len(cache') = Len(cache)
  <2>1. cache' = (before \o after) \o <<cache[k]>>
    BY <1>1 DEF before, after
  <2> QED BY <1>2, <1>4, <1>5, <2>1, ConcatProperties
<1>7. responses' \in Seq(Answers) /\ Len(responses') <= CdcQueueCapacity
  BY <1>1, <1>2, EnqueueType DEF AnswerTypes
<1> QED BY <1>1, <1>6, <1>7 DEF AnswerTypes, RuntimeTypes, runtime_vars

\* What is in flash is an image or nothing whole.
LEMMA ProgrammedType ==
  ASSUME NEW old \in Images \cup {Erased, Garbled}, NEW data \in Images
  PROVE  Programmed(old, data) \in Images \cup {Erased, Garbled}
BY DEF Programmed

\* Every request the host sends is answered with a response of the right type.
LEMMA DispatchTypes ==
  ASSUME StoreTypes, AnswerTypes, RuntimeTypes, NEW frame \in FramesSent, Dispatch(frame)
  PROVE  /\ StoreTypes' /\ AnswerTypes' /\ RuntimeTypes'
         /\ active' # active => active' \in Images
<1> USE NilIsNoImage, FactoryImageType
<1>0. {"OK", "BUSY", "INVALID_CONFIGURATION", "VERIFY_FAILED", "INVALID_STATE", "UNREADABLE"}
        = Statuses
  BY DEF Statuses
<1>1. CASE Capabilities(frame) \/ ConfigInfo(frame) \/ Busy(frame) \/ ExpressionSample(frame)
  <2>1. \E status \in Statuses, image \in Images \cup {Nil} :
          Emit(frame, status, image) /\ frame.command # "READ_CONFIG"
    BY <1>1 DEF Capabilities, ConfigInfo, Busy, ExpressionSample, Statuses, Mutations, StoreTypes
  <2>2. UNCHANGED store_vars
    BY <1>1 DEF Capabilities, ConfigInfo, Busy, ExpressionSample
  <2> QED BY <2>1, <2>2, EmitTypes DEF store_vars, StoreTypes
<1>2. CASE ReadConfig(frame)
  <2> DEFINE record == BankRecord(frame.index)
             status == IF record = Nil THEN "INVALID_CONFIGURATION" ELSE "OK"
  <2>1. record \in Images \cup {Nil} /\ status \in Statuses
    BY DEF BankRecord, StoreTypes, Statuses
  <2>2. Emit(frame, status, record) /\ UNCHANGED store_vars
    BY <1>2 DEF ReadConfig
  <2>3. status = "OK" => record \in Images
    BY <2>1
  <2> HIDE DEF record, status
  <2> QED BY <2>1, <2>2, <2>3, EmitTypes DEF store_vars, StoreTypes
<1>3. CASE BeginUpload(frame)
  <2>1. frame.image \in Images /\ frame.command # "READ_CONFIG"
    BY <1>3 DEF BeginUpload, FramesSent
  <2>2. upload' \in Uploads /\ UNCHANGED <<active, spare, calibration>>
    BY <1>3, <2>1 DEF BeginUpload, Uploads
  <2>3. Emit(frame, "OK", Nil)
    BY <1>3 DEF BeginUpload
  <2>4. AnswerTypes' /\ RuntimeTypes'
    BY <1>0, <2>1, <2>3, EmitTypes
  <2> QED BY <2>2, <2>4 DEF StoreTypes
<1>4. CASE WriteChunk(frame)
  <2>1. frame.image \in Images /\ frame.index \in Chunks /\ frame.command # "READ_CONFIG"
    BY <1>4 DEF WriteChunk, FramesSent
  <2>2. AnswerTypes' /\ RuntimeTypes'
    <3>1. Emit(frame, upload_error(upload # Nil), Nil)
      BY <1>4 DEF WriteChunk
    <3>2. upload_error(upload # Nil) \in Statuses
      BY DEF upload_error, Statuses
    <3> QED BY <2>1, <3>1, <3>2, EmitTypes
  <2>3. CASE upload = Nil
    BY <1>4, <2>2, <2>3 DEF WriteChunk, store_vars, StoreTypes
  <2>4. CASE upload # Nil
    <3>1. upload \in Uploads
      BY <2>4 DEF StoreTypes
    <3>2. /\ UNCHANGED <<active, calibration>>
          /\ spare' = [spare EXCEPT ![frame.index] =
                         IF frame.index \in upload.erased THEN Programmed(@, frame.image)
                                                          ELSE frame.image]
          /\ upload' = [upload EXCEPT !.erased = @ \cup {frame.index}, !.verified = FALSE]
      BY <1>4, <2>4 DEF WriteChunk
    <3>3. spare' \in [Chunks -> Images \cup {Erased, Garbled}]
      BY <2>1, <3>2, ProgrammedType DEF StoreTypes
    <3>4. upload' \in Uploads
      BY <2>1, <3>1, <3>2 DEF Uploads
    <3> QED BY <2>2, <3>2, <3>3, <3>4 DEF StoreTypes
  <2> QED BY <2>3, <2>4
<1>5. CASE VerifyUpload(frame)
  <2>1. UNCHANGED <<active, spare, calibration>> /\ upload' \in Uploads \cup {Nil}
    BY <1>5 DEF VerifyUpload, StoreTypes, Uploads
  <2>2. \E status \in Statuses : Emit(frame, status, Nil)
    BY <1>0, <1>5 DEF VerifyUpload
  <2>3. frame.command # "READ_CONFIG"
    BY <1>5 DEF VerifyUpload
  <2>4. AnswerTypes' /\ RuntimeTypes'
    BY <2>2, <2>3, EmitTypes
  <2> QED BY <2>1, <2>4 DEF StoreTypes
<1>6. CASE ActivateUpload(frame) \/ FactoryEmptyReset(frame)
  <2>1. frame.command # "READ_CONFIG" /\ \E status \in Statuses : Emit(frame, status, Nil)
    BY <1>0, <1>6 DEF ActivateUpload, FactoryEmptyReset
  <2>2. AnswerTypes' /\ RuntimeTypes'
    BY <2>1, EmitTypes
  <2>3. UNCHANGED store_vars \/ \E image \in Images : Activate(image)
    BY <1>6 DEF ActivateUpload, FactoryEmptyReset, StoreTypes, Uploads
  <2>4. StoreTypes' /\ (active' # active => active' \in Images)
    BY <2>3 DEF Activate, StoreTypes, store_vars
  <2> QED BY <2>2, <2>4
<1>7. CASE SetExpressionCalibration(frame)
  <2>1. frame.command # "READ_CONFIG" /\ \E status \in Statuses : Emit(frame, status, Nil)
    BY <1>0, <1>7 DEF SetExpressionCalibration
  <2>2. AnswerTypes' /\ RuntimeTypes'
    BY <2>1, EmitTypes
  <2>3. frame.index \in {Measured, Narrow}
    BY <1>7 DEF SetExpressionCalibration, FramesSent
  <2>4. calibration' \in {Default, Measured} /\ UNCHANGED <<active, spare, upload>>
    BY <1>7, <2>3 DEF SetExpressionCalibration, StoreTypes, store_vars
  <2> QED BY <2>2, <2>4 DEF StoreTypes
<1> QED BY <1>1, <1>2, <1>3, <1>4, <1>5, <1>6, <1>7 DEF Dispatch

\* The frame of a call, and the request that carries it.
LEMMA FrameType ==
  ASSUME NEW call \in CallsMade, call # Idle
  PROVE  FrameOf(call) \in FramesSent
<1> USE LinkAssumption DEF LinkAssumption
<1>1. call \in Calls /\ call.step # "idle" /\ call.step \in Steps
  BY DEF CallsMade, Calls
<1>2. CommandOf(call.step) \in Commands
  BY <1>1 DEF CommandOf, Steps, Commands, Mutations
<1>3. /\ CommandOf(call.step) = "BEGIN_UPLOAD" => call.step = "begin"
      /\ CommandOf(call.step) = "WRITE_CHUNK" => call.step = "write"
      /\ CommandOf(call.step) = "SET_EXPRESSION_CALIBRATION" => call.step = "calibrate"
  BY <1>1 DEF CommandOf, Steps
<1>4. FrameOf(call) \in Frames
  BY <1>1, <1>2 DEF FrameOf, Frames, Calls
<1> QED BY <1>3, <1>4 DEF FrameOf, FramesSent, CallsMade, SyncSteps

\* A call that waits for nothing.
LEMMA IdleType == Idle \in CallsMade
<1>1. Idle \in Calls
  BY LinkAssumption DEF LinkAssumption, Idle, Calls, Steps
<1> QED BY <1>1 DEF CallsMade, Idle, SyncSteps

\* A request joins the wire.
LEMMA SendType ==
  ASSUME requests \in Seq(RequestsSent), NEW s \in 1 .. MaxSessions,
         NEW call \in CallsMade, call # Idle
  PROVE  Append(requests, [session |-> s, frame |-> FrameOf(call)]) \in Seq(RequestsSent)
<1>1. [session |-> s, frame |-> FrameOf(call)] \in RequestsSent
  BY FrameType DEF RequestsSent
<1> QED BY <1>1, AppendProperties

\* A call asks its next request.
LEMMA AskTypes ==
  ASSUME HostTypes, requests \in Seq(RequestsSent), NEW c \in Syncs, NEW step \in Steps \ {"idle"},
         NEW image \in Images \cup {Nil}, NEW index \in Nat, Ask(c, step, image, index),
         step \in SyncSteps => image \in Images, step = "write" => index \in Chunks,
         step = "calibrate" => index \in {Measured, Narrow},
         session' = session, session # 0
  PROVE  /\ requests' \in Seq(RequestsSent)
         /\ calls' \in [Syncs -> CallsMade]
         /\ nextRequestId' \in Nat
<1> DEFINE call == [step |-> step, id |-> nextRequestId, attempt |-> 1,
                    image |-> image, index |-> index]
<1>1. call \in CallsMade /\ call # Idle
  <2>1. call \in Calls
    BY LinkAssumption DEF LinkAssumption, Calls, HostTypes
  <2>2. call.step # "idle"
    OBVIOUS
  <2> QED BY <2>1, <2>2 DEF CallsMade, Idle, SyncSteps
<1>2. /\ calls' = [calls EXCEPT ![c] = call]
      /\ requests' = Append(requests, [session |-> session', frame |-> FrameOf(call)])
      /\ nextRequestId' = nextRequestId + 1
  BY DEF Ask
<1>3. session' \in 1 .. MaxSessions
  BY DEF HostTypes
<1> HIDE DEF call
<1> QED BY <1>1, <1>2, <1>3, SendType DEF HostTypes

\* What the pedal has received of the requests, and what it still holds of its answers.
LEMMA CutLinkTypes ==
  ASSUME requests \in Seq(RequestsSent), NEW unread \in Seq(Answers),
         Len(unread) <= CdcQueueCapacity, CutLink(unread)
  PROVE  /\ requests' \in Seq(RequestsSent)
         /\ responses' \in Seq(Answers) /\ Len(responses') <= CdcQueueCapacity
         /\ phase' = "offline"
<1>1. /\ Len(requests) \in Nat /\ \A i \in 1 .. Len(requests) : requests[i] \in RequestsSent
      /\ Len(unread) \in Nat /\ \A i \in 1 .. Len(unread) : unread[i] \in Answers
  BY LenProperties, ElementOfSeq
<1>2. requests' \in Seq(RequestsSent)
  <2>1. PICK n \in 0 .. Len(requests) : requests' = SubSeq(requests, 1, n)
    BY DEF CutLink
  <2>2. n \in Int /\ \A i \in 1 .. n : requests[i] \in RequestsSent
    BY <1>1
  <2> QED BY <2>1, <2>2, SubSeqProperties
<1>3. responses' \in Seq(Answers) /\ Len(responses') <= CdcQueueCapacity
  <2>1. PICK n \in 1 .. Len(unread) + 1 : responses' = SubSeq(unread, n, Len(unread))
    BY DEF CutLink
  <2>2. n \in Int /\ \A i \in n .. Len(unread) : unread[i] \in Answers
    BY <1>1
  <2>3. /\ responses' \in Seq(Answers)
        /\ Len(responses') = IF n <= Len(unread) THEN Len(unread) - n + 1 ELSE 0
    BY <1>1, <2>1, <2>2, SubSeqProperties
  <2>4. Len(responses') \in Nat /\ Len(responses') <= Len(unread)
    <3>1. n \in Nat /\ n >= 1
      OBVIOUS
    <3> QED BY <1>1, <2>3, <3>1
  <2>5. Len(responses') <= CdcQueueCapacity
    <3>1. CdcQueueCapacity \in Nat
      BY DispatcherAssumption DEF DispatcherAssumption
    <3> QED BY <1>1, <2>4, <3>1
  <2> QED BY <2>3, <2>5
<1> QED BY <1>2, <1>3 DEF CutLink

\* A call fails.
LEMMA FailTypes ==
  ASSUME HostTypes, requests \in Seq(RequestsSent), NEW c \in Syncs, NEW unread \in Seq(Answers),
         Len(unread) <= CdcQueueCapacity, Fail(c, unread), session # 0,
         UNCHANGED <<session, previous>>
  PROVE  /\ HostTypes' /\ requests' \in Seq(RequestsSent)
         /\ responses' \in Seq(Answers) /\ Len(responses') <= CdcQueueCapacity
<1>1. /\ calls' = [calls EXCEPT ![c] = Idle] /\ result' = [result EXCEPT ![c] = "failed"]
      /\ UNCHANGED <<nextRequestId, info, document>>
  BY DEF Fail
<1>2. /\ requests' \in Seq(RequestsSent)
      /\ responses' \in Seq(Answers) /\ Len(responses') <= CdcQueueCapacity
      /\ phase' \in {"offline", "abandoned", phase}
  <2>1. CASE CutLink(unread)
    BY <2>1, CutLinkTypes
  <2>2. CASE /\ phase' = IF calls[c].step = "read" THEN "abandoned" ELSE phase
             /\ responses' = unread /\ UNCHANGED requests
    BY <2>2
  <2> QED BY <2>1, <2>2 DEF Fail
<1>3. calls' \in [Syncs -> CallsMade]
  BY <1>1, IdleType DEF HostTypes
<1> QED BY <1>1, <1>2, <1>3 DEF HostTypes

\* The next record is asked for, or the connection is complete.
LEMMA ReadNextTypes ==
  ASSUME HostTypes, requests \in Seq(RequestsSent), NEW c \in Syncs,
         NEW image \in Images \cup {Nil}, NEW index \in Nat, ReadNext(c, image, index),
         session # 0, session' = session
  PROVE  /\ requests' \in Seq(RequestsSent) /\ calls' \in [Syncs -> CallsMade]
         /\ nextRequestId' \in Nat /\ phase' \in {"connected", phase}
         /\ result' \in [Syncs -> {"none", "synchronized", "done", "failed"}]
<1>1. CASE index <= BanksOf(image)
  <2>1. Ask(c, "read", image, index) /\ UNCHANGED <<phase, result>>
    BY <1>1 DEF ReadNext
  <2>2. "read" \in Steps \ {"idle"} /\ "read" \notin SyncSteps
    BY DEF Steps, SyncSteps
  <2> QED BY <2>1, <2>2, AskTypes DEF HostTypes
<1>2. CASE ~(index <= BanksOf(image))
  <2>1. End(c, "none") /\ phase' = "connected"
    BY <1>2 DEF ReadNext
  <2> QED BY <2>1, IdleType DEF End, HostTypes
<1> QED BY <1>1, <1>2

\* An answer to a call of connect.
LEMMA ConnectingTypes ==
  ASSUME HostTypes, requests \in Seq(RequestsSent), NEW c \in Syncs, NEW answer \in Answers,
         IsAnswer(c, answer), answer.status = "OK", Connecting(c, answer), session # 0,
         UNCHANGED <<session, previous>>
  PROVE  HostTypes' /\ requests' \in Seq(RequestsSent)
<1>1. /\ calls[c] \in CallsMade /\ calls[c].index \in Nat /\ calls[c].image \in Images \cup {Nil}
      /\ answer.image \in Images \cup {Nil}
  BY DEF HostTypes, CallsMade, Calls, Answers, Responses
<1>2. CASE calls[c].step = "capabilities" /\ Ask(c, "info", Nil, 0)
           /\ UNCHANGED <<phase, info, document, result>>
  <2>1. "info" \in Steps \ {"idle"} /\ "info" \notin SyncSteps
    BY DEF Steps, SyncSteps
  <2>2. requests' \in Seq(RequestsSent) /\ calls' \in [Syncs -> CallsMade] /\ nextRequestId' \in Nat
    BY <1>2, <2>1, AskTypes
  <2> QED BY <1>2, <2>2 DEF HostTypes
<1>3. CASE /\ calls[c].step = "info" /\ info' = answer.image
           /\ ReadNext(c, answer.image, 1) /\ UNCHANGED document
  BY <1>1, <1>3, ReadNextTypes DEF HostTypes
<1>4. CASE /\ calls[c].step = "read" /\ document' = document \cup {answer.image}
           /\ ReadNext(c, calls[c].image, calls[c].index + 1) /\ UNCHANGED info
  <2>1. answer.image \in Images
    BY <1>4 DEF IsAnswer, CommandOf, Answers
  <2>2. calls[c].index + 1 \in Nat
    BY <1>1
  <2>3. /\ requests' \in Seq(RequestsSent) /\ calls' \in [Syncs -> CallsMade]
        /\ nextRequestId' \in Nat /\ phase' \in {"connected", phase}
        /\ result' \in [Syncs -> {"none", "synchronized", "done", "failed"}]
    BY <1>1, <1>4, <2>2, ReadNextTypes
  <2> QED BY <1>4, <2>1, <2>3 DEF HostTypes
<1> QED BY <1>2, <1>3, <1>4 DEF Connecting

\* A chunk that is not the last has a successor.
LEMMA NextChunk ==
  ASSUME NEW k \in Chunks, k < ChunkCount
  PROVE  k + 1 \in Chunks
<1>1. ChunkCount \in Nat
  BY DispatcherAssumption DEF DispatcherAssumption
<1> QED BY <1>1 DEF Chunks

\* An answer to a call of sync, or to one of the other requests.
LEMMA SyncingTypes ==
  ASSUME HostTypes, requests \in Seq(RequestsSent), NEW c \in Syncs, NEW answer \in Answers,
         Syncing(c, answer), session # 0, UNCHANGED <<session, previous, phase, document>>
  PROVE  HostTypes' /\ requests' \in Seq(RequestsSent)
<1>1. /\ calls[c] \in CallsMade /\ calls[c].index \in Nat /\ answer.image \in Images \cup {Nil}
      /\ calls[c].step \in SyncSteps => calls[c].image \in Images
  BY DEF HostTypes, CallsMade, Calls, Answers, Responses
<1>2. CASE calls[c].step \in {"begin", "write", "verify", "activate"}
  <2>1. \E step \in SyncSteps, index \in Nat :
          /\ Ask(c, step, calls[c].image, index)
          /\ step = "write" => index \in Chunks
    <3>1. CASE calls[c].step = "begin"
      <4>1. Ask(c, "write", calls[c].image, 1) /\ 1 \in Chunks
        BY <3>1, LinkAssumption, DispatcherAssumption
           DEF Syncing, Chunks, DispatcherAssumption, LinkAssumption
      <4> QED BY <4>1 DEF SyncSteps
    <3>2. CASE calls[c].step = "write"
      <4>1. calls[c].index \in Chunks
        BY <1>1, <3>2 DEF CallsMade
      <4>2. CASE calls[c].index < ChunkCount
        <5>1. Ask(c, "write", calls[c].image, calls[c].index + 1)
          BY <3>2, <4>2, LinkAssumption DEF Syncing, LinkAssumption
        <5>2. calls[c].index + 1 \in Chunks
          BY <4>1, <4>2, NextChunk
        <5> QED BY <5>1, <5>2 DEF SyncSteps, Chunks
      <4>3. CASE ~(calls[c].index < ChunkCount)
        <5>1. Ask(c, "verify", calls[c].image, 0)
          BY <3>2, <4>3, LinkAssumption DEF Syncing, LinkAssumption
        <5> QED BY <5>1 DEF SyncSteps
      <4> QED BY <4>2, <4>3
    <3>3. CASE calls[c].step = "verify"
      <4>1. Ask(c, "activate", calls[c].image, 0)
        BY <3>3, LinkAssumption DEF Syncing, LinkAssumption
      <4> QED BY <4>1 DEF SyncSteps
    <3>4. CASE calls[c].step = "activate"
      <4>1. Ask(c, "readback", calls[c].image, 0)
        BY <3>4, LinkAssumption DEF Syncing, LinkAssumption
      <4> QED BY <4>1 DEF SyncSteps
    <3> QED BY <1>2, <3>1, <3>2, <3>3, <3>4
  <2>2. UNCHANGED <<info, result>>
    BY <1>2, LinkAssumption DEF Syncing, LinkAssumption
  <2>3. calls[c].image \in Images
    BY <1>1, <1>2 DEF SyncSteps
  <2>4. requests' \in Seq(RequestsSent) /\ calls' \in [Syncs -> CallsMade] /\ nextRequestId' \in Nat
    <3>1. SyncSteps \subseteq Steps \ {"idle"} /\ "calibrate" \notin SyncSteps
      BY DEF SyncSteps, Steps
    <3> QED BY <2>1, <2>3, <3>1, AskTypes
  <2> QED BY <2>2, <2>4 DEF HostTypes
<1>3. CASE calls[c].step \notin {"begin", "write", "verify", "activate"}
  <2>1. info' \in {info, answer.image} /\ \E how \in {"synchronized", "failed", "done"} : End(c, how)
    BY <1>3 DEF Syncing
  <2> QED BY <1>1, <2>1, IdleType DEF End, HostTypes
<1> QED BY <1>2, <1>3

\* The host takes a frame.
LEMMA DeliverTypes ==
  ASSUME LinkInvariant, Deliver
  PROVE  LinkInvariant'
<1>1. /\ HostTypes /\ requests \in Seq(RequestsSent) /\ responses \in Seq(Answers)
      /\ Len(responses) <= CdcQueueCapacity /\ responses # <<>>
  BY DEF LinkInvariant, AnswerTypes, Deliver
<1>2. /\ Head(responses) \in Answers /\ Tail(responses) \in Seq(Answers)
      /\ Len(Tail(responses)) <= CdcQueueCapacity
  <2>1. Len(responses) \in Nat
    BY <1>1, LenProperties
  <2> QED BY <1>1, <2>1, HeadTailProperties, DispatcherAssumption DEF DispatcherAssumption
<1>3. UNCHANGED <<store_vars, cache, runtime_vars, history_vars>>
  BY DEF Deliver
<1> DEFINE Typed == /\ HostTypes' /\ requests' \in Seq(RequestsSent)
                    /\ responses' \in Seq(Answers) /\ Len(responses') <= CdcQueueCapacity
<1>4. Typed
  <2>1. CASE responses' = Tail(responses) /\ UNCHANGED <<requests, host_vars>>
    BY <1>1, <1>2, <2>1 DEF host_vars, HostTypes
  <2>2. ASSUME NEW c \in Syncs, IsAnswer(c, Head(responses)), UNCHANGED <<session, previous>>,
               Head(responses).status = "OK", responses' = Tail(responses),
               \/ Connecting(c, Head(responses))
               \/ Syncing(c, Head(responses)) /\ UNCHANGED <<phase, document>>
        PROVE  Typed
    <3>1. session # 0
      BY <1>1, <2>2 DEF IsAnswer, HostTypes
    <3> QED BY <1>1, <1>2, <2>2, <3>1, ConnectingTypes, SyncingTypes
  <2>3. ASSUME NEW c \in Syncs, IsAnswer(c, Head(responses)), UNCHANGED <<session, previous>>,
               Fail(c, Tail(responses))
        PROVE  Typed
    <3>1. session # 0
      BY <1>1, <2>3 DEF IsAnswer, HostTypes
    <3> QED BY <1>1, <1>2, <2>3, <3>1, FailTypes
  <2> QED BY <2>1, <2>2, <2>3 DEF Deliver
<1> QED BY <1>3, <1>4
        DEF LinkInvariant, AnswerTypes, StoreTypes, RuntimeTypes, HistoryTypes,
            store_vars, runtime_vars, history_vars

\* 1000 ms without an answer.
LEMMA TimeoutTypes ==
  ASSUME LinkInvariant, NEW c \in Syncs, Timeout(c)
  PROVE  LinkInvariant'
<1>1. /\ HostTypes /\ requests \in Seq(RequestsSent) /\ responses \in Seq(Answers)
      /\ Len(responses) <= CdcQueueCapacity
  BY DEF LinkInvariant, AnswerTypes
<1>2. /\ calls[c] # Idle /\ calls[c] \in CallsMade /\ session # 0
      /\ UNCHANGED <<session, previous, store_vars, cache, runtime_vars, history_vars>>
  BY <1>1 DEF Timeout, HostTypes
<1> DEFINE Typed == /\ HostTypes' /\ requests' \in Seq(RequestsSent)
                    /\ responses' \in Seq(Answers) /\ Len(responses') <= CdcQueueCapacity
<1>3. Typed
  <2>1. CASE calls[c].attempt < AttemptLimit
    <3>1. /\ calls' = [calls EXCEPT ![c].attempt = @ + 1]
          /\ requests' = Append(requests, [session |-> session, frame |-> FrameOf(calls[c])])
          /\ UNCHANGED <<phase, responses, nextRequestId, info, document, result>>
      BY <2>1 DEF Timeout
    <3>2. [calls[c] EXCEPT !.attempt = @ + 1] \in CallsMade
      <4>1. calls[c] \in Calls /\ calls[c].step # "idle"
        BY <1>2 DEF CallsMade
      <4>2. calls[c].attempt + 1 \in 0 .. AttemptLimit
        BY <2>1, <4>1, LinkAssumption DEF LinkAssumption, Calls
      <4>3. [calls[c] EXCEPT !.attempt = @ + 1] \in Calls
        BY <4>1, <4>2 DEF Calls
      <4> QED BY <1>2, <4>1, <4>3 DEF CallsMade, Calls
    <3>3. calls' \in [Syncs -> CallsMade]
      BY <1>1, <3>1, <3>2 DEF HostTypes
    <3>4. requests' \in Seq(RequestsSent)
      <4>1. session \in 1 .. MaxSessions
        BY <1>1, <1>2 DEF HostTypes
      <4> QED BY <1>1, <1>2, <3>1, <4>1, SendType
    <3> QED BY <1>1, <1>2, <3>1, <3>3, <3>4 DEF HostTypes
  <2>2. CASE ~(calls[c].attempt < AttemptLimit)
    <3>1. Fail(c, responses)
      BY <2>2 DEF Timeout
    <3> QED BY <1>1, <1>2, <3>1, FailTypes
  <2> QED BY <2>1, <2>2
<1> QED BY <1>2, <1>3
        DEF LinkInvariant, AnswerTypes, StoreTypes, RuntimeTypes, HistoryTypes,
            store_vars, runtime_vars, history_vars

\* The host opens a session, or starts a call in one.
LEMMA StartTypes ==
  ASSUME LinkInvariant, NEW c \in Syncs,
         \/ Connect(c)
         \/ \E config \in Configs : StartSync(c, config)
         \/ \E step \in Others : StartOther(c, step)
  PROVE  LinkInvariant'
<1>1. HostTypes /\ requests \in Seq(RequestsSent) /\ active \in Images \cup {Nil}
  BY DEF LinkInvariant, StoreTypes
<1>2. UNCHANGED dispatcher_vars
  BY DEF Connect, StartSync, StartOther
<1>3. CASE Connect(c)
  <2> DEFINE call == [step |-> "capabilities", id |-> 1, attempt |-> 1, image |-> Nil, index |-> 0]
  <2>1. call \in CallsMade /\ call # Idle
    <3>1. call \in Calls
      BY LinkAssumption DEF LinkAssumption, Calls, Steps
    <3> QED BY <3>1 DEF CallsMade, SyncSteps, Idle
  <2>2. /\ session' = session + 1 /\ session < MaxSessions /\ phase' = "connecting"
        /\ calls' = [calls EXCEPT ![c] = call]
        /\ requests' = Append(requests, [session |-> session', frame |-> FrameOf(call)])
        /\ nextRequestId' = 2 /\ info' = Nil /\ document' = {}
        /\ result' = [d \in Syncs |-> "none"] /\ executed' = <<>> /\ activated' = {}
        /\ previous' = previous
    BY <1>3 DEF Connect
  <2> HIDE DEF call
  <2>3. session' \in 1 .. MaxSessions
    BY <1>1, <2>2, LinkAssumption DEF HostTypes, LinkAssumption
  <2>4. requests' \in Seq(RequestsSent)
    BY <1>1, <2>1, <2>2, <2>3, SendType
  <2>5. calls' \in [Syncs -> CallsMade]
    BY <1>1, <2>1, <2>2 DEF HostTypes
  <2>6. HostTypes'
    BY <1>1, <2>2, <2>3, <2>5 DEF HostTypes
  <2>7. HistoryTypes'
    BY <2>2 DEF HistoryTypes
  <2> QED BY <1>2, <2>4, <2>6, <2>7
          DEF LinkInvariant, dispatcher_vars, store_vars, runtime_vars, StoreTypes, AnswerTypes,
              RuntimeTypes
<1>4. CASE \/ \E config \in Configs : StartSync(c, config)
           \/ \E step \in Others : StartOther(c, step)
  <2>1. /\ UNCHANGED <<session, phase, info, document, history_vars>> /\ phase = "connected"
        /\ result' = [result EXCEPT ![c] = "none"]
        /\ previous' = [previous EXCEPT ![c] = active]
    BY <1>4 DEF StartSync, StartOther
  <2>2. session # 0
    BY <1>1, <2>1 DEF HostTypes
  <2>3. requests' \in Seq(RequestsSent) /\ calls' \in [Syncs -> CallsMade] /\ nextRequestId' \in Nat
    <3>1. ASSUME NEW config \in Configs, StartSync(c, config) PROVE <2>3
      <4> DEFINE image == [sequence |-> SequenceAfter(info), config |-> config]
      <4>1. SequenceOf(info) < MaxSequence /\ Ask(c, "begin", image, 0)
        BY <3>1 DEF StartSync
      <4>2. image \in Images
        BY <1>1, <4>1, DispatcherAssumption
           DEF HostTypes, Images, SequenceAfter, SequenceOf, DispatcherAssumption
      <4>3. "begin" \in Steps \ {"idle"}
        BY DEF Steps
      <4> HIDE DEF image
      <4> QED BY <1>1, <2>1, <2>2, <4>1, <4>2, <4>3, AskTypes
    <3>2. ASSUME NEW step \in Others, StartOther(c, step) PROVE <2>3
      <4>1. PICK index \in IF step = "calibrate" THEN {Measured, Narrow} ELSE {0} :
              Ask(c, step, Nil, index)
        BY <3>2 DEF StartOther
      <4>2. /\ step \in Steps \ {"idle"} /\ step \notin SyncSteps
            /\ index \in Nat /\ (step = "calibrate" => index \in {Measured, Narrow})
        BY LinkAssumption DEF LinkAssumption, Steps, SyncSteps, Measured, Narrow
      <4>3. step # "write"
        BY <4>2 DEF SyncSteps
      <4> QED BY <1>1, <2>1, <2>2, <4>1, <4>2, <4>3, AskTypes
    <3> QED BY <1>4, <3>1, <3>2
  <2>4. HostTypes'
    BY <1>1, <2>1, <2>2, <2>3 DEF HostTypes
  <2> QED BY <1>2, <2>1, <2>3, <2>4
          DEF LinkInvariant, dispatcher_vars, store_vars, runtime_vars, StoreTypes, AnswerTypes,
              RuntimeTypes, HistoryTypes, history_vars
<1> QED BY <1>3, <1>4

\* The pedal takes a request.
LEMMA ReceiveTypes ==
  ASSUME LinkInvariant, Receive
  PROVE  LinkInvariant'
<1>1. /\ StoreTypes /\ AnswerTypes /\ RuntimeTypes /\ HistoryTypes /\ HostTypes
      /\ requests \in Seq(RequestsSent) /\ requests # <<>>
      /\ requests' = Tail(requests) /\ UNCHANGED host_vars
  BY DEF LinkInvariant, Receive
<1>2. Head(requests) \in RequestsSent /\ requests' \in Seq(RequestsSent)
  BY <1>1, HeadTailProperties
<1>3. Head(requests).frame \in FramesSent /\ Head(requests).frame.id \in Nat
  BY <1>2 DEF RequestsSent, FramesSent, Frames
<1>4. HostTypes'
  BY <1>1 DEF HostTypes, host_vars
<1>5. CASE Replay(Head(requests).frame) /\ UNCHANGED history_vars
  <2>1. AnswerTypes' /\ RuntimeTypes' /\ UNCHANGED store_vars
    BY <1>1, <1>5, ReplayTypes
  <2> QED BY <1>1, <1>2, <1>4, <1>5, <2>1
          DEF LinkInvariant, StoreTypes, store_vars, HistoryTypes, history_vars
<1>6. CASE Dispatch(Head(requests).frame)
           /\ executed' \in {executed, Append(executed, Head(requests).frame.id)}
           /\ activated' = IF active' # active THEN activated \cup {active'} ELSE activated
  <2>1. /\ StoreTypes' /\ AnswerTypes' /\ RuntimeTypes'
        /\ active' # active => active' \in Images
    BY <1>1, <1>3, <1>6, DispatchTypes
  <2>2. Append(executed, Head(requests).frame.id) \in Seq(Nat)
    BY <1>1, <1>3, AppendProperties DEF HistoryTypes
  <2>3. HistoryTypes'
    BY <1>1, <1>6, <2>1, <2>2 DEF HistoryTypes
  <2> QED BY <1>2, <1>4, <2>1, <2>3 DEF LinkInvariant
<1> QED BY <1>5, <1>6 DEF Receive

\* The wire loses a frame, the link or the pedal goes down, or the control loop looks at
\* the store.
LEMMA FaultTypes ==
  ASSUME LinkInvariant, LoseRequest \/ LoseResponse \/ Disconnect \/ Restart \/ Tick \/ Navigate
  PROVE  LinkInvariant'
<1>1. /\ StoreTypes /\ AnswerTypes /\ RuntimeTypes /\ HistoryTypes /\ HostTypes
      /\ requests \in Seq(RequestsSent)
  BY DEF LinkInvariant
<1> USE DEF LinkInvariant
<1>2. CASE LoseRequest
  <2>1. requests' \in Seq(RequestsSent)
    BY <1>1, <1>2, HeadTailProperties DEF LoseRequest
  <2> QED BY <1>1, <1>2, <2>1
          DEF LoseRequest, dispatcher_vars, store_vars, runtime_vars, host_vars, history_vars,
              StoreTypes, AnswerTypes, RuntimeTypes, HostTypes, HistoryTypes
<1>3. CASE LoseResponse
  <2>1. Tail(responses) \in Seq(Answers) /\ Len(Tail(responses)) = Len(responses) - 1
    BY <1>1, <1>3, HeadTailProperties DEF LoseResponse, AnswerTypes
  <2>2. Len(responses) \in Nat /\ CdcQueueCapacity \in Nat
    BY <1>1, LenProperties, DispatcherAssumption DEF AnswerTypes, DispatcherAssumption
  <2>3. AnswerTypes'
    BY <1>1, <1>3, <2>1, <2>2 DEF LoseResponse, AnswerTypes
  <2> QED BY <1>1, <1>3, <2>3
          DEF LoseResponse, store_vars, runtime_vars, host_vars, history_vars,
              StoreTypes, RuntimeTypes, HostTypes, HistoryTypes
<1>4. HostLost /\ phase' = "offline" => HostTypes' /\ HistoryTypes'
  <2> SUFFICES ASSUME HostLost, phase' = "offline" PROVE HostTypes' /\ HistoryTypes'
    OBVIOUS
  <2>1. /\ calls' = [c \in Syncs |-> Idle]
        /\ result' = [c \in Syncs |-> IF calls[c] # Idle THEN "failed" ELSE result[c]]
        /\ UNCHANGED <<session, nextRequestId, info, document, previous, executed, activated>>
    BY DEF HostLost, history_vars
  <2>2. calls' \in [Syncs -> CallsMade]
    BY <2>1, IdleType
  <2> QED BY <1>1, <2>1, <2>2 DEF HostTypes, HistoryTypes
<1>5. CASE Disconnect
  <2>1. /\ requests' \in Seq(RequestsSent)
        /\ responses' \in Seq(Answers) /\ Len(responses') <= CdcQueueCapacity
        /\ phase' = "offline"
    BY <1>1, <1>5, CutLinkTypes DEF Disconnect, AnswerTypes
  <2> QED BY <1>1, <1>4, <1>5, <2>1
          DEF Disconnect, store_vars, runtime_vars, StoreTypes, RuntimeTypes, AnswerTypes
<1>6. CASE Restart
  <2>1. /\ upload' = Nil /\ cache' = <<>> /\ responses' = <<>> /\ snapshot' = Status
        /\ bank' = active /\ requests' = <<>> /\ UNCHANGED <<active, spare, calibration>>
    BY <1>6 DEF Restart, PowerCycle
  <2>2. Status \in Snapshots
    BY <1>1, StatusType DEF StoreTypes
  <2>3. AnswerTypes' /\ requests' \in Seq(RequestsSent)
    BY <2>1, EmptySeq, DispatcherAssumption DEF DispatcherAssumption, AnswerTypes
  <2> QED BY <1>1, <1>4, <1>6, <2>1, <2>2, <2>3 DEF Restart, StoreTypes, RuntimeTypes
<1>7. CASE Tick \/ Navigate
  <2>1. /\ snapshot' = Status /\ bank' = active
        /\ UNCHANGED <<store_vars, cache, responses, requests, host_vars, history_vars>>
    BY <1>7 DEF Tick, Navigate, RefreshConfiguration, ChangeBank
  <2>2. Status \in Snapshots
    BY <1>1, StatusType DEF StoreTypes
  <2> QED BY <1>1, <2>1, <2>2
          DEF store_vars, host_vars, history_vars, StoreTypes, AnswerTypes, RuntimeTypes,
              HostTypes, HistoryTypes
<1> QED BY <1>2, <1>3, <1>5, <1>6, <1>7

LEMMA LinkStarts == Init => LinkInvariant
<1> SUFFICES ASSUME Init PROVE LinkInvariant
  OBVIOUS
<1>1. StoreTypes /\ AnswerTypes /\ RuntimeTypes
  <2>1. active \in Images \cup {Nil} /\ Status \in Snapshots
    BY StatusType, DispatcherAssumption DEF Init, DispatcherInit, DispatcherAssumption
  <2>2. <<>> \in Seq(Answers) /\ Len(<<>>) <= CacheCapacity /\ Len(<<>>) <= CdcQueueCapacity
    BY EmptySeq, DispatcherAssumption DEF DispatcherAssumption
  <2> QED BY <2>1, <2>2
          DEF Init, DispatcherInit, StoreTypes, AnswerTypes, RuntimeTypes
<1>2. requests \in Seq(RequestsSent) /\ HistoryTypes
  BY EmptySeq DEF Init, HistoryTypes
<1>3. HostTypes
  BY IdleType, LinkAssumption DEF Init, HostTypes, LinkAssumption
<1> QED BY <1>1, <1>2, <1>3 DEF LinkInvariant

LEMMA LinkGoesOn == LinkInvariant /\ [Next]_vars => LinkInvariant'
<1> SUFFICES ASSUME LinkInvariant, [Next]_vars PROVE LinkInvariant'
  OBVIOUS
<1>1. CASE \E c \in Syncs : \/ Connect(c)
                            \/ \E config \in Configs : StartSync(c, config)
                            \/ \E step \in Others : StartOther(c, step)
  BY <1>1, StartTypes
<1>2. CASE Deliver
  BY <1>2, DeliverTypes
<1>3. CASE \E c \in Syncs : Timeout(c)
  BY <1>3, TimeoutTypes
<1>4. CASE Receive
  BY <1>4, ReceiveTypes
<1>5. CASE LoseRequest \/ LoseResponse \/ Disconnect \/ Restart \/ Tick \/ Navigate
  BY <1>5, FaultTypes
<1>6. CASE UNCHANGED vars
  BY <1>6 DEF vars, dispatcher_vars, store_vars, runtime_vars, host_vars, history_vars,
              LinkInvariant, StoreTypes, AnswerTypes, RuntimeTypes, HostTypes, HistoryTypes
<1> QED BY <1>1, <1>2, <1>3, <1>4, <1>5, <1>6 DEF Next

\* Everything on the wire, in the pedal and in the session keeps its type, whatever is asked,
\* lost, cut off or restarted.
THEOREM LinkTypeCorrect == Spec => []LinkTypeOK
<1> QED BY LinkStarts, LinkGoesOn, LinkInvariantTypes, PTL DEF Spec
-----------------------------------------------------------------------------
(***************************************************************************)
(* Executed once. The wire keeps the order in which sessions and ids were  *)
(* given out. So between two copies of a request only its own call is      *)
(* asking, and with one call at a time there is nothing that could push    *)
(* its answer out of the cache, however small the cache is.                *)
(***************************************************************************)
Held(frame, entries) == \E k \in DOMAIN entries : Matches(frame, entries[k])

\* The requests of a session that are still on the wire.
Sent(wire, s) == {k \in DOMAIN wire : wire[k].session = s}

\* A frame was given its id before another, or is the same one.
NotAfter(one, other) == one.id <= other.id /\ (one.id = other.id => one = other)

\* A frame does not come after what was executed, unless the cache will answer it.
Covered(done, frame, entries) ==
  \A e \in DOMAIN done : done[e] <= frame.id /\ (done[e] = frame.id => Held(frame, entries))

InOrder(wire, s) ==
  /\ \A k \in DOMAIN wire : wire[k].session <= s
  /\ \A j, k \in DOMAIN wire : j <= k => wire[j].session <= wire[k].session
  /\ \A j, k \in Sent(wire, s) : j <= k => NotAfter(wire[j].frame, wire[k].frame)

WireCovered(wire, s, done, entries, next) ==
  /\ done # <<>> => Sent(wire, s) = DOMAIN wire
  /\ \A k \in Sent(wire, s) : wire[k].frame.id < next /\ Covered(done, wire[k].frame, entries)

CallCovered(call, wire, s, done, entries, next) ==
  call # Idle =>
    /\ call.id < next /\ Covered(done, FrameOf(call), entries)
    /\ \A k \in Sent(wire, s) : NotAfter(wire[k].frame, FrameOf(call))

Increasing(done, next) ==
  /\ \A j, k \in DOMAIN done : j < k => done[j] < done[k]
  /\ \A e \in DOMAIN done : done[e] < next

OnceInvariant ==
  /\ InOrder(requests, session)
  /\ WireCovered(requests, session, executed, cache, nextRequestId)
  /\ Increasing(executed, nextRequestId)
  /\ \A c \in Syncs :
       CallCovered(calls[c], requests, session, executed, cache, nextRequestId)

\* What the elements of a wire are.
LEMMA WireType ==
  ASSUME NEW wire \in Seq(RequestsSent)
  PROVE  /\ Len(wire) \in Nat /\ DOMAIN wire = 1 .. Len(wire)
         /\ \A k \in DOMAIN wire :
              /\ wire[k].session \in Nat /\ wire[k].frame \in FramesSent /\ wire[k].frame.id \in Nat
<1>1. Len(wire) \in Nat /\ DOMAIN wire = 1 .. Len(wire)
  BY LenProperties
<1>2. \A k \in DOMAIN wire : wire[k] \in RequestsSent
  BY <1>1, ElementOfSeq
<1>3. 1 .. MaxSessions \subseteq Nat
  BY LinkAssumption DEF LinkAssumption
<1> QED BY <1>1, <1>2, <1>3 DEF RequestsSent, FramesSent, Frames

\* Losing requests from either end of the wire changes nothing for those left.
LEMMA PartOfWire ==
  ASSUME NEW wire \in Seq(RequestsSent), NEW part \in Seq(RequestsSent), NEW n \in Nat,
         \A k \in DOMAIN part : k + n \in DOMAIN wire /\ part[k] = wire[k + n],
         NEW s, NEW done, NEW entries, NEW next
  PROVE  /\ InOrder(wire, s) => InOrder(part, s)
         /\ WireCovered(wire, s, done, entries, next) => WireCovered(part, s, done, entries, next)
         /\ \A call : CallCovered(call, wire, s, done, entries, next)
                        => CallCovered(call, part, s, done, entries, next)
<1>1. \A k \in DOMAIN part : k \in Int
  BY WireType
<1>2. \A k \in Sent(part, s) : k \in DOMAIN part /\ k + n \in Sent(wire, s) /\ part[k] = wire[k + n]
  BY DEF Sent
<1>3. \A j, k \in DOMAIN part : j <= k => j + n <= k + n
  BY <1>1
<1>4. InOrder(wire, s) => InOrder(part, s)
  BY <1>2, <1>3 DEF InOrder
<1>5. ASSUME Sent(wire, s) = DOMAIN wire  PROVE Sent(part, s) = DOMAIN part
  BY <1>5 DEF Sent
<1>6. WireCovered(wire, s, done, entries, next) => WireCovered(part, s, done, entries, next)
  BY <1>2, <1>5 DEF WireCovered
<1>7. \A call : CallCovered(call, wire, s, done, entries, next)
                  => CallCovered(call, part, s, done, entries, next)
  BY <1>2 DEF CallCovered
<1> QED BY <1>4, <1>6, <1>7

\* Nor does sending the request of a call once more.
LEMMA SentAgain ==
  ASSUME NEW wire \in Seq(RequestsSent), NEW s \in 1 .. MaxSessions, NEW call \in CallsMade,
         call # Idle, NEW done, NEW entries, NEW next \in Nat,
         InOrder(wire, s), WireCovered(wire, s, done, entries, next),
         CallCovered(call, wire, s, done, entries, next),
         NEW more, more = Append(wire, [session |-> s, frame |-> FrameOf(call)])
  PROVE  /\ InOrder(more, s) /\ WireCovered(more, s, done, entries, next)
         /\ CallCovered(call, more, s, done, entries, next)
<1> DEFINE last == Len(wire) + 1
           frame == FrameOf(call)
<1>1. frame \in FramesSent /\ frame.id = call.id /\ frame.id \in Nat
  BY FrameType DEF FrameOf, FramesSent, Frames
<1> HIDE DEF frame
<1>2. /\ Len(wire) \in Nat /\ DOMAIN wire = 1 .. Len(wire)
      /\ \A k \in DOMAIN wire : wire[k].session \in Nat /\ wire[k].frame.id \in Nat
  BY WireType
<1>3. [session |-> s, frame |-> frame] \in RequestsSent
  BY <1>1 DEF RequestsSent
<1>4. /\ more \in Seq(RequestsSent) /\ DOMAIN more = 1 .. last
      /\ \A k \in DOMAIN wire : k \in DOMAIN more /\ more[k] = wire[k]
      /\ more[last].session = s /\ more[last].frame = frame
  BY <1>2, <1>3, AppendProperties, LenProperties DEF frame
<1>5. /\ DOMAIN more = DOMAIN wire \cup {last}
      /\ Sent(more, s) = Sent(wire, s) \cup {last}
  <2>1. DOMAIN more = DOMAIN wire \cup {last}
    BY <1>2, <1>4
  <2> HIDE DEF last
  <2> QED BY <1>4, <2>1 DEF Sent
<1>6. /\ \A k \in DOMAIN wire : k <= last /\ ~(last <= k)
      /\ s \in Nat /\ last <= last /\ frame.id <= frame.id
  BY <1>1, <1>2, LinkAssumption DEF LinkAssumption
<1>7. /\ call.id < next /\ Covered(done, frame, entries)
      /\ \A k \in Sent(wire, s) : NotAfter(wire[k].frame, frame)
  BY DEF CallCovered, frame
<1> HIDE DEF last
<1>8. NotAfter(frame, frame)
  BY <1>6 DEF NotAfter
<1>9. InOrder(more, s)
  <2>1. \A k \in DOMAIN more : more[k].session <= s
    BY <1>4, <1>5, <1>6 DEF InOrder
  <2>2. \A j, k \in DOMAIN more : j <= k => more[j].session <= more[k].session
    <3> SUFFICES ASSUME NEW j \in DOMAIN more, NEW k \in DOMAIN more, j <= k
                 PROVE  more[j].session <= more[k].session
      OBVIOUS
    <3>1. CASE k = last
      BY <1>4, <2>1, <3>1
    <3>2. CASE k # last
      BY <1>4, <1>5, <1>6, <3>2 DEF InOrder
    <3> QED BY <3>1, <3>2
  <2>3. \A j, k \in Sent(more, s) : j <= k => NotAfter(more[j].frame, more[k].frame)
    <3> SUFFICES ASSUME NEW j \in Sent(more, s), NEW k \in Sent(more, s), j <= k
                 PROVE  NotAfter(more[j].frame, more[k].frame)
      OBVIOUS
    <3>1. Sent(wire, s) \subseteq DOMAIN wire
      BY DEF Sent
    <3>2. CASE k = last /\ j = last
      BY <1>4, <1>8, <3>2
    <3>3. CASE k = last /\ j # last
      BY <1>4, <1>5, <1>7, <3>1, <3>3
    <3>4. CASE k # last
      BY <1>4, <1>5, <1>6, <3>1, <3>4 DEF InOrder
    <3> QED BY <3>2, <3>3, <3>4
  <2> QED BY <2>1, <2>2, <2>3 DEF InOrder
<1>10. WireCovered(more, s, done, entries, next)
  <2>1. Sent(wire, s) \subseteq DOMAIN wire
    BY DEF Sent
  <2> QED BY <1>1, <1>4, <1>5, <1>7, <2>1 DEF WireCovered
<1>11. CallCovered(call, more, s, done, entries, next)
  <2>1. Sent(wire, s) \subseteq DOMAIN wire
    BY DEF Sent
  <2>2. \A k \in Sent(more, s) : NotAfter(more[k].frame, frame)
    BY <1>4, <1>5, <1>7, <1>8, <2>1
  <2> QED BY <1>7, <2>2 DEF CallCovered, frame
<1> QED BY <1>9, <1>10, <1>11

\* A call with a new id comes after everything before it.
LEMMA NewCall ==
  ASSUME NEW wire \in Seq(RequestsSent), NEW s, NEW call \in CallsMade, call # Idle,
         NEW done \in Seq(Nat), NEW entries, NEW next \in Nat, call.id = next,
         WireCovered(wire, s, done, entries, next), Increasing(done, next)
  PROVE  /\ CallCovered(call, wire, s, done, entries, next + 1)
         /\ WireCovered(wire, s, done, entries, next + 1)
         /\ Increasing(done, next + 1)
<1>1. FrameOf(call).id = next
  BY DEF FrameOf
<1>2. \A k \in Sent(wire, s) : wire[k].frame.id \in Nat /\ wire[k].frame.id < next
  BY WireType DEF WireCovered, Sent
<1>3. \A e \in DOMAIN done : done[e] \in Nat /\ done[e] < next
  BY LenProperties, ElementOfSeq DEF Increasing
<1>4. \A x \in Nat : x < next => x <= next /\ x # next /\ x < next + 1
  OBVIOUS
<1>5. Covered(done, FrameOf(call), entries)
  BY <1>1, <1>3, <1>4 DEF Covered
<1>6. \A k \in Sent(wire, s) : NotAfter(wire[k].frame, FrameOf(call))
  BY <1>1, <1>2, <1>4 DEF NotAfter
<1>7. CallCovered(call, wire, s, done, entries, next + 1)
  BY <1>5, <1>6 DEF CallCovered
<1>8. WireCovered(wire, s, done, entries, next + 1)
  BY <1>2, <1>4 DEF WireCovered
<1>9. Increasing(done, next + 1)
  BY <1>3, <1>4 DEF Increasing
<1> QED BY <1>7, <1>8, <1>9

\* What is in the parts of a sequence.
Has(seq, x) == \E k \in DOMAIN seq : seq[k] = x

LEMMA ConcatHas ==
  ASSUME NEW S, NEW one \in Seq(S), NEW other \in Seq(S), NEW x, Has(one, x) \/ Has(other, x)
  PROVE  Has(one \o other, x)
<1>1. /\ Len(one) \in Nat /\ DOMAIN one = 1 .. Len(one)
      /\ Len(other) \in Nat /\ DOMAIN other = 1 .. Len(other)
  BY LenProperties
<1> DEFINE both == one \o other
<1>2. /\ both \in Seq(S) /\ Len(both) = Len(one) + Len(other)
      /\ \A i \in 1 .. Len(one) + Len(other) : both[i] = IF i <= Len(one) THEN one[i] ELSE other[i - Len(one)]
  BY ConcatProperties
<1> HIDE DEF both
<1>3. DOMAIN both = 1 .. Len(one) + Len(other)
  BY <1>2, LenProperties
<1>4. CASE Has(one, x)
  <2>1. PICK k \in 1 .. Len(one) : one[k] = x
    BY <1>1, <1>4 DEF Has
  <2>2. k \in 1 .. Len(one) + Len(other) /\ both[k] = x
    BY <1>1, <1>2, <2>1
  <2> QED BY <1>3, <2>2 DEF Has, both
<1>5. CASE Has(other, x)
  <2>1. PICK k \in 1 .. Len(other) : other[k] = x
    BY <1>1, <1>5 DEF Has
  <2>2. /\ Len(one) + k \in 1 .. Len(one) + Len(other)
        /\ ~(Len(one) + k <= Len(one)) /\ (Len(one) + k) - Len(one) = k
    BY <1>1, <2>1
  <2>3. both[Len(one) + k] = x
    BY <1>2, <2>1, <2>2
  <2> QED BY <1>3, <2>2, <2>3 DEF Has, both
<1> QED BY <1>4, <1>5

LEMMA SubSeqHas ==
  ASSUME NEW S, NEW seq \in Seq(S), NEW m \in Int, NEW n \in Int, 1 <= m, n <= Len(seq),
         NEW i \in m .. n
  PROVE  SubSeq(seq, m, n) \in Seq(S) /\ Has(SubSeq(seq, m, n), seq[i])
<1>1. Len(seq) \in Nat /\ \A j \in m .. n : seq[j] \in S
  BY LenProperties, ElementOfSeq
<1> DEFINE part == SubSeq(seq, m, n)
<1>2. /\ part \in Seq(S) /\ Len(part) = n - m + 1
      /\ \A j \in 1 .. n - m + 1 : part[j] = seq[m + j - 1]
  BY <1>1, SubSeqProperties
<1> HIDE DEF part
<1>3. i - m + 1 \in 1 .. n - m + 1 /\ m + (i - m + 1) - 1 = i
  BY <1>1
<1>4. i - m + 1 \in DOMAIN part /\ part[i - m + 1] = seq[i]
  BY <1>2, <1>3, LenProperties
<1> QED BY <1>2, <1>4 DEF Has, part

\* An answer from the cache forgets nothing.
LEMMA ReplayHolds ==
  ASSUME cache \in Seq(Answers), NEW request, Replay(request), NEW frame, Held(frame, cache)
  PROVE  Held(frame, cache')
<1>1. PICK k \in DOMAIN cache :
        cache' = SubSeq(cache, 1, k - 1) \o SubSeq(cache, k + 1, Len(cache)) \o <<cache[k]>>
  BY DEF Replay
<1>2. PICK i \in DOMAIN cache : Matches(frame, cache[i])
  BY DEF Held
<1>3. Len(cache) \in Nat /\ k \in 1 .. Len(cache) /\ i \in 1 .. Len(cache)
      /\ \A j \in 1 .. Len(cache) : cache[j] \in Answers
  BY LenProperties, ElementOfSeq
<1> DEFINE before == SubSeq(cache, 1, k - 1)
           after == SubSeq(cache, k + 1, Len(cache))
           moved == <<cache[k]>>
<1>4. before \in Seq(Answers) /\ after \in Seq(Answers)
  BY <1>3, SubSeqProperties
<1>5. moved \in Seq(Answers) /\ Has(moved, cache[k])
  BY <1>3 DEF Has
<1>6. cache' = (before \o after) \o moved
  BY <1>1
<1>7. i < k => Has(before, cache[i])
  BY <1>3, SubSeqHas
<1>8. i > k => Has(after, cache[i])
  BY <1>3, SubSeqHas
<1> HIDE DEF before, after, moved
<1>9. before \o after \in Seq(Answers)
  BY <1>4, ConcatProperties
<1>10. Has(cache', cache[i])
  <2>1. CASE i = k
    BY <1>5, <1>6, <1>9, <2>1, ConcatHas
  <2>2. CASE i # k
    <3>1. Has(before, cache[i]) \/ Has(after, cache[i])
      BY <1>3, <1>7, <1>8, <2>2
    <3>2. Has(before \o after, cache[i])
      BY <1>4, <3>1, ConcatHas
    <3> QED BY <1>5, <1>6, <1>9, <3>2, ConcatHas
  <2> QED BY <2>1, <2>2
<1> QED BY <1>2, <1>10 DEF Has, Held

\* A request that is not answered from the cache is remembered.
LEMMA DispatchHolds ==
  ASSUME AnswerTypes, NEW frame \in FramesSent, Dispatch(frame), AnswerTypes'
  PROVE  Held(frame, cache')
<1>0. \E status, image : Emit(frame, status, image)
  <2>1. CASE Capabilities(frame) \/ ConfigInfo(frame) \/ Busy(frame) \/ BeginUpload(frame)
             \/ FactoryEmptyReset(frame)
    BY <2>1 DEF Capabilities, ConfigInfo, Busy, BeginUpload, FactoryEmptyReset
  <2>2. CASE ReadConfig(frame) \/ WriteChunk(frame)
    BY <2>2, Zenon DEF ReadConfig, WriteChunk
  <2>3. CASE VerifyUpload(frame) \/ ActivateUpload(frame) \/ SetExpressionCalibration(frame)
    BY <2>3 DEF VerifyUpload, ActivateUpload, SetExpressionCalibration
  <2>4. CASE ExpressionSample(frame)
    BY <2>4, Zenon DEF ExpressionSample
  <2> QED BY <2>1, <2>2, <2>3, <2>4 DEF Dispatch
<1>1. PICK status, image : Emit(frame, status, image)
  BY <1>0
<1> DEFINE response == [id |-> frame.id, command |-> frame.command, status |-> status,
                        image |-> image]
           kept == IF Len(cache) = CacheCapacity THEN Tail(cache) ELSE cache
           all == Answers \cup {response}
<1>2. cache' = Append(kept, response)
  BY <1>1 DEF Emit, Remember
<1>3. cache \in Seq(all) /\ Len(cache) \in Nat /\ CacheCapacity \in Nat \ {0}
  <2>1. cache \in Seq(Answers) /\ Len(cache) \in Nat
    BY LenProperties DEF AnswerTypes
  <2>2. Answers \subseteq all
    OBVIOUS
  <2> HIDE DEF all
  <2> QED BY <2>1, <2>2, SeqMonotonic, DispatcherAssumption DEF DispatcherAssumption
<1>4. response \in all /\ Matches(frame, response)
  BY DEF Matches
<1> HIDE DEF all, response
<1>5. kept \in Seq(all)
  <2>1. CASE Len(cache) = CacheCapacity
    <3>1. cache # <<>>
      BY <1>3, <2>1, EmptySeq
    <3> QED BY <1>3, <2>1, <3>1, HeadTailProperties
  <2>2. CASE Len(cache) # CacheCapacity
    BY <1>3, <2>2
  <2> QED BY <2>1, <2>2
<1> HIDE DEF kept
<1>6. Len(kept) \in Nat /\ Len(kept) + 1 \in DOMAIN cache' /\ cache'[Len(kept) + 1] = response
  <2>1. /\ Len(kept) \in Nat /\ Append(kept, response) \in Seq(all)
        /\ Len(Append(kept, response)) = Len(kept) + 1
        /\ Append(kept, response)[Len(kept) + 1] = response
    BY <1>4, <1>5, AppendProperties, LenProperties
  <2>2. DOMAIN cache' = 1 .. Len(kept) + 1
    BY <1>2, <2>1, LenProperties
  <2> QED BY <1>2, <2>1, <2>2
<1> QED BY <1>4, <1>6 DEF Held

\* Requests leave the wire and calls end.
LEMMA LessIsOnce ==
  ASSUME OnceInvariant, requests \in Seq(RequestsSent), requests' \in Seq(RequestsSent),
         NEW n \in Nat,
         \A k \in DOMAIN requests' : k + n \in DOMAIN requests /\ requests'[k] = requests[k + n],
         \A c \in Syncs : calls'[c] \in {Idle, calls[c]},
         UNCHANGED <<session, nextRequestId, executed, cache>>
  PROVE  OnceInvariant'
<1>1. /\ InOrder(requests', session)
      /\ WireCovered(requests', session, executed, cache, nextRequestId)
      /\ \A call : CallCovered(call, requests, session, executed, cache, nextRequestId)
                     => CallCovered(call, requests', session, executed, cache, nextRequestId)
  BY PartOfWire DEF OnceInvariant
<1>2. CallCovered(Idle, requests', session, executed, cache, nextRequestId)
  BY DEF CallCovered
<1>3. \A c \in Syncs : CallCovered(calls'[c], requests', session, executed, cache, nextRequestId)
  BY <1>1, <1>2 DEF OnceInvariant
<1> QED BY <1>1, <1>3 DEF OnceInvariant

\* The first request leaves.
LEMMA FirstLeaves ==
  ASSUME requests \in Seq(RequestsSent), requests # <<>>
  PROVE  \A k \in DOMAIN Tail(requests) :
           k + 1 \in DOMAIN requests /\ Tail(requests)[k] = requests[k + 1]
<1>1. Len(requests) \in Nat /\ DOMAIN requests = 1 .. Len(requests)
  BY LenProperties
<1>2. /\ Tail(requests) \in Seq(RequestsSent) /\ Len(Tail(requests)) = Len(requests) - 1
      /\ \A k \in 1 .. Len(Tail(requests)) : Tail(requests)[k] = requests[k + 1]
  BY HeadTailProperties
<1>3. DOMAIN Tail(requests) = 1 .. Len(requests) - 1
  BY <1>2, LenProperties
<1> QED BY <1>1, <1>2, <1>3

\* The link goes down: what the pedal has not received is gone, from the end.
LEMMA LastLeave ==
  ASSUME requests \in Seq(RequestsSent), NEW unread, CutLink(unread)
  PROVE  /\ requests' \in Seq(RequestsSent)
         /\ \A k \in DOMAIN requests' : k + 0 \in DOMAIN requests /\ requests'[k] = requests[k + 0]
<1>1. /\ Len(requests) \in Nat /\ DOMAIN requests = 1 .. Len(requests)
      /\ \A k \in 1 .. Len(requests) : requests[k] \in RequestsSent
  BY LenProperties, ElementOfSeq
<1>2. PICK n \in 0 .. Len(requests) : requests' = SubSeq(requests, 1, n)
  BY DEF CutLink
<1>3. n \in Nat /\ n <= Len(requests) /\ \A k \in 1 .. n : requests[k] \in RequestsSent
  BY <1>1
<1>4. /\ requests' \in Seq(RequestsSent) /\ Len(requests') = n
      /\ \A k \in 1 .. n : requests'[k] = requests[1 + k - 1]
  BY <1>2, <1>3, SubSeqProperties
<1>5. DOMAIN requests' = 1 .. n
  BY <1>4, LenProperties
<1>6. \A k \in 1 .. n : 1 + k - 1 = k /\ k + 0 = k /\ k \in 1 .. Len(requests)
  BY <1>1, <1>3
<1> QED BY <1>1, <1>4, <1>5, <1>6

\* The one call asks its next request.
LEMMA AskedOnce ==
  ASSUME LinkInvariant, OnceInvariant, LinkInvariant', NEW c, Syncs = {c},
         NEW step, step # "idle", NEW image, NEW index, Ask(c, step, image, index),
         session' = session, session # 0, UNCHANGED <<executed, cache>>
  PROVE  OnceInvariant'
<1> DEFINE call == [step |-> step, id |-> nextRequestId, attempt |-> 1,
                    image |-> image, index |-> index]
<1>1. /\ requests \in Seq(RequestsSent) /\ executed \in Seq(Nat) /\ nextRequestId \in Nat
      /\ session \in 1 .. MaxSessions /\ calls \in [Syncs -> CallsMade]
      /\ calls' \in [Syncs -> CallsMade]
  BY DEF LinkInvariant, HostTypes, HistoryTypes
<1>2. /\ calls' = [calls EXCEPT ![c] = call]
      /\ requests' = Append(requests, [session |-> session, frame |-> FrameOf(call)])
      /\ nextRequestId' = nextRequestId + 1
  BY DEF Ask
<1>3. call # Idle /\ call.id = nextRequestId
  BY DEF Idle
<1> HIDE DEF call
<1>4. calls'[c] = call /\ call \in CallsMade
  BY <1>1, <1>2
<1>5. /\ CallCovered(call, requests, session, executed, cache, nextRequestId + 1)
      /\ WireCovered(requests, session, executed, cache, nextRequestId + 1)
      /\ Increasing(executed, nextRequestId + 1)
  BY <1>1, <1>3, <1>4, NewCall DEF OnceInvariant
<1>6. /\ InOrder(requests', session)
      /\ WireCovered(requests', session, executed, cache, nextRequestId + 1)
      /\ CallCovered(call, requests', session, executed, cache, nextRequestId + 1)
  <2> DEFINE next == nextRequestId + 1
  <2>1. next \in Nat /\ InOrder(requests, session)
    BY <1>1 DEF OnceInvariant
  <2>2. /\ CallCovered(call, requests, session, executed, cache, next)
        /\ WireCovered(requests, session, executed, cache, next)
    BY <1>5
  <2>3. /\ requests \in Seq(RequestsSent) /\ session \in 1 .. MaxSessions
        /\ call \in CallsMade /\ call # Idle
        /\ requests' = Append(requests, [session |-> session, frame |-> FrameOf(call)])
    BY <1>1, <1>2, <1>3, <1>4
  <2> HIDE DEF next
  <2>4. /\ InOrder(requests', session)
        /\ WireCovered(requests', session, executed, cache, next)
        /\ CallCovered(call, requests', session, executed, cache, next)
    BY <2>1, <2>2, <2>3, SentAgain, Zenon
  <2> QED BY <2>4 DEF next
<1> QED BY <1>2, <1>4, <1>5, <1>6 DEF OnceInvariant

\* A call ends, and perhaps the link with it.
LEMMA EndedOnce ==
  ASSUME LinkInvariant, OnceInvariant, NEW c \in Syncs, calls' = [calls EXCEPT ![c] = Idle],
         requests' = requests \/ \E unread : CutLink(unread),
         UNCHANGED <<session, nextRequestId, executed, cache>>
  PROVE  OnceInvariant'
<1>1. requests \in Seq(RequestsSent) /\ calls \in [Syncs -> CallsMade]
  BY DEF LinkInvariant, HostTypes
<1>2. \A d \in Syncs : calls'[d] \in {Idle, calls[d]}
  BY <1>1
<1>3. CASE requests' = requests
  <2>1. \A k \in DOMAIN requests : k + 0 = k
    BY <1>1, WireType
  <2> QED BY <1>1, <1>2, <1>3, <2>1, LessIsOnce
<1>4. CASE \E unread : CutLink(unread)
  BY <1>1, <1>2, <1>4, LastLeave, LessIsOnce
<1> QED BY <1>3, <1>4

\* The host takes an answer: the call it belongs to asks its next request or ends.
LEMMA DeliverOnce ==
  ASSUME LinkInvariant, OnceInvariant, LinkInvariant', NEW c, Syncs = {c}, Deliver
  PROVE  OnceInvariant'
<1>1. UNCHANGED <<executed, cache>>
  BY DEF Deliver, history_vars
<1>2. CASE UNCHANGED <<requests, host_vars>>
  BY <1>1, <1>2 DEF host_vars, OnceInvariant
<1>3. CASE ~UNCHANGED <<requests, host_vars>>
  <2>1. PICK answer :
          /\ IsAnswer(c, answer) /\ UNCHANGED session
          /\ \/ Connecting(c, answer) \/ Syncing(c, answer)
             \/ \E unread : Fail(c, unread)
    <3>1. PICK d \in Syncs :
            /\ IsAnswer(d, Head(responses)) /\ UNCHANGED session
            /\ \/ Connecting(d, Head(responses)) \/ Syncing(d, Head(responses))
               \/ Fail(d, Tail(responses))
      BY <1>3 DEF Deliver
    <3> QED BY <3>1
  <2>2. session # 0
    BY <2>1 DEF IsAnswer, LinkInvariant, HostTypes
  <2> DEFINE Asks == \E step, image, index : step # "idle" /\ Ask(c, step, image, index)
             Ends == \/ \E how : End(c, how)
                     \/ \E unread : Fail(c, unread)
  <2>3. Asks \/ Ends
    <3>1. \A image, index : ReadNext(c, image, index) => Asks \/ Ends
      BY DEF ReadNext
    <3>2. CASE Connecting(c, answer)
      BY <3>1, <3>2 DEF Connecting
    <3>3. CASE Syncing(c, answer)
      <4>1. CASE \E how : End(c, how)
        BY <4>1
      <4>2. CASE \/ Ask(c, "write", calls[c].image, 1)
                 \/ Ask(c, "write", calls[c].image, calls[c].index + 1)
                 \/ Ask(c, "verify", calls[c].image, 0)
                 \/ Ask(c, "activate", calls[c].image, 0)
                 \/ Ask(c, "readback", calls[c].image, 0)
        BY <4>2
      <4> QED BY <3>3, <4>1, <4>2 DEF Syncing
    <3> QED BY <2>1, <3>2, <3>3
  <2>4. CASE Asks
    BY <1>1, <2>1, <2>2, <2>4, AskedOnce
  <2>5. CASE Ends
    <3>1. /\ calls' = [calls EXCEPT ![c] = Idle] /\ nextRequestId' = nextRequestId
          /\ requests' = requests \/ \E unread : CutLink(unread)
      BY <2>5 DEF End, Fail
    <3> QED BY <1>1, <2>1, <3>1, EndedOnce
  <2> QED BY <2>3, <2>4, <2>5
<1> QED BY <1>2, <1>3

\* A request is sent again, or given up.
LEMMA TimeoutOnce ==
  ASSUME LinkInvariant, OnceInvariant, NEW c, Syncs = {c}, Timeout(c)
  PROVE  OnceInvariant'
<1>1. /\ requests \in Seq(RequestsSent) /\ calls \in [Syncs -> CallsMade] /\ calls[c] \in CallsMade
      /\ calls[c] # Idle /\ session \in 1 .. MaxSessions /\ nextRequestId \in Nat
  BY DEF LinkInvariant, HostTypes, Timeout
<1>2. UNCHANGED <<session, executed, cache>>
  BY DEF Timeout, history_vars
<1>3. CASE calls[c].attempt < AttemptLimit
  <2>1. /\ calls' = [calls EXCEPT ![c].attempt = @ + 1]
        /\ requests' = Append(requests, [session |-> session, frame |-> FrameOf(calls[c])])
        /\ nextRequestId' = nextRequestId
    BY <1>3 DEF Timeout
  <2>2. /\ InOrder(requests, session)
        /\ WireCovered(requests, session, executed, cache, nextRequestId)
        /\ Increasing(executed, nextRequestId)
        /\ CallCovered(calls[c], requests, session, executed, cache, nextRequestId)
    BY DEF OnceInvariant
  <2>3. /\ InOrder(requests', session)
        /\ WireCovered(requests', session, executed, cache, nextRequestId)
        /\ CallCovered(calls[c], requests', session, executed, cache, nextRequestId)
    BY <1>1, <2>1, <2>2, SentAgain, Zenon
  <2>4. calls'[c].id = calls[c].id /\ FrameOf(calls'[c]) = FrameOf(calls[c])
    <3>1. calls'[c] = [calls[c] EXCEPT !.attempt = @ + 1]
      BY <1>1, <2>1
    <3>2. /\ calls'[c].id = calls[c].id /\ calls'[c].step = calls[c].step
          /\ calls'[c].image = calls[c].image /\ calls'[c].index = calls[c].index
      BY <1>1, <3>1 DEF CallsMade, Calls
    <3> QED BY <3>2 DEF FrameOf
  <2>5. CallCovered(calls'[c], requests', session, executed, cache, nextRequestId)
    BY <1>1, <2>3, <2>4 DEF CallCovered
  <2> QED BY <1>2, <2>1, <2>2, <2>3, <2>5 DEF OnceInvariant
<1>4. CASE ~(calls[c].attempt < AttemptLimit)
  <2>1. Fail(c, responses)
    BY <1>4 DEF Timeout
  <2>2. /\ calls' = [calls EXCEPT ![c] = Idle] /\ nextRequestId' = nextRequestId
        /\ requests' = requests \/ \E unread : CutLink(unread)
    BY <2>1 DEF Fail
  <2> QED BY <1>2, <2>2, EndedOnce
<1> QED BY <1>3, <1>4

\* A new session: nothing on the wire is of this session, and nothing was executed in it.
LEMMA ConnectOnce ==
  ASSUME LinkInvariant, OnceInvariant, LinkInvariant', NEW c, Syncs = {c}, Connect(c)
  PROVE  OnceInvariant'
<1> DEFINE call == [step |-> "capabilities", id |-> 1, attempt |-> 1, image |-> Nil, index |-> 0]
           next == session + 1
<1>1. /\ requests \in Seq(RequestsSent) /\ session \in Nat
      /\ calls \in [Syncs -> CallsMade] /\ calls' \in [Syncs -> CallsMade]
      /\ session' \in 0 .. MaxSessions
  BY DEF LinkInvariant, HostTypes
<1>2. /\ session' = next /\ nextRequestId' = 2 /\ executed' = <<>> /\ cache' = cache
      /\ calls' = [calls EXCEPT ![c] = call]
      /\ requests' = Append(requests, [session |-> next, frame |-> FrameOf(call)])
  BY DEF Connect, dispatcher_vars
<1>3. call # Idle /\ call.id = 1
  BY DEF Idle
<1> HIDE DEF call
<1>4. calls'[c] = call /\ call \in CallsMade
  BY <1>1, <1>2
<1>5. next \in 1 .. MaxSessions
  BY <1>1, <1>2
<1>6. \A k \in DOMAIN requests : requests[k].session <= next /\ requests[k].session # next
  <2>1. \A k \in DOMAIN requests : requests[k].session \in Nat /\ requests[k].session <= session
    BY <1>1, WireType DEF OnceInvariant, InOrder
  <2> QED BY <1>1, <2>1
<1> HIDE DEF next
<1>7. Sent(requests, next) = {}
  BY <1>6 DEF Sent
<1>8. InOrder(requests, next)
  BY <1>6, <1>7 DEF InOrder, OnceInvariant
<1>9. /\ WireCovered(requests, next, <<>>, cache, 2) /\ Increasing(<<>>, 2)
      /\ CallCovered(call, requests, next, <<>>, cache, 2)
  BY <1>3, <1>7 DEF WireCovered, Increasing, CallCovered, Covered
<1>10. /\ InOrder(requests', next)
       /\ WireCovered(requests', next, executed', cache, nextRequestId')
       /\ CallCovered(call, requests', next, executed', cache, nextRequestId')
  <2>1. nextRequestId' \in Nat
    BY <1>2
  <2>2. /\ WireCovered(requests, next, executed', cache, nextRequestId')
        /\ CallCovered(call, requests, next, executed', cache, nextRequestId')
    BY <1>2, <1>9
  <2>3. requests' = Append(requests, [session |-> next, frame |-> FrameOf(call)])
    BY <1>2
  <2> QED BY <1>1, <1>3, <1>4, <1>5, <1>8, <2>1, <2>2, <2>3, SentAgain, Zenon
<1> QED BY <1>2, <1>4, <1>9, <1>10 DEF OnceInvariant

\* A call is started.
LEMMA StartOnce ==
  ASSUME LinkInvariant, OnceInvariant, LinkInvariant', NEW c, Syncs = {c},
         \/ \E config \in Configs : StartSync(c, config)
         \/ \E step \in Others : StartOther(c, step)
  PROVE  OnceInvariant'
<1>1. UNCHANGED <<session, executed, cache>> /\ phase = "connected"
  BY DEF StartSync, StartOther, history_vars, dispatcher_vars
<1>2. session # 0
  BY <1>1 DEF LinkInvariant, HostTypes
<1>3. \E step, image, index : step # "idle" /\ Ask(c, step, image, index)
  <2>1. CASE \E config \in Configs : StartSync(c, config)
    BY <2>1 DEF StartSync
  <2>2. CASE \E step \in Others : StartOther(c, step)
    BY <2>2, LinkAssumption, Zenon DEF StartOther, LinkAssumption
  <2> QED BY <2>1, <2>2
<1> QED BY <1>1, <1>2, <1>3, AskedOnce

\* What was executed before stays covered when the cache forgets nothing.
LEMMA HeldOnce ==
  ASSUME NEW wire, NEW s, NEW done, NEW next, NEW old, NEW new,
         \A frame : Held(frame, old) => Held(frame, new)
  PROVE  /\ WireCovered(wire, s, done, old, next) => WireCovered(wire, s, done, new, next)
         /\ \A call : CallCovered(call, wire, s, done, old, next)
                        => CallCovered(call, wire, s, done, new, next)
<1>1. \A frame : Covered(done, frame, old) => Covered(done, frame, new)
  BY DEF Covered
<1> QED BY <1>1 DEF WireCovered, CallCovered

\* A request that was not in the cache is executed: it has not been executed before, so
\* neither has what does not come before it, except for its own copies.
LEMMA ExecutedCovers ==
  ASSUME NEW done \in Seq(Nat), NEW head, head.id \in Nat, NEW old, NEW entries,
         Covered(done, head, old), ~Held(head, old), Held(head, entries),
         NEW more, more = done \/ more = Append(done, head.id)
  PROVE  /\ \A frame : frame.id \in Nat /\ NotAfter(head, frame) => Covered(more, frame, entries)
         /\ \A next \in Nat : Increasing(done, next) /\ head.id < next => Increasing(more, next)
<1>1. Len(done) \in Nat /\ DOMAIN done = 1 .. Len(done) /\ \A e \in DOMAIN done : done[e] \in Nat
  BY LenProperties, ElementOfSeq
<1>2. \A e \in DOMAIN done : done[e] <= head.id /\ done[e] # head.id
  BY DEF Covered
<1>3. \A e \in DOMAIN done : done[e] < head.id
  BY <1>1, <1>2
<1>4. \A e \in DOMAIN more : more[e] \in Nat /\ more[e] <= head.id
  <2>1. CASE more = done
    BY <1>1, <1>2, <2>1
  <2>2. CASE more = Append(done, head.id)
    <3>1. /\ more \in Seq(Nat) /\ Len(more) = Len(done) + 1
          /\ \A e \in 1 .. Len(done) : more[e] = done[e]
          /\ more[Len(done) + 1] = head.id
      BY <2>2, AppendProperties
    <3>2. DOMAIN more = 1 .. Len(done) + 1
      BY <3>1, LenProperties
    <3>3. \A e \in 1 .. Len(done) + 1 : e \in 1 .. Len(done) \/ e = Len(done) + 1
      BY <1>1
    <3> QED BY <1>1, <1>2, <3>1, <3>2, <3>3
  <2> QED BY <2>1, <2>2
<1>5. \A j, k \in DOMAIN more : j < k => more[j] < head.id
  <2>1. CASE more = done
    BY <1>3, <2>1
  <2>2. CASE more = Append(done, head.id)
    <3>1. /\ more \in Seq(Nat) /\ Len(more) = Len(done) + 1
          /\ \A e \in 1 .. Len(done) : more[e] = done[e]
      BY <2>2, AppendProperties
    <3>2. DOMAIN more = 1 .. Len(done) + 1
      BY <3>1, LenProperties
    <3>3. \A j, k \in 1 .. Len(done) + 1 : j < k => j \in 1 .. Len(done)
      BY <1>1
    <3> QED BY <1>1, <1>3, <3>1, <3>2, <3>3
  <2> QED BY <2>1, <2>2
<1>6. ASSUME NEW frame, frame.id \in Nat, NotAfter(head, frame) PROVE Covered(more, frame, entries)
  <2> SUFFICES ASSUME NEW e \in DOMAIN more
               PROVE  more[e] <= frame.id /\ (more[e] = frame.id => Held(frame, entries))
    BY DEF Covered
  <2>1. more[e] \in Nat /\ more[e] <= head.id /\ head.id <= frame.id
    BY <1>4, <1>6 DEF NotAfter
  <2>2. more[e] <= frame.id /\ (more[e] = frame.id => head.id = frame.id)
    BY <1>6, <2>1
  <2> QED BY <1>6, <2>2 DEF NotAfter
<1>7. ASSUME NEW next \in Nat, Increasing(done, next), head.id < next PROVE Increasing(more, next)
  <2>1. \A e \in DOMAIN more : more[e] < next
    BY <1>4, <1>7
  <2>2. \A j, k \in DOMAIN more : j < k => more[j] < more[k]
    <3>1. CASE more = done
      BY <1>7, <3>1 DEF Increasing
    <3>2. CASE more = Append(done, head.id)
      <4>1. /\ more \in Seq(Nat) /\ Len(more) = Len(done) + 1
            /\ \A e \in 1 .. Len(done) : more[e] = done[e]
            /\ more[Len(done) + 1] = head.id
        BY <3>2, AppendProperties
      <4>2. DOMAIN more = 1 .. Len(done) + 1
        BY <4>1, LenProperties
      <4>3. \A j, k \in 1 .. Len(done) + 1 :
              j < k => j \in 1 .. Len(done) /\ (k \in 1 .. Len(done) \/ k = Len(done) + 1)
        BY <1>1
      <4> QED BY <1>1, <1>3, <1>7, <4>1, <4>2, <4>3 DEF Increasing
    <3> QED BY <3>1, <3>2
  <2> QED BY <2>1, <2>2 DEF Increasing
<1> QED BY <1>6, <1>7

\* The pedal takes the first request.
LEMMA ReceiveOnce ==
  ASSUME LinkInvariant, OnceInvariant, LinkInvariant', Receive
  PROVE  OnceInvariant'
<1> DEFINE frame == Head(requests).frame
           wire == requests
           s == session
           next == nextRequestId
<1>1. /\ requests \in Seq(RequestsSent) /\ requests' \in Seq(RequestsSent) /\ cache \in Seq(Answers)
      /\ AnswerTypes /\ AnswerTypes' /\ executed \in Seq(Nat) /\ nextRequestId \in Nat
  BY DEF LinkInvariant, AnswerTypes, HistoryTypes, HostTypes
<1>2. /\ requests # <<>> /\ requests' = Tail(requests)
      /\ UNCHANGED <<session, calls, nextRequestId>>
  BY DEF Receive, host_vars
<1>3. /\ 1 \in DOMAIN requests /\ Head(requests) = requests[1] /\ \A k \in DOMAIN requests : 1 <= k
      /\ frame \in FramesSent /\ frame.id \in Nat
  <2>1. Len(requests) \in Nat /\ DOMAIN requests = 1 .. Len(requests)
    BY <1>1, LenProperties
  <2>2. Len(requests) # 0
    BY <1>1, <1>2, EmptySeq
  <2>3. 1 \in DOMAIN requests /\ \A k \in DOMAIN requests : 1 <= k
    BY <2>1, <2>2
  <2>4. Head(requests) = requests[1]
    BY <1>1, <1>2, HeadTailProperties
  <2> QED BY <1>1, <2>3, <2>4, WireType
<1>4. /\ InOrder(wire, s) /\ WireCovered(wire, s, executed, cache, next)
      /\ Increasing(executed, next)
      /\ \A c \in Syncs : CallCovered(calls[c], wire, s, executed, cache, next)
  BY DEF OnceInvariant
<1>5. /\ WireCovered(wire, s, executed', cache', next)
      /\ Increasing(executed', next)
      /\ \A c \in Syncs : CallCovered(calls[c], wire, s, executed', cache', next)
  <2>1. CASE Replay(frame) /\ UNCHANGED history_vars
    <3>1. \A other : Held(other, cache) => Held(other, cache')
      BY <1>1, <2>1, ReplayHolds
    <3>2. executed' = executed
      BY <2>1 DEF history_vars
    <3> HIDE DEF wire, s, next
    <3>3. WireCovered(wire, s, executed, cache', next)
      BY <1>4, <3>1, HeldOnce
    <3>4. \A c \in Syncs : CallCovered(calls[c], wire, s, executed, cache', next)
      BY <1>4, <3>1, HeldOnce
    <3> QED BY <1>4, <3>2, <3>3, <3>4
  <2>2. CASE ~IsCached(frame) /\ Dispatch(frame) /\ Head(requests).session # session
    <3>1. 1 \notin Sent(wire, s)
      BY <1>3, <2>2 DEF Sent
    <3>2. executed = <<>>
      BY <1>3, <1>4, <3>1 DEF WireCovered
    <3>3. executed' = executed
      <4>1. executed' = executed \/ Head(requests).session = session
        BY DEF Receive, history_vars
      <4> QED BY <2>2, <4>1
    <3>4. \A other : Covered(<<>>, other, cache')
      BY DEF Covered
    <3> QED BY <1>4, <3>2, <3>3, <3>4 DEF WireCovered, CallCovered
  <2>3. CASE ~IsCached(frame) /\ Dispatch(frame) /\ Head(requests).session = session
             /\ executed' \in {executed, Append(executed, frame.id)}
    <3>1. 1 \in Sent(wire, s)
      BY <1>3, <2>3 DEF Sent
    <3>2. Covered(executed, frame, cache) /\ ~Held(frame, cache) /\ Held(frame, cache')
      <4>1. Covered(executed, frame, cache)
        BY <1>3, <1>4, <3>1 DEF WireCovered
      <4>2. ~Held(frame, cache)
        BY <2>3 DEF IsCached, Held
      <4>3. Held(frame, cache')
        BY <1>1, <1>3, <2>3, DispatchHolds
      <4> QED BY <4>1, <4>2, <4>3
    <3>3. frame.id < next
      BY <1>3, <1>4, <3>1 DEF WireCovered
    <3> DEFINE done == executed'
    <3>4. done = executed \/ done = Append(executed, frame.id)
      BY <2>3
    <3>5. Sent(wire, s) = DOMAIN wire
      <4>1. \A k \in DOMAIN wire : wire[1].session <= wire[k].session /\ wire[k].session <= s
        BY <1>3, <1>4 DEF InOrder
      <4>2. wire[1].session = s /\ \A k \in DOMAIN wire : wire[k].session \in Nat
        BY <1>1, <1>3, <2>3, WireType
      <4>3. \A k \in DOMAIN wire : wire[k].session = s
        BY <1>3, <4>1, <4>2
      <4> QED BY <4>3 DEF Sent
    <3>6. \A k \in Sent(wire, s) :
            NotAfter(frame, wire[k].frame) /\ wire[k].frame.id \in Nat /\ wire[k].frame.id < next
      <4>1. \A k \in Sent(wire, s) : NotAfter(frame, wire[k].frame) /\ wire[k].frame.id < next
        BY <1>3, <1>4, <3>1, <3>5 DEF InOrder, WireCovered
      <4> QED BY <1>1, <3>5, <4>1, WireType
    <3>7. \A c \in Syncs : calls[c] # Idle =>
            /\ NotAfter(frame, FrameOf(calls[c])) /\ FrameOf(calls[c]).id \in Nat
            /\ calls[c].id < next
            /\ \A k \in Sent(wire, s) : NotAfter(wire[k].frame, FrameOf(calls[c]))
      <4> SUFFICES ASSUME NEW c \in Syncs, calls[c] # Idle
                   PROVE  /\ NotAfter(frame, FrameOf(calls[c])) /\ FrameOf(calls[c]).id \in Nat
                          /\ calls[c].id < next
                          /\ \A k \in Sent(wire, s) : NotAfter(wire[k].frame, FrameOf(calls[c]))
        OBVIOUS
      <4>1. calls[c] \in CallsMade
        BY DEF LinkInvariant, HostTypes
      <4>2. FrameOf(calls[c]).id \in Nat
        BY <4>1, FrameType DEF FramesSent, Frames
      <4>3. calls[c].id < next
            /\ \A k \in Sent(wire, s) : NotAfter(wire[k].frame, FrameOf(calls[c]))
        BY <1>4 DEF CallCovered
      <4> QED BY <1>3, <3>1, <4>2, <4>3
    <3> HIDE DEF frame, done, wire, s, next
    <3>8. /\ \A other : other.id \in Nat /\ NotAfter(frame, other) => Covered(done, other, cache')
          /\ Increasing(done, next)
      <4>1. next \in Nat
        BY <1>1 DEF next
      <4>2. executed \in Seq(Nat) /\ frame.id \in Nat
        BY <1>1, <1>3
      <4>3. /\ \A other : other.id \in Nat /\ NotAfter(frame, other)
                            => Covered(done, other, cache')
            /\ \A bound \in Nat :
                 Increasing(executed, bound) /\ frame.id < bound => Increasing(done, bound)
        BY <3>2, <3>4, <4>2, ExecutedCovers, Zenon
      <4>4. Increasing(executed, next) /\ frame.id < next
        BY <1>4, <3>3
      <4>5. Increasing(done, next)
        BY <4>1, <4>3, <4>4
      <4>6. \A other : other.id \in Nat /\ NotAfter(frame, other) => Covered(done, other, cache')
        BY <4>3
      <4> QED BY <4>5, <4>6
    <3>9. WireCovered(wire, s, done, cache', next)
      BY <3>5, <3>6, <3>8 DEF WireCovered
    <3>10. \A c \in Syncs : CallCovered(calls[c], wire, s, done, cache', next)
      BY <3>7, <3>8 DEF CallCovered
    <3> QED BY <3>8, <3>9, <3>10 DEF done
  <2> QED
    <3>1. \/ Replay(frame) /\ UNCHANGED history_vars
          \/ ~IsCached(frame) /\ Dispatch(frame)
               /\ executed' \in {executed, Append(executed, frame.id)}
      BY DEF Receive
    <3> QED BY <2>1, <2>2, <2>3, <3>1
<1>6. \A k \in DOMAIN requests' : k + 1 \in DOMAIN wire /\ requests'[k] = wire[k + 1]
  BY <1>1, <1>2, FirstLeaves
<1>7. wire \in Seq(RequestsSent)
  BY <1>1
<1> HIDE DEF wire, s, next
<1>8. /\ InOrder(requests', s)
      /\ WireCovered(requests', s, executed', cache', next)
      /\ \A c \in Syncs : CallCovered(calls[c], requests', s, executed', cache', next)
  <2>1. 1 \in Nat
    OBVIOUS
  <2> QED BY <1>1, <1>4, <1>5, <1>6, <1>7, <2>1, PartOfWire
<1> QED BY <1>2, <1>5, <1>8 DEF OnceInvariant, s, next

\* The link or the pedal fails, or the control loop looks at the store.
LEMMA FaultOnce ==
  ASSUME LinkInvariant, OnceInvariant, LinkInvariant',
         LoseRequest \/ LoseResponse \/ Disconnect \/ Restart \/ Tick \/ Navigate
  PROVE  OnceInvariant'
<1>1. requests \in Seq(RequestsSent) /\ requests' \in Seq(RequestsSent)
  BY DEF LinkInvariant
<1>2. CASE LoseRequest
  <2>1. /\ requests # <<>> /\ requests' = Tail(requests)
        /\ UNCHANGED <<session, calls, nextRequestId, executed, cache>>
    BY <1>2 DEF LoseRequest, host_vars, history_vars, dispatcher_vars
  <2>2. \A k \in DOMAIN requests' : k + 1 \in DOMAIN requests /\ requests'[k] = requests[k + 1]
    BY <1>1, <2>1, FirstLeaves
  <2>3. 1 \in Nat /\ \A c \in Syncs : calls'[c] \in {Idle, calls[c]}
    BY <2>1
  <2> QED BY <1>1, <2>1, <2>2, <2>3, LessIsOnce
<1>3. CASE LoseResponse \/ Tick \/ Navigate
  <2>1. UNCHANGED <<requests, session, calls, nextRequestId, executed, cache>>
    BY <1>3 DEF LoseResponse, Tick, Navigate, RefreshConfiguration, ChangeBank, host_vars,
                history_vars
  <2> QED BY <2>1 DEF OnceInvariant
<1>4. CASE Disconnect
  <2>1. /\ CutLink(responses) /\ \A c \in Syncs : calls'[c] = Idle
        /\ UNCHANGED <<session, nextRequestId, executed, cache>>
    BY <1>4 DEF Disconnect, HostLost, history_vars
  <2>2. 0 \in Nat /\ \A k \in DOMAIN requests' :
                       k + 0 \in DOMAIN requests /\ requests'[k] = requests[k + 0]
    BY <1>1, <2>1, LastLeave
  <2> QED BY <1>1, <2>1, <2>2, LessIsOnce
<1>5. CASE Restart
  <2>1. /\ requests' = <<>> /\ \A c \in Syncs : calls'[c] = Idle
        /\ UNCHANGED <<session, nextRequestId, executed>>
    BY <1>5 DEF Restart, HostLost, history_vars
  <2>2. Sent(<<>>, session) = {} /\ DOMAIN <<>> = {}
    BY DEF Sent
  <2>3. InOrder(<<>>, session) /\ \A done, entries, next : WireCovered(<<>>, session, done, entries, next)
    BY <2>2 DEF InOrder, WireCovered
  <2>4. Increasing(executed, nextRequestId)
    BY DEF OnceInvariant
  <2> QED BY <2>1, <2>3, <2>4 DEF OnceInvariant, CallCovered
<1> QED BY <1>2, <1>3, <1>4, <1>5

\* With one call at a time, however often a request is sent, lost, answered too late or cut
\* off, and however small the replay cache, the pedal executes it once in its session. (With
\* two calls at a time it may not: the requests of one push the answer of the other out of
\* the cache between two attempts.)
THEOREM OneCallExecutesOnce ==
  ASSUME NEW c, Syncs = {c}
  PROVE  Spec => []NeverExecutedTwice
<1>1. Init => OnceInvariant
  <2> SUFFICES ASSUME Init PROVE OnceInvariant
    OBVIOUS
  <2>1. requests = <<>> /\ executed = <<>> /\ calls[c] = Idle
    BY DEF Init
  <2>2. Sent(<<>>, session) = {} /\ DOMAIN <<>> = {}
    BY DEF Sent
  <2> QED BY <2>1, <2>2 DEF OnceInvariant, InOrder, WireCovered, Increasing, CallCovered
<1>2. LinkInvariant /\ OnceInvariant /\ [Next]_vars => OnceInvariant'
  <2> SUFFICES ASSUME LinkInvariant, OnceInvariant, [Next]_vars PROVE OnceInvariant'
    OBVIOUS
  <2>1. LinkInvariant'
    BY LinkGoesOn
  <2>2. CASE \E d \in Syncs : Connect(d)
    BY <2>1, <2>2, ConnectOnce
  <2>3. CASE \E d \in Syncs : \/ \E config \in Configs : StartSync(d, config)
                              \/ \E step \in Others : StartOther(d, step)
    BY <2>1, <2>3, StartOnce
  <2>4. CASE Deliver
    BY <2>1, <2>4, DeliverOnce
  <2>5. CASE \E d \in Syncs : Timeout(d)
    BY <2>5, TimeoutOnce
  <2>6. CASE Receive
    BY <2>1, <2>6, ReceiveOnce
  <2>7. CASE LoseRequest \/ LoseResponse \/ Disconnect \/ Restart \/ Tick \/ Navigate
    BY <2>1, <2>7, FaultOnce
  <2>8. CASE UNCHANGED vars
    <3>1. UNCHANGED <<requests, session, calls, nextRequestId, executed, cache>>
      BY <2>8 DEF vars, dispatcher_vars, host_vars, history_vars
    <3> QED BY <3>1 DEF OnceInvariant
  <2> QED BY <2>2, <2>3, <2>4, <2>5, <2>6, <2>7, <2>8 DEF Next
<1>3. LinkInvariant /\ OnceInvariant => NeverExecutedTwice
  <2> SUFFICES ASSUME LinkInvariant, OnceInvariant,
                      NEW j \in DOMAIN executed, NEW k \in DOMAIN executed, j # k
               PROVE  executed[j] # executed[k]
    BY DEF NeverExecutedTwice
  <2>1. /\ j \in Nat /\ k \in Nat /\ executed[j] \in Nat /\ executed[k] \in Nat
    BY LenProperties, ElementOfSeq DEF LinkInvariant, HistoryTypes
  <2>2. j < k \/ k < j
    BY <2>1
  <2>3. executed[j] < executed[k] \/ executed[k] < executed[j]
    BY <2>2 DEF OnceInvariant, Increasing
  <2> QED BY <2>1, <2>3
<1> QED BY <1>1, <1>2, <1>3, LinkStarts, LinkGoesOn, PTL DEF Spec
=============================================================================

----------------------------- MODULE EditorLink -----------------------------
(***************************************************************************)
(* The editor's DeviceSession (editor/src/device/DeviceSession.ts), the    *)
(* App that opens sessions and starts syncs, and the serial link to the    *)
(* pedal's ProtocolDispatcher.                                             *)
(*                                                                         *)
(* The link keeps order but may lose a frame (a decoder drops what fails   *)
(* its CRC; a full response queue refuses), and an answer may be slower    *)
(* than the 1000 ms the host waits. Every await of the code is a point     *)
(* where other steps interleave.                                           *)
(***************************************************************************)
EXTENDS ProtocolDispatcher

CONSTANTS
  Syncs,          \* the calls of sync() that may be in progress at a time
  AttemptLimit,   \* attempts at a request: 3
  MaxRequestId,   \* bound on the requests of a session
  OtherIds,       \* the ids that the other requests may have, to bound them
  MaxSessions,    \* bound on connections, a page reload or a new cable
  PowerCanFail,   \* may the pedal be power cycled in between?
  Others          \* the other requests made: of "sample", "calibrate" and "reset", which
                  \* DeviceSession offers and no screen uses yet

Requests == [session : 1 .. MaxSessions, frame : Frames]
Steps == {"idle", "capabilities", "info", "read", "begin", "write", "verify", "activate", "readback"}
           \cup Others
Calls == [step : Steps, id : Nat, attempt : 0 .. AttemptLimit,
          image : Images \cup {Nil}, index : Nat]
Idle == [step |-> "idle", id |-> 0, attempt |-> 0, image |-> Nil, index |-> 0]

ASSUME LinkAssumption ==
  /\ Syncs # {} /\ AttemptLimit \in Nat \ {0}
  /\ MaxRequestId \in Nat /\ OtherIds \subseteq Nat /\ MaxSessions \in Nat \ {0} /\ PowerCanFail \in BOOLEAN
  /\ Others \subseteq {"sample", "calibrate", "reset"}

VARIABLES
  requests,        \* frames on their way to the pedal, each with the session that sent it
                   \* (which the wire does not carry)
  session,         \* how many sessions there have been
  phase,           \* "offline", "connecting", "connected", or "abandoned": the port is open
                   \* but the App has no session on it
  nextRequestId,
  info,            \* DeviceSession.info: the active image as last reported, or Nil
  document,        \* the images whose bank records make up the document read by connect
  calls,           \* [Syncs -> Calls]: the request each async call is waiting for
  result,          \* [Syncs -> ...]: how the call ended
  previous,        \* [Syncs -> ...]: the image active when the call began
  executed,        \* history: the ids of this session's mutations that the pedal has
                   \* executed, in order
  activated        \* history: the images that the pedal has switched to in this session

host_vars == <<session, phase, nextRequestId, info, document, calls, result, previous>>
history_vars == <<executed, activated>>
vars == <<dispatcher_vars, requests, host_vars, history_vars>>

Init ==
  /\ DispatcherInit
  /\ requests = <<>>
  /\ session = 0
  /\ phase = "offline"
  /\ nextRequestId = 1
  /\ info = Nil
  /\ document = {}
  /\ calls = [c \in Syncs |-> Idle]
  /\ result = [c \in Syncs |-> "none"]
  /\ previous = [c \in Syncs |-> Nil]
  /\ executed = <<>>
  /\ activated = {}
-----------------------------------------------------------------------------
CommandOf(step) ==
  CASE step = "capabilities" -> "GET_CAPABILITIES"
    [] step \in {"info", "readback"} -> "GET_CONFIG_INFO"
    [] step = "read" -> "READ_CONFIG"
    [] step = "begin" -> "BEGIN_UPLOAD"
    [] step = "write" -> "WRITE_CHUNK"
    [] step = "verify" -> "VERIFY_UPLOAD"
    [] step = "activate" -> "ACTIVATE_UPLOAD"
    [] step = "sample" -> "GET_EXPRESSION_SAMPLE"
    [] step = "calibrate" -> "SET_EXPRESSION_CALIBRATION"
    [] step = "reset" -> "FACTORY_EMPTY_RESET"

FrameOf(call) ==
  [id |-> call.id, command |-> CommandOf(call.step), image |-> call.image, index |-> call.index]

\* The first attempt of the next request of call c.
Ask(c, step, image, index) ==
  LET call == [step |-> step, id |-> nextRequestId, attempt |-> 1, image |-> image, index |-> index]
  IN  /\ calls' = [calls EXCEPT ![c] = call]
      /\ requests' = Append(requests, [session |-> session', frame |-> FrameOf(call)])
      /\ nextRequestId' = nextRequestId + 1

End(c, how) ==
  /\ calls' = [calls EXCEPT ![c] = Idle]
  /\ result' = [result EXCEPT ![c] = how]
  /\ UNCHANGED <<requests, nextRequestId>>

\* Opening a session restarts the request ids.
Connect(c) ==
  LET call == [step |-> "capabilities", id |-> 1, attempt |-> 1, image |-> Nil, index |-> 0]
  IN
  /\ phase = "offline" /\ session < MaxSessions
  /\ session' = session + 1
  /\ phase' = "connecting"
  /\ calls' = [calls EXCEPT ![c] = call]
  /\ requests' = Append(requests, [session |-> session', frame |-> FrameOf(call)])
  /\ nextRequestId' = 2
  /\ info' = Nil
  /\ document' = {}
  /\ result' = [d \in Syncs |-> "none"]
  /\ executed' = <<>>
  /\ activated' = {}
  /\ UNCHANGED <<dispatcher_vars, previous>>

SequenceAfter(image) == SequenceOf(image) + 1

\* The Sync button stays enabled while a sync is in progress and after one has failed.
StartSync(c, config) ==
  LET image == [sequence |-> SequenceAfter(info), config |-> config] IN
  /\ phase = "connected"
  /\ calls[c] = Idle
  /\ SequenceOf(info) < MaxSequence
  /\ nextRequestId + ChunkCount + 3 <= MaxRequestId
  /\ UNCHANGED <<dispatcher_vars, session, phase, info, document, history_vars>>
  /\ Ask(c, "begin", image, 0)
  /\ result' = [result EXCEPT ![c] = "none"]
  /\ previous' = [previous EXCEPT ![c] = active]

\* readExpressionSample, setCalibration and factoryEmptyReset are one request each.
StartOther(c, step) ==
  /\ phase = "connected"
  /\ calls[c] = Idle
  /\ nextRequestId \in OtherIds
  /\ UNCHANGED <<dispatcher_vars, session, phase, info, document, history_vars>>
  /\ \E index \in IF step = "calibrate" THEN {Measured, Narrow} ELSE {0} : Ask(c, step, Nil, index)
  /\ result' = [result EXCEPT ![c] = "none"]
  /\ previous' = [previous EXCEPT ![c] = active]
-----------------------------------------------------------------------------
(***************************************************************************)
(* What a call does with the answer to its request.                        *)
(***************************************************************************)
ReadNext(c, image, index) ==
  IF index <= BanksOf(image)
  THEN /\ Ask(c, "read", image, index)
       /\ UNCHANGED <<phase, result>>
  ELSE /\ End(c, "none")
       /\ phase' = "connected"

Connecting(c, answer) ==
  LET call == calls[c] IN
  \/ /\ call.step = "capabilities"
     /\ Ask(c, "info", Nil, 0)
     /\ UNCHANGED <<phase, info, document, result>>
  \/ /\ call.step = "info"
     /\ info' = answer.image
     /\ ReadNext(c, answer.image, 1)
     /\ UNCHANGED document
  \/ /\ call.step = "read"
     /\ document' = document \cup {answer.image}
     /\ ReadNext(c, call.image, call.index + 1)
     /\ UNCHANGED info

Confirms_BySequence(image, reported) == SequenceOf(reported) = image.sequence
Confirms(image, reported) == reported = image

Syncing(c, answer) ==
  LET call == calls[c] IN
  \/ /\ call.step = "begin"
     /\ Ask(c, "write", call.image, 1)
     /\ UNCHANGED <<info, result>>
  \/ /\ call.step = "write"
     /\ IF call.index < ChunkCount THEN Ask(c, "write", call.image, call.index + 1)
                                   ELSE Ask(c, "verify", call.image, 0)
     /\ UNCHANGED <<info, result>>
  \/ /\ call.step = "verify"
     /\ Ask(c, "activate", call.image, 0)
     /\ UNCHANGED <<info, result>>
  \/ /\ call.step = "activate"
     /\ Ask(c, "readback", call.image, 0)
     /\ UNCHANGED <<info, result>>
  \/ /\ call.step = "readback"
     /\ info' = answer.image
     /\ End(c, IF Confirms(call.image, answer.image) THEN "synchronized" ELSE "failed")
  \/ /\ call.step \in Others
     /\ End(c, "done")
     /\ UNCHANGED info

\* A link that goes down: the pedal has received some of what was sent, and what it has
\* not yet handed over of its answers waits for the next session.
CutLink(unread) ==
  /\ \E n \in 0 .. Len(requests) : requests' = SubSeq(requests, 1, n)
  /\ \E n \in 1 .. Len(unread) + 1 : responses' = SubSeq(unread, n, Len(unread))
  /\ phase' = "offline"

\* The call fails. A session that fails to connect closes its transport, but one that
\* connects and then fails to read the configuration is dropped with its port open.
Fail(c, unread) ==
  /\ calls' = [calls EXCEPT ![c] = Idle]
  /\ result' = [result EXCEPT ![c] = "failed"]
  /\ IF calls[c].step \in {"capabilities", "info"}
     THEN CutLink(unread)
     ELSE /\ phase' = IF calls[c].step = "read" THEN "abandoned" ELSE phase
          /\ responses' = unread
          /\ UNCHANGED requests
  /\ UNCHANGED <<nextRequestId, info, document>>

Waiting == {c \in Syncs : calls[c] # Idle}
IsAnswer(c, response) ==
  /\ calls[c] # Idle
  /\ response.id = calls[c].id
  /\ response.command = CommandOf(calls[c].step)

\* waitForResponse reads the next frame; one that answers no waiting call is ignored.
Deliver ==
  /\ responses # <<>>
  /\ Waiting # {}
  /\ LET answer == Head(responses) IN
     \/ /\ \A c \in Syncs : ~IsAnswer(c, answer)
        /\ responses' = Tail(responses)
        /\ UNCHANGED <<requests, host_vars>>
     \/ \E c \in Syncs :
          /\ IsAnswer(c, answer)
          /\ UNCHANGED <<session, previous>>
          /\ \/ /\ answer.status = "OK"
                /\ responses' = Tail(responses)
                /\ \/ Connecting(c, answer)
                   \/ Syncing(c, answer) /\ UNCHANGED <<phase, document>>
             \/ /\ answer.status # "OK"
                /\ Fail(c, Tail(responses))
  /\ UNCHANGED <<store_vars, cache, runtime_vars, history_vars>>

Timeout_Forever(c) ==
  /\ calls[c] # Idle
  /\ requests' = Append(requests, [session |-> session, frame |-> FrameOf(calls[c])])
  /\ UNCHANGED <<host_vars, dispatcher_vars, history_vars>>

\* 1000 ms without an answer: send the same request again, three attempts in all.
Timeout(c) ==
  LET call == calls[c] IN
  /\ call # Idle
  /\ IF call.attempt < AttemptLimit
     THEN /\ calls' = [calls EXCEPT ![c].attempt = @ + 1]
          /\ requests' = Append(requests, [session |-> session, frame |-> FrameOf(call)])
          /\ UNCHANGED <<phase, responses, nextRequestId, info, document, result>>
     ELSE Fail(c, responses)
  /\ UNCHANGED <<session, previous, store_vars, cache, runtime_vars, history_vars>>
-----------------------------------------------------------------------------
\* The pedal takes the next request off the wire.
Receive ==
  /\ requests # <<>>
  /\ requests' = Tail(requests)
  /\ LET request == Head(requests) IN
     \/ /\ Replay(request.frame)
        /\ UNCHANGED history_vars
     \/ /\ ~IsCached(request.frame)
        /\ Dispatch(request.frame)
        /\ executed' = IF request.session = session /\ request.frame.command \in Mutations
                       THEN Append(executed, request.frame.id) ELSE executed
        /\ activated' = IF active' # active THEN activated \cup {active'} ELSE activated
  /\ UNCHANGED host_vars

LoseRequest ==
  /\ requests # <<>>
  /\ requests' = Tail(requests)
  /\ UNCHANGED <<dispatcher_vars, host_vars, history_vars>>

LoseResponse ==
  /\ responses # <<>>
  /\ responses' = Tail(responses)
  /\ UNCHANGED <<store_vars, cache, runtime_vars, requests, host_vars, history_vars>>

\* The cable is pulled or the page is reloaded: every call ends.
HostLost ==
  /\ calls' = [c \in Syncs |-> Idle]
  /\ result' = [c \in Syncs |-> IF calls[c] # Idle THEN "failed" ELSE result[c]]
  /\ UNCHANGED <<session, nextRequestId, info, document, previous, history_vars>>

Disconnect ==
  /\ phase # "offline" /\ session < MaxSessions
  /\ CutLink(responses)
  /\ HostLost
  /\ UNCHANGED <<store_vars, cache, runtime_vars>>

Restart ==
  /\ PowerCanFail
  /\ session < MaxSessions
  /\ PowerCycle
  /\ requests' = <<>>
  /\ phase' = "offline"
  /\ HostLost

Tick ==
  /\ RefreshConfiguration
  /\ UNCHANGED <<requests, host_vars, history_vars>>

Navigate ==
  /\ ChangeBank
  /\ UNCHANGED <<requests, host_vars, history_vars>>

Next ==
  \/ \E c \in Syncs : Connect(c)
  \/ \E c \in Syncs, config \in Configs : StartSync(c, config)
  \/ \E c \in Syncs, step \in Others : StartOther(c, step)
  \/ Deliver
  \/ \E c \in Syncs : Timeout(c)
  \/ Receive
  \/ LoseRequest
  \/ LoseResponse
  \/ Disconnect
  \/ Restart
  \/ Tick
  \/ Navigate

Spec == Init /\ [][Next]_vars

\* The browser runs its timers and hands over what the pedal has sent.
FairSpec == Spec /\ WF_vars(Deliver) /\ \A c \in Syncs : WF_vars(Timeout(c))
-----------------------------------------------------------------------------
\* What is on the wire, in the session and in its calls.
LinkTypeOK ==
  /\ DispatcherTypeOK
  /\ requests \in Seq(Requests)
  /\ session \in 0 .. MaxSessions
  /\ phase \in {"offline", "connecting", "connected", "abandoned"}
  /\ nextRequestId \in Nat
  /\ info \in Images \cup {Nil}
  /\ document \subseteq Images
  /\ calls \in [Syncs -> Calls]
  /\ result \in [Syncs -> {"none", "synchronized", "done", "failed"}]
  /\ previous \in [Syncs -> Images \cup {Nil}]
  /\ executed \in Seq(Nat)
  /\ activated \subseteq Images

\* However often a request is sent, the pedal executes it once.
NeverExecutedTwice ==
  \A j, k \in DOMAIN executed : j # k => executed[j] # executed[k]

\* A sync that reports success has had the pedal switch to its image, and not to what
\* another sync uploaded meanwhile. (The pedal may have switched again since: a readback
\* that is answered from the cache can be as old as the retry.)
SyncIsTrue ==
  [][ \A c \in Syncs :
        result[c] # "synchronized" /\ result'[c] = "synchronized" =>
          calls[c].image \in activated ]_vars

\* The pedal switches only to an image that is, at that moment, complete in flash, however
\* the requests of two syncs interleave. (A factory reset completes its image itself.)
ActivatedImageIsWhole ==
  [][ active' # active => active' = factory_image \/ \A k \in Chunks : spare[k] = active' ]_vars

\* The configuration a connection shows is the one that is active, not an answer that an
\* earlier session left in the replay cache or on the wire.
ConnectShowsActive ==
  [][ phase = "connecting" /\ phase' = "connected" /\ info' # Nil =>
        info' = active /\ document' = {active} ]_vars

\* A connection that finds no configuration may be wrong: it takes two requests, so their
\* answers may still be in the replay cache from before a factory reset.
ConnectFindsActive ==
  [][ phase = "connecting" /\ phase' = "connected" => info' = active ]_vars

Accepts(c) ==
  \/ /\ calls[c].step \in {"begin", "write", "verify", "activate"}
     /\ calls'[c].step \in {"write", "verify", "activate", "readback"}
     /\ calls'[c].id # calls[c].id
  \/ /\ calls[c].step \in {"calibrate", "reset"}
     /\ calls'[c] = Idle /\ result'[c] = "done"
IsExecuted(id) == \E k \in DOMAIN executed : executed[k] = id

\* When the host takes a mutation as done, the pedal has executed it in this session: wherever
\* the session has read an image, for that takes 130 requests, which push what earlier
\* sessions left out of the replay cache.
AcceptedIsExecuted ==
  [][ \A c \in Syncs : Accepts(c) /\ info # Nil => IsExecuted(calls[c].id) ]_vars

\* A sync that fails leaves the configuration that was active when it began.
FailedSyncLeavesPrevious ==
  [][ \A c \in Syncs :
        calls[c].step \in {"begin", "write", "verify", "activate", "readback"}
          /\ result[c] # "failed" /\ result'[c] = "failed" =>
        active' = previous[c] ]_vars

\* Once a sync has succeeded and the control loop has looked at the store's status, the
\* pedal plays the configuration that was synchronized.
SynchronizedIsLive ==
  /\ phase = "connected" /\ Waiting = {}
  /\ \E c \in Syncs : result[c] = "synchronized"
  /\ snapshot = Status
  => bank = active

\* Every call ends, whatever the link does.
CallsEnd == \A c \in Syncs : calls[c] # Idle ~> calls[c] = Idle
=============================================================================

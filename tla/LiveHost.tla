------------------------------ MODULE LiveHost ------------------------------
(***************************************************************************)
(* The live-translation page: the device layer of docs/shop/live-host.js   *)
(* with the relay adapter docs/shop/qwen-client.js, and the little of the  *)
(* page's own Glon program (docs/shop/live.html) that decides which button *)
(* can be clicked.                                                         *)
(*                                                                         *)
(* A session is one qwen object with its socket.  JavaScript runs to the   *)
(* end of a handler, so each handler is one action; what waits in between  *)
(* is state: the sockets, the getUserMedia promise of a session, and the   *)
(* zero-delay timers by which deliver hands events to Glon.                *)
(***************************************************************************)
EXTENDS Integers, Sequences, FiniteSets

CONSTANTS Sessions,   \* how many times listening may be started: 1 .. n
          MaxTimers,  \* bound on undelivered events
          Frames,     \* the input frames the audio callback may be given
          Rates,      \* sample rates of the audio context, in units of 100 Hz
          Unit        \* a sample of value 1.0 in the frames

VARIABLES configured, \* is there a relay URL?
          qwen,       \* the session in use, 0 for null
          socket,     \* the readyState of each session's socket
          asking,     \* sessions whose getUserMedia promise is pending
          stream,     \* the session whose stream the host holds, 0 for null
          tracks,     \* the streams whose tracks are live
          failed, state,      \* `failed` and the page's data-state
          timers,             \* events handed to setTimeout, in order
          status, errorText,  \* Glon's status-text, and is error-text shown?
          packet              \* the PCM frame of the last audio callback

vars == <<configured, qwen, socket, asking, stream, tracks, failed, state,
          timers, status, errorText, packet>>
device == <<configured, qwen, socket, asking, stream, tracks>>

Texts == {"Ready", "Starting", "Listening", "Stopped", "Error"}
States == {"none", "starting", "listening", "stopped", "error"}
Events == [token : {"qwen-status"}, text : Texts]
          \cup [token : {"qwen-error", "qwen-text"}, text : {"-"}]

TypeOK ==
    /\ configured \in BOOLEAN /\ failed \in BOOLEAN /\ errorText \in BOOLEAN
    /\ qwen \in Sessions \cup {0} /\ stream \in Sessions \cup {0}
    /\ socket \in [Sessions -> {"none", "connecting", "open", "failing",
                                "closing", "closed"}]
    /\ asking \subseteq Sessions /\ tracks \subseteq Sessions
    /\ state \in States /\ status \in Texts
    /\ timers \in Seq(Events) /\ packet \in Seq(Int)

Init ==
    /\ configured \in BOOLEAN /\ failed = FALSE /\ errorText = FALSE
    /\ qwen = 0 /\ stream = 0 /\ asking = {} /\ tracks = {}
    /\ socket = [s \in Sessions |-> "none"]
    /\ state = "none" /\ status = "Ready" /\ timers = <<>> /\ packet = <<>>

-----------------------------------------------------------------------------
(* Events for Glon: always by a timer, so never inside a WASM call.         *)

Status(text) == [token |-> "qwen-status", text |-> text]
Event(token) == [token |-> token, text |-> "-"]

deliver(events) == timers' = timers \o events

setStatus(st, events) ==
    /\ state' = st
    /\ deliver(events)

\* The text Glon is told with each state.
TextOf(st) == CASE st = "starting" -> "Starting" [] st = "listening" -> "Listening"
                [] st = "stopped" -> "Stopped" [] st = "error" -> "Error"
                [] OTHER -> "Ready"

\* mutant: the text is sent before the status that clears it
ErrorEventsSwapped == <<Event("qwen-error"), Status("Error")>>

\* setStatus("error", "Error"); deliver("qwen-error", ...)
ErrorEvents == <<Status("Error"), Event("qwen-error")>>

Room(n) == Len(timers) + n <= MaxTimers

-----------------------------------------------------------------------------
(* The microphone.                                                          *)

TruncDiv(a, b) == IF a < 0 THEN -((-a) \div b) ELSE a \div b
Smaller(a, b) == IF a < b THEN a ELSE b

\* Linear interpolation to 16 kHz; the samples stay exact, over rate 160.
downsampleTo16k(input, rate) ==
    LET n == Len(input)
        length == (2 * n * 160 + rate) \div (2 * rate)
        At(i) == LET pos == i * rate
                     left == pos \div 160
                     right == Smaller(left + 1, n - 1)
                     frac == pos % 160
                 IN  input[left + 1] * (160 - frac) + input[right + 1] * frac
    IN  [k \in 1 .. length |-> At(k - 1)]

\* setInt16 keeps the low sixteen bits, as a signed number.
Int16(v) == LET w == v % 65536 IN IF w >= 32768 THEN w - 65536 ELSE w

\* mutant: samples beyond full scale are not clipped
ClampNot(v, one) == v

Clamp(v, one) == IF v > one THEN one ELSE IF v < -one THEN -one ELSE v

floatToPCM16(samples, one) ==
    [k \in DOMAIN samples |->
        LET s == Clamp(samples[k], one)
        IN  Int16(TruncDiv(s * (IF s < 0 THEN 32768 ELSE 32767), one))]

\* One callback of the audio thread on the stream the host holds: nothing is
\* sent without a session, and sendAudio drops the frame unless it is open.
AudioFrame(frame, rate) ==
    /\ stream # 0 /\ qwen # 0 /\ socket[qwen] = "open"
    /\ packet' = floatToPCM16(downsampleTo16k(frame, rate), 160 * Unit)
    /\ UNCHANGED <<device, failed, state, timers, status, errorText>>

stopMicrophone ==
    /\ tracks' = tracks \ {stream}
    /\ stream' = 0

-----------------------------------------------------------------------------
(* Glon's intents, which arrive as a host call of a clicked button.         *)

\* qwen.close(): a socket that was never open fails, any other closes.
Closed(s) == CASE socket[s] = "connecting" -> "failing"
               [] socket[s] = "open" -> "closing"
               [] OTHER -> socket[s]

\* stopListening, up to its status.
Release ==
    /\ stopMicrophone
    /\ qwen' = 0
    /\ socket' = [s \in Sessions |-> IF s = qwen THEN Closed(s) ELSE socket[s]]

Unused == {s \in Sessions : socket[s] = "none"}

\* START with a session at hand: startListening returns at once.
StartAgain ==
    /\ status # "Listening" /\ qwen # 0
    /\ UNCHANGED vars

StartUnconfigured ==
    /\ status # "Listening" /\ qwen = 0 /\ ~configured
    /\ Room(2) /\ setStatus("error", ErrorEvents)
    /\ UNCHANGED <<device, failed, status, errorText, packet>>

startListening ==
    /\ status # "Listening" /\ qwen = 0 /\ configured /\ Unused # {}
    /\ Room(1) /\ setStatus("starting", <<Status("Starting")>>)
    /\ failed' = FALSE
    /\ \E s \in Unused :
         /\ \A t \in Unused : s <= t
         /\ qwen' = s
         /\ socket' = [socket EXCEPT ![s] = "connecting"]
    /\ UNCHANGED <<configured, asking, stream, tracks, status, errorText, packet>>

\* STOP, the button shown while Glon's status is "Listening".
stopListening ==
    /\ status = "Listening"
    /\ Release
    /\ Room(1) /\ setStatus("stopped", <<Status("Stopped")>>)
    /\ UNCHANGED <<configured, asking, failed, status, errorText, packet>>

-----------------------------------------------------------------------------
(* The socket of a session, in use or not, and its callbacks.               *)

\* onopen: ask for the microphone.
Opened(s) ==
    /\ socket[s] = "connecting"
    /\ socket' = [socket EXCEPT ![s] = "open"]
    /\ asking' = asking \cup {s}
    /\ UNCHANGED <<configured, qwen, stream, tracks, failed, state, timers,
                   status, errorText, packet>>

\* mutant: the error flag is not tested
StoppedAlways == setStatus("stopped", <<Status("Stopped")>>)

\* A stop of the relay is shown unless an error was shown before it.
Stopped == IF failed THEN UNCHANGED <<state, timers>>
                     ELSE setStatus("stopped", <<Status("Stopped")>>)

\* handle: a text goes to Glon, a status only if it is the final stop.
Message(s, kind) ==
    /\ socket[s] = "open"
    /\ Room(2)
    /\ \/ kind = "status" /\ UNCHANGED <<failed, state, timers>>
       \/ kind = "stopped" /\ Stopped /\ UNCHANGED failed
       \/ kind = "text" /\ deliver(<<Event("qwen-text")>>) /\ UNCHANGED <<failed, state>>
       \/ kind = "error" /\ setStatus("error", ErrorEvents) /\ failed' = TRUE
    /\ UNCHANGED <<device, status, errorText, packet>>

\* onerror; the browser then closes the socket.
SocketError(s) ==
    /\ socket[s] \in {"connecting", "open", "failing"}
    /\ socket' = [socket EXCEPT ![s] = "closing"]
    /\ failed' = TRUE
    /\ Room(2) /\ setStatus("error", ErrorEvents)
    /\ UNCHANGED <<configured, qwen, asking, stream, tracks, status, errorText, packet>>

\* onclose, whoever closed it.
SocketClosed(s) ==
    /\ socket[s] \in {"open", "closing"}
    /\ socket' = [socket EXCEPT ![s] = "closed"]
    /\ Room(1) /\ Stopped
    /\ UNCHANGED <<configured, qwen, asking, stream, tracks, failed, status,
                   errorText, packet>>

-----------------------------------------------------------------------------
(* The promise of getUserMedia.                                             *)

startMicrophone(s) ==
    /\ s \in asking
    /\ asking' = asking \ {s}
    /\ stream' = s
    /\ tracks' = tracks \cup {s}
    /\ Room(1) /\ setStatus("listening", <<Status("Listening")>>)
    /\ UNCHANGED <<configured, qwen, socket, failed, status, errorText, packet>>

MicrophoneRefused(s) ==
    /\ s \in asking
    /\ asking' = asking \ {s}
    /\ failed' = TRUE
    /\ Release
    /\ Room(3) /\ setStatus("error", <<Status("Stopped")>> \o ErrorEvents)
    /\ UNCHANGED <<configured, status, errorText, packet>>

\* A timer fires: the page's program takes the event and draws itself.
TimerFires ==
    /\ timers # <<>>
    /\ timers' = Tail(timers)
    /\ LET e == Head(timers) IN
         \/ /\ e.token = "qwen-status"
            /\ status' = e.text /\ errorText' = FALSE
         \/ /\ e.token = "qwen-error"
            /\ status' = "Error" /\ errorText' = TRUE
         \/ /\ e.token = "qwen-text"
            /\ UNCHANGED <<status, errorText>>
    /\ UNCHANGED <<device, failed, state, packet>>

Next ==
    \/ StartAgain \/ StartUnconfigured \/ startListening \/ stopListening
    \/ \E s \in Sessions :
         \/ Opened(s) \/ SocketError(s) \/ SocketClosed(s)
         \/ startMicrophone(s) \/ MicrophoneRefused(s)
         \/ \E kind \in {"status", "stopped", "text", "error"} : Message(s, kind)
    \/ \E frame \in Frames, rate \in Rates : AudioFrame(frame, rate)
    \/ TimerFires

Spec == Init /\ [][Next]_vars

-----------------------------------------------------------------------------
(* Properties.                                                              *)

\* Once every timer has fired, the page shows what the host last decided: the
\* status of its data-state, and an error text exactly with an error.  Each
\* status clears the error text, so the order of the deliveries counts.
StatusAgrees ==
    timers = <<>> => /\ status = TextOf(state)
                     /\ errorText = (state = "error")

\* "Surface only a clean terminal stop": what a socket says when it closes
\* never replaces an error by "stopped"; only the user's STOP does, which
\* releases the session.
KeepsError == state = "error" /\ state' = "stopped" => qwen # 0 /\ qwen' = 0
ErrorIsKept == [][KeepsError]_vars

\* The PCM sent has the duration of the input to the nearest sample, and no
\* sample wraps round: each is between the smallest and the largest of the
\* input, clipped at full scale.
Scaled(v) == CASE v >= Unit -> 32767 [] v <= -Unit -> -32768
               [] OTHER -> TruncDiv(v * (IF v < 0 THEN 32768 ELSE 32767), Unit)
Spans(frame, out) ==
    \A k \in DOMAIN out : \E i, j \in DOMAIN frame :
        Scaled(frame[i]) - 1 <= out[k] /\ out[k] <= Scaled(frame[j]) + 1
AudioIsFaithful ==
    packet # <<>> => \E frame \in Frames, rate \in Rates :
        /\ 2 * (Len(packet) * rate - Len(frame) * 160) \in -rate .. rate
        /\ Spans(frame, packet)

\* The page's own words: "Microphone idle" is what its hint says unless it
\* says "Listening", so once the timers have fired no track may be live then.
MicrophoneIdleIsIdle ==
    (timers = <<>> /\ status # "Listening") => tracks = {}

(* What every step keeps.  The last event that tells Glon something, when it  *)
(* is delivered, brings the page to the host's state.  One session at a time  *)
(* has an open socket or waits for the microphone, and "Listening" is said    *)
(* once, after the microphone has come and before the session is released.    *)
Tells(k) == timers[k].token # "qwen-text"
LastTold(k) == Tells(k) /\ \A j \in DOMAIN timers : Tells(j) => j <= k
Announced == IF state = "error" THEN Event("qwen-error") ELSE Status(TextOf(state))
Pending == {k \in DOMAIN timers : timers[k] = Status("Listening")}

Inv == /\ TypeOK /\ StatusAgrees /\ AudioIsFaithful
       /\ \A k \in DOMAIN timers : LastTold(k) => timers[k] = Announced
       /\ (\A k \in DOMAIN timers : ~Tells(k)) =>
            status = TextOf(state) /\ errorText = (state = "error")
       /\ state = "error" => failed \/ ~configured
       /\ ~configured => qwen = 0 /\ \A s \in Sessions : socket[s] = "none"
       /\ \A s \in Sessions \ {qwen} : socket[s] \in {"none", "closing", "closed"}
       /\ \A s \in Sessions : socket[s] # "failing"
       /\ asking \subseteq {qwen} \ {0}
       /\ \A s \in asking : socket[s] \in {"open", "closing", "closed"}
       /\ qwen # 0 /\ (socket[qwen] = "connecting" \/ asking # {}) =>
            status # "Listening" /\ Pending = {}
       /\ Pending # {} => qwen # 0 /\ status # "Listening"
       /\ \A j, k \in Pending : j = k
       /\ qwen = 0 /\ status = "Listening" => state = "stopped"
=============================================================================

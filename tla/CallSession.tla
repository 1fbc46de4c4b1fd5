----------------------------- MODULE CallSession ----------------------------
(***************************************************************************)
(* One telephone call: the handler of the Twilio websocket and the tasks   *)
(* that bridge it to the Deepgram agent (app/services/websocket_service.py)*)
(*                                                                         *)
(* The handler looks the restaurant up, connects to the agent and waits    *)
(* for the first of five tasks to end; then it ends the others.  Two       *)
(* guards and the agent's own functions may decide that the call is over:  *)
(* they inject a farewell and set closing_after_farewell, and the receiver *)
(* closes the sockets once the agent has spoken it.  A filler may be       *)
(* injected while a function runs.                                         *)
(*                                                                         *)
(* Each action runs to the next await that can suspend.  A send suspends   *)
(* only while the socket is congested; when it goes on the message leaves  *)
(* and the statements after it run before any answer can arrive, so that   *)
(* both are one step.  Audio is left out, and so are the texts: a message  *)
(* is its origin.  The agent is external: it refuses an injection while it *)
(* speaks, with a warning, and ends each utterance with AgentAudioDone.    *)
(***************************************************************************)
EXTENDS Naturals, Sequences

CONSTANTS
  MaxTalks,     \* bound: the agent's own utterances and the fillers injected
  MaxCalls      \* bound: function calls of the agent

ASSUME CallSessionAssumption ==
  MaxTalks \in Nat /\ MaxCalls \in Nat

\* buffer_flusher, twilio_sender and sts_sender are one task, "helpers": the
\* first of them to end wakes the handler, which then cancels the others.
Bridge    == {"twilio", "helpers", "receiver"}
Early     == {"twilio", "helpers"}   \* created before the lookups
Guards    == {"timeout", "idle"}
Farewells == {"timeout", "idle", "bye"}
Messages  == Farewells \cup {"talk", "filler", "reply"}
Functions == {"escalate", "end", "transfer"}   \* any other has no effects,
                                               \* as these when they fail
None      == "none"

VARIABLES
  handler,     \* where twilio_websocket_handler is
  task,        \* where each task is
  cancelled,   \* tasks that are cancelled and have not noticed
  shut,        \* shutdown_event
  twilio,      \* the socket to Twilio is open
  streamed,    \* the start event has arrived: the stream id is known
  sts,         \* the socket to the agent: none, open, closed
  function,    \* the function the receiver awaits
  \* StreamState
  closing, started, speaking,
  \* the status in the row of the call, and whether the receiver got going
  status, heard,
  \* the agent: events on their way, what it speaks, what it has left to do
  inbox, speech, talks, calls,
  filled,      \* history: a filler was injected
  unsaid       \* history: a farewell was refused, or could not be sent

agentVars == <<inbox, speech, talks, calls, filled, unsaid>>
stateVars == <<closing, started, speaking>>
rowVars   == <<status, heard>>
netVars   == <<twilio, streamed, sts>>
taskVars  == <<handler, task, cancelled>>
vars == <<taskVars, shut, netVars, function, stateVars, rowVars, agentVars>>

Ended(t)   == task[t] \in {None, "done"}
Running(t) == ~Ended(t)
To(t, s)   == task' = [task EXCEPT ![t] = s]
Ends(t)    == To(t, "done") /\ cancelled' = cancelled \ {t}

(* The next step of a cancelled task is its end.                             *)
At(t, s) == task[t] = s /\ t \notin cancelled

Init ==
  /\ handler = "setup"
  /\ task = [t \in Bridge \cup Guards |-> IF t \in Early THEN "run" ELSE None]
  /\ cancelled = {} /\ shut = FALSE
  /\ twilio = TRUE /\ streamed = FALSE /\ sts = None
  /\ function = None
  /\ closing = FALSE /\ started = FALSE /\ speaking = FALSE
  /\ status = None /\ heard = FALSE
  /\ inbox = <<>> /\ speech = None
  /\ talks = 0 /\ calls = 0 /\ filled = FALSE /\ unsaid = FALSE

-----------------------------------------------------------------------------
(* The agent. *)

Event(type, of) == [type |-> type, of |-> of]

Listening == sts = "open" /\ handler = "serving"

(* AgentStartedSpeaking and the ConversationText that goes with it are one  *)
(* event here: the first sets farewell_started by itself, whatever the text *)
(* is, so that comparing the text with farewell_expected_text adds nothing. *)
Speak(m) ==
  /\ speech' = m
  /\ inbox' = Append(inbox, Event("started", m))

(* sts_ws.send of an InjectAgentMessage.  On a closed socket it raises,     *)
(* which the callers log.  Once the bridge is gathered nobody reads what    *)
(* the agent does with it.                                                  *)
Inject(m) ==
  /\ \/ ~Listening /\ UNCHANGED <<inbox, speech>>
     \/ Listening /\ speech = None /\ Speak(m)
     \/ /\ Listening /\ speech # None
        /\ inbox' = Append(inbox, Event("warning", m))
        /\ UNCHANGED speech
  /\ unsaid' = (unsaid \/ (m \in Farewells /\ (~Listening \/ speech # None)))

(* The agent waits for the answer to its call.                             *)
Awaiting == function # None \/ \E i \in 1..Len(inbox) : inbox[i].type = "call"

AgentTalks ==
  /\ Listening /\ speech = None
  /\ ~Awaiting /\ talks < MaxTalks
  /\ Speak("talk")
  /\ talks' = talks + 1
  /\ UNCHANGED <<taskVars, shut, netVars, function, stateVars, rowVars, calls, filled, unsaid>>

(* An utterance outlasts the handling of the events before it, unless the   *)
(* receiver awaits a function or the end of its side effects; and Twilio    *)
(* starts the stream before the greeting is over, or never.                 *)
SpeechEnds ==
  /\ Listening /\ speech # None
  /\ task["receiver"] # "stream"
  /\ inbox # <<>> => task["receiver"] # "read"
  /\ inbox' = Append(inbox, Event("done", speech))
  /\ speech' = None
  /\ UNCHANGED <<taskVars, shut, netVars, function, stateVars, rowVars, talks, calls, filled,
                 unsaid>>

AgentCalls(f) ==
  /\ Listening
  /\ ~Awaiting /\ calls < MaxCalls
  /\ inbox' = Append(inbox, Event("call", f))
  /\ calls' = calls + 1
  /\ UNCHANGED <<taskVars, shut, netVars, function, stateVars, rowVars, speech, talks, filled,
                 unsaid>>

(* The agent's service closes the socket, or the network does. *)
AgentGone ==
  /\ Listening
  /\ sts' = "closed" /\ speech' = None
  /\ UNCHANGED <<taskVars, shut, twilio, streamed, function, stateVars, rowVars, inbox, talks,
                 calls, filled, unsaid>>

-----------------------------------------------------------------------------
(* The tasks of the Twilio side. *)

StreamStarts ==
  /\ At("twilio", "run") /\ twilio /\ ~streamed
  /\ streamed' = TRUE
  /\ UNCHANGED <<taskVars, shut, twilio, sts, function, stateVars, rowVars, agentVars>>

(* Once the bridge is gathered a hangup changes nothing.                    *)
CallerHangsUp ==
  /\ twilio /\ handler \in {"setup", "refusing", "connecting", "serving"}
  /\ twilio' = FALSE
  /\ UNCHANGED <<taskVars, shut, streamed, sts, function, stateVars, rowVars, agentVars>>

(* twilio_receiver: the socket closes, or a message finds the event set.    *)
TwilioEnds ==
  /\ At("twilio", "run") /\ (~twilio \/ shut)
  /\ Ends("twilio")
  /\ shut' = TRUE
  /\ UNCHANGED <<handler, netVars, function, stateVars, rowVars, agentVars>>

(* One of the helpers ends: all do with the event, twilio_sender with the   *)
(* socket to Twilio, sts_sender with the other.                             *)
HelperEnds ==
  /\ At("helpers", "run")
  /\ shut \/ ~twilio \/ sts = "closed"
  /\ To("helpers", "fewer")
  /\ UNCHANGED <<handler, cancelled, shut, netVars, function, stateVars, rowVars, agentVars>>

-----------------------------------------------------------------------------
(* sts_receiver. *)

Receiving(s) == At("receiver", s)

(* Mutant: the update forgets that an escalated call stays escalated. *)
PlainClosed(s) == IF s = None THEN None ELSE "completed"

(* update_call_cost, in the finally block of the receiver. *)
Closed(s) == IF s = "in_progress" THEN "completed" ELSE s

Escalated(s) == IF s = None THEN None ELSE "escalated"

(* The try block begins only once the stream id is known. *)
ReceiverStarts ==
  /\ Receiving("stream") /\ streamed
  /\ To("receiver", "read")
  /\ heard' = TRUE
  /\ UNCHANGED <<handler, cancelled, shut, netVars, function, stateVars, status, agentVars>>

(* Mutant: the warning that the farewell was refused is not looked at. *)
QuietFarewellBegins(e) == closing /\ e.type = "started"

(* _maybe_finish_farewell, and the warning that a farewell was refused.     *)
FarewellOver(e)   == closing /\ started /\ e.type = "done"
FarewellBegins(e) == closing /\ e.type \in {"started", "warning"}

Read(e) ==
  /\ inbox' = Tail(inbox)
  /\ IF FarewellOver(e)
     THEN To("receiver", "playback") /\ UNCHANGED <<function, stateVars>>
     ELSE /\ started'  = (started \/ FarewellBegins(e))
          /\ speaking' = CASE e.type = "started" -> TRUE
                           [] e.type = "done"    -> FALSE
                           [] OTHER              -> speaking
          /\ IF e.type = "call"
             THEN To("receiver", "function") /\ function' = e.of
             ELSE UNCHANGED <<task, function>>
          /\ UNCHANGED closing

Receive ==
  /\ Receiving("read") /\ inbox # <<>>
  /\ Read(Head(inbox))
  /\ UNCHANGED <<handler, cancelled, shut, netVars, rowVars, speech, talks, calls, filled, unsaid>>

(* _route_function_calls: the function failed, or asked for nothing.        *)
FunctionReturns ==
  /\ Receiving("function")
  /\ To("receiver", "read") /\ function' = None
  /\ UNCHANGED <<handler, cancelled, shut, netVars, stateVars, rowVars, agentVars>>

(* escalate_to_human without forwarding: a message, and the call goes on.   *)
EscalationReturns ==
  /\ Receiving("function") /\ function = "escalate"
  /\ status' = Escalated(status)
  /\ Inject("reply")
  /\ To("receiver", "read") /\ function' = None
  /\ UNCHANGED <<handler, cancelled, shut, netVars, stateVars, heard, talks, calls, filled>>

(* end_call, or a transfer: a farewell, and after a delay the closing mark. *)
FarewellReturns ==
  /\ Receiving("function") /\ function \in {"end", "transfer"}
  /\ status' = IF function = "transfer" THEN Escalated(status) ELSE status
  /\ Inject("bye")
  /\ To("receiver", IF sts = "open" THEN "said" ELSE "unsaid")
  /\ UNCHANGED <<handler, cancelled, shut, netVars, function, stateVars, heard, talks,
                 calls, filled>>

(* Mutant: the mark is set, but what is awaited is not reset. *)
StickyEffectsEnd ==
  /\ Receiving("said") \/ Receiving("unsaid")
  /\ closing' = TRUE
  /\ started' = TRUE
  /\ To("receiver", "read") /\ function' = None
  /\ UNCHANGED <<handler, cancelled, shut, netVars, speaking, rowVars, agentVars>>

EffectsEnd ==
  /\ Receiving("said") \/ Receiving("unsaid")
  /\ closing' = TRUE
  /\ started' = Receiving("unsaid")
  /\ To("receiver", "read") /\ function' = None
  /\ UNCHANGED <<handler, cancelled, shut, netVars, speaking, rowVars, agentVars>>

(* _graceful_shutdown_call: the event, the socket to Twilio, the other.     *)
PlaybackEnds ==
  /\ Receiving("playback")
  /\ To("receiver", "hangup")
  /\ shut' = TRUE
  /\ UNCHANGED <<handler, cancelled, netVars, function, stateVars, rowVars, agentVars>>

HangUp ==
  /\ Receiving("hangup")
  /\ twilio' = FALSE
  /\ To("receiver", "leave")
  /\ UNCHANGED <<handler, cancelled, shut, streamed, sts, function, stateVars, rowVars, agentVars>>

ReceiverEnds ==
  /\ \/ Receiving("leave") /\ sts' = "closed"
     \/ Receiving("read") /\ inbox = <<>> /\ sts = "closed" /\ UNCHANGED sts
  /\ To("receiver", "done")
  /\ status' = Closed(status)
  /\ UNCHANGED <<handler, cancelled, shut, twilio, streamed, function, stateVars, heard,
                 agentVars>>

(* FillerManager: the tests of the clock are left open. *)
Filler ==
  /\ Receiving("function") /\ ~closing /\ ~speaking /\ talks < MaxTalks
  /\ Inject("filler")
  /\ talks' = talks + 1 /\ filled' = TRUE
  /\ UNCHANGED <<taskVars, shut, netVars, function, stateVars, rowVars, calls>>

-----------------------------------------------------------------------------
(* _call_timeout_guard and _call_idle_guard. *)

GuardExpires(g) ==
  /\ At(g, "wait") /\ ~shut /\ ~closing
  /\ To(g, "send")
  /\ UNCHANGED <<handler, cancelled, shut, netVars, function, stateVars, rowVars, agentVars>>

GuardFires(g) ==
  /\ At(g, "send")
  /\ Inject(g)
  /\ closing' = TRUE /\ started' = FALSE
  /\ To(g, "done")
  /\ UNCHANGED <<handler, cancelled, shut, netVars, function, speaking, rowVars, talks,
                 calls, filled>>

GuardQuits(g) ==
  /\ At(g, "wait") /\ (shut \/ closing)
  /\ To(g, "done")
  /\ UNCHANGED <<handler, cancelled, shut, netVars, function, stateVars, rowVars, agentVars>>

-----------------------------------------------------------------------------
(* twilio_websocket_handler *)

RunningOf(tasks) == {t \in tasks : Running(t)}

(* The outer finally block begins. *)
Clean ==
  /\ handler' = "cleaning"
  /\ shut' = TRUE
  /\ cancelled' = cancelled \cup RunningOf(Early \cup Guards)

Refuse ==
  /\ handler = "setup"
  /\ handler' = "refusing"
  /\ UNCHANGED <<task, cancelled, shut, netVars, function, stateVars, rowVars, agentVars>>

RefusalEnds ==
  /\ handler = "refusing"
  /\ Clean
  /\ UNCHANGED <<task, netVars, function, stateVars, rowVars, agentVars>>

Resolve ==
  /\ handler = "setup"
  /\ handler' = "connecting"
  /\ UNCHANGED <<task, cancelled, shut, netVars, function, stateVars, rowVars, agentVars>>

(* A lookup, the connection or the first message fails. *)
Fail ==
  /\ handler \in {"setup", "connecting"}
  /\ Clean
  /\ UNCHANGED <<task, netVars, function, stateVars, rowVars, agentVars>>

(* _create_call_session gives no id when the insert fails. *)
Serve ==
  /\ handler = "connecting"
  /\ handler' = "serving"
  /\ sts' = "open"
  /\ status' \in {None, "in_progress"}
  /\ task' = [t \in DOMAIN task |-> IF t \in Guards THEN "wait"
                                    ELSE IF t = "receiver" THEN "stream"
                                    ELSE task[t]]
  /\ UNCHANGED <<cancelled, shut, twilio, streamed, function, stateVars, heard, agentVars>>

(* What the agent has still sent is lost.                                   *)
Gather ==
  /\ handler = "serving" /\ \E t \in Bridge : task[t] \in {"fewer", "done"}
  /\ handler' = "gathering"
  /\ shut' = TRUE
  /\ cancelled' = RunningOf(Bridge)
  /\ inbox' = <<>> /\ speech' = None
  /\ UNCHANGED <<task, netVars, function, stateVars, rowVars, talks, calls, filled, unsaid>>

(* A cancelled task runs its finally block and ends.  That one helper ends  *)
(* before another changes nothing: they go together.                        *)
HelpersNotice ==
  LET T == cancelled \ {"receiver"} IN
  /\ T # {}
  /\ task' = [t \in DOMAIN task |-> IF t \in T THEN "done" ELSE task[t]]
  /\ cancelled' = cancelled \ T
  /\ UNCHANGED <<handler, shut, netVars, function, stateVars, rowVars, agentVars>>

(* Mutant: the row is closed in the loop only. *)
BareReceiverNotices ==
  /\ "receiver" \in cancelled
  /\ Ends("receiver")
  /\ function' = None
  /\ UNCHANGED <<handler, shut, netVars, stateVars, rowVars, agentVars>>

(* Before the stream id is known there is no finally block.                 *)
ReceiverNotices ==
  /\ "receiver" \in cancelled
  /\ Ends("receiver")
  /\ function' = None
  /\ status' = IF task["receiver"] = "stream" THEN status ELSE Closed(status)
  /\ UNCHANGED <<handler, shut, netVars, stateVars, heard, agentVars>>

Gathered ==
  /\ handler = "gathering" /\ \A t \in Bridge : Ended(t)
  /\ handler' = "settling"
  /\ UNCHANGED <<task, cancelled, shut, netVars, function, stateVars, rowVars, agentVars>>

(* The guards have returned by themselves; the socket to the agent closes.  *)
Settled ==
  /\ handler = "settling" /\ \A g \in Guards : Ended(g)
  /\ Clean
  /\ sts' = "closed"
  /\ UNCHANGED <<task, twilio, streamed, function, stateVars, rowVars, agentVars>>

(* Mutant: the handler does not await what it cancelled. *)
HastyFinish ==
  /\ handler = "cleaning"
  /\ handler' = "done"
  /\ twilio' = FALSE
  /\ UNCHANGED <<task, cancelled, shut, streamed, sts, function, stateVars, rowVars, agentVars>>

Finish ==
  /\ handler = "cleaning" /\ \A t \in Early \cup Guards : Ended(t)
  /\ handler' = "done"
  /\ twilio' = FALSE
  /\ UNCHANGED <<task, cancelled, shut, streamed, sts, function, stateVars, rowVars, agentVars>>

-----------------------------------------------------------------------------
AgentStep ==
  AgentTalks \/ SpeechEnds \/ AgentGone \/ \E f \in Functions : AgentCalls(f)

ReceiverStep ==
  \/ ReceiverStarts \/ Receive
  \/ FunctionReturns \/ EscalationReturns \/ FarewellReturns \/ EffectsEnd
  \/ PlaybackEnds \/ HangUp \/ ReceiverEnds

HandlerStep ==
  \/ Refuse \/ RefusalEnds \/ Resolve \/ Fail \/ Serve
  \/ Gather \/ Gathered \/ Settled \/ Finish

Next ==
  \/ AgentStep
  \/ StreamStarts \/ CallerHangsUp \/ TwilioEnds \/ HelperEnds
  \/ ReceiverStep \/ Filler
  \/ \E g \in Guards : GuardExpires(g) \/ GuardFires(g) \/ GuardQuits(g)
  \/ HandlerStep \/ HelpersNotice \/ ReceiverNotices

(* The event loop runs every task that is ready; functions, lookups and     *)
(* closing handshakes have timeouts; the agent ends what it says.  Nobody   *)
(* has to hang up or to fall silent, and no helper has to see the event.    *)
Fairness ==
  /\ WF_vars(TwilioEnds) /\ WF_vars(HandlerStep) /\ WF_vars(ReceiverStep) /\ WF_vars(SpeechEnds)
  /\ WF_vars(GuardExpires("timeout"))
  /\ \A g \in Guards : WF_vars(GuardFires(g)) /\ WF_vars(GuardQuits(g))
  /\ WF_vars(HelpersNotice) /\ WF_vars(ReceiverNotices)

Spec == Init /\ [][Next]_vars /\ Fairness

-----------------------------------------------------------------------------
Statuses == {None, "in_progress", "escalated", "completed"}
Events   == [type : {"started", "done", "warning"}, of : Messages]
            \cup [type : {"call"}, of : Functions]

(* The handler, the tasks, the sockets and the state of the call hold what  *)
(* twilio_websocket_handler and StreamState may put there.                  *)
TypeOK ==
  /\ handler \in {"setup", "refusing", "connecting", "serving", "gathering", "settling",
                  "cleaning", "done"}
  /\ task \in [Bridge \cup Guards ->
                 {None, "run", "fewer", "stream", "read", "function", "said", "unsaid", "playback",
                  "hangup", "leave", "wait", "send", "done"}]
  /\ cancelled \subseteq {t \in Bridge \cup Guards : Running(t)}
  /\ {shut, twilio, streamed, closing, started, speaking, heard, filled, unsaid}
       \subseteq BOOLEAN
  /\ sts \in {None, "open", "closed"}
  /\ function \in Functions \cup {None}
  /\ function # None <=> task["receiver"] \in {"function", "said", "unsaid"}
  /\ status \in Statuses
  /\ inbox \in Seq(Events)
  /\ speech \in Messages \cup {None}
  /\ talks \in 0..MaxTalks /\ calls \in 0..MaxCalls

(* When the handler returns nothing is left of the call: its seven tasks    *)
(* have ended and both sockets are closed (the finally blocks of            *)
(* twilio_websocket_handler), however the call ended and whoever was        *)
(* waiting, sending or being cancelled at that moment.                      *)
CleanExit ==
  handler = "done" =>
    /\ \A t \in DOMAIN task : Ended(t)
    /\ ~twilio /\ sts # "open"

(* A call that got going leaves its row closed: completed, or escalated     *)
(* when a function escalated it (update_call_cost), whether the farewell,   *)
(* the caller, the agent's service or a guard ended it.                     *)
Recorded ==
  handler = "done" /\ status # None /\ heard => status # "in_progress"

(* What a function escalated stays escalated: the end of the call, in the   *)
(* receiver's finally block, does not make it an ordinary one.              *)
EscalationSticks == [][status = "escalated" => status' = "escalated"]_vars

ClosesCall == task["receiver"] = "read" /\ task'["receiver"] = "playback"

(* The receiver begins to close the call only at the end of a farewell      *)
(* (_graceful_shutdown_call: "after the farewell finishes"), not of         *)
(* something the agent said before it, unless the agent could not be made   *)
(* to say the farewell.                                                     *)
FarewellHeard ==
  [][ClosesCall => unsaid \/ Head(inbox).of \in Farewells]_vars

(* The same, in a call where no filler was injected: neither an utterance   *)
(* that ends while a function runs, nor the answer to an escalation, nor    *)
(* one farewell coming on top of another closes the call too early.         *)
FarewellHeardUnfilled ==
  [][ClosesCall => unsaid \/ filled \/ Head(inbox).of \in Farewells]_vars

(* Once the caller is gone, or the shutdown event is set, the handler       *)
(* returns: whatever each task is waiting for, no one waits for ever for    *)
(* another (the guards are awaited without being cancelled).                *)
TeardownEnds == (shut \/ ~twilio) ~> handler = "done"

(* Every call ends: that, and a call whose stream has started ends even if  *)
(* nobody hangs up: the timeout guard sees to it                            *)
(* (AGENT_CALL_TIMEOUT_SECONDS).                                            *)
CallEnds == TeardownEnds /\ ((handler = "serving" /\ streamed) ~> handler = "done")
=============================================================================

-------------------------- MODULE CallSessionProofs -------------------------
(***************************************************************************)
(* A call, for any number of utterances and function calls.  The handler   *)
(* leaves nothing behind, and the row of a call that got going is closed;  *)
(* in the second part, the call is closed at the end of a farewell, if no  *)
(* filler was injected; and in the third the caller hears what the agent   *)
(* said, for messages, chunks and a queue of any size (AudioPath).         *)
(***************************************************************************)
EXTENDS CallSession, AudioPath, SequenceTheorems, TLAPS

Starting == {"setup", "refusing", "connecting"}
Stages   == {None, "run", "fewer", "stream", "read", "function", "said", "unsaid", "playback",
             "hangup", "leave", "wait", "send", "done"}

(* What TypeOK says, with one conjunct for each variable.                   *)
Types ==
  /\ handler \in Starting \cup {"serving", "gathering", "settling", "cleaning", "done"}
  /\ task \in [Bridge \cup Guards -> Stages]
  /\ \A t \in cancelled : t \in Bridge \cup Guards /\ Running(t)
  /\ shut \in BOOLEAN /\ twilio \in BOOLEAN /\ streamed \in BOOLEAN
  /\ closing \in BOOLEAN /\ started \in BOOLEAN /\ speaking \in BOOLEAN
  /\ heard \in BOOLEAN /\ filled \in BOOLEAN /\ unsaid \in BOOLEAN
  /\ sts \in {None, "open", "closed"}
  /\ function \in Functions \cup {None}
  /\ function # None <=> task["receiver"] \in {"function", "said", "unsaid"}
  /\ status \in Statuses
  /\ inbox \in Seq(Events)
  /\ speech \in Messages \cup {None}
  /\ talks \in 0..MaxTalks /\ calls \in 0..MaxCalls

LEMMA TypesAreTypeOK == Types <=> TypeOK
BY DEF Types, TypeOK, Starting, Stages

(* Before the bridge there is no receiver, no guard, no agent and no row.  *)
NotYet ==
  handler \in Starting =>
    /\ task["receiver"] = None /\ \A g \in Guards : task[g] = None
    /\ sts = None /\ status = None

TInv == Types /\ NotYet

(* The steps of the agent, the Twilio side, the guards, the receiver and   *)
(* the handler, in turn.                                                   *)
LEMMA EventTypes ==
  ASSUME TInv, NEW m \in Messages, NEW type \in {"started", "done", "warning"}, NEW f \in Functions
  PROVE  /\ Event(type, m) \in Events /\ Event("call", f) \in Events
         /\ Append(inbox, Event(type, m)) \in Seq(Events)
         /\ Append(inbox, Event("call", f)) \in Seq(Events)
<1>1. Event(type, m) \in Events /\ Event("call", f) \in Events
  BY DEF Event, Events
<1>. QED  BY <1>1, AppendProperties DEF TInv, Types

LEMMA InjectTypes ==
  ASSUME TInv, NEW m \in Messages, Inject(m)
  PROVE  inbox' \in Seq(Events) /\ speech' \in Messages \cup {None} /\ unsaid' \in BOOLEAN
<1>1. /\ Append(inbox, Event("started", m)) \in Seq(Events)
      /\ Append(inbox, Event("warning", m)) \in Seq(Events)
  BY EventTypes DEF Functions
<1>2. inbox' \in Seq(Events) /\ speech' \in Messages \cup {None}
  BY <1>1 DEF Inject, Speak, TInv, Types
<1>3. unsaid' \in BOOLEAN
  BY DEF Inject, TInv, Types
<1>. QED  BY <1>2, <1>3

LEMMA TypesInit == Init => TInv
<1>1. Init => /\ twilio \in BOOLEAN /\ streamed \in BOOLEAN /\ shut \in BOOLEAN /\ closing \in BOOLEAN
              /\ started \in BOOLEAN /\ speaking \in BOOLEAN /\ heard \in BOOLEAN
              /\ filled \in BOOLEAN /\ unsaid \in BOOLEAN
  BY DEF Init
<1>2. Init => inbox \in Seq(Events) /\ talks \in 0..MaxTalks /\ calls \in 0..MaxCalls
  BY EmptySeq, CallSessionAssumption DEF Init
<1>. QED  BY <1>1, <1>2
          DEF Init, TInv, Types, NotYet, Starting, Stages, Bridge, Early, Guards, None, Ended,
              Statuses,
              Functions, Messages

LEMMA AgentTypes == ASSUME TInv, AgentStep PROVE TInv'
<1>. USE DEF TInv, Types, NotYet, Starting, Ended, Running, Statuses, Listening, None,
           taskVars, netVars, rowVars, stateVars
<1>1. CASE AgentTalks
  <2>1. "talk" \in Messages /\ Append(inbox, Event("started", "talk")) \in Seq(Events)
    BY EventTypes DEF Messages, Functions
  <2>2. talks' \in 0..MaxTalks
    BY <1>1, CallSessionAssumption DEF AgentTalks
  <2>. QED  BY <1>1, <2>1, <2>2 DEF AgentTalks, Speak
<1>2. CASE SpeechEnds
  <2>1. Append(inbox, Event("done", speech)) \in Seq(Events)
    BY <1>2, EventTypes DEF SpeechEnds, Functions
  <2>. QED  BY <1>2, <2>1 DEF SpeechEnds
<1>3. CASE AgentGone
  BY <1>3 DEF AgentGone
<1>4. ASSUME NEW f \in Functions, AgentCalls(f) PROVE TInv'
  <2>1. Append(inbox, Event("call", f)) \in Seq(Events)
    BY EventTypes DEF Messages
  <2>2. calls' \in 0..MaxCalls
    BY <1>4, CallSessionAssumption DEF AgentCalls
  <2>. QED  BY <1>4, <2>1, <2>2 DEF AgentCalls
<1>. QED  BY <1>1, <1>2, <1>3, <1>4 DEF AgentStep

LEMMA CallerTypes ==
  ASSUME TInv, StreamStarts \/ CallerHangsUp \/ TwilioEnds \/ HelperEnds \/ Filler
  PROVE  TInv'
<1>. USE DEF TInv, Types, NotYet, Starting, Stages, Ended, Running, Statuses, Bridge, Early, Guards,
           None, netVars, rowVars, stateVars, agentVars
<1>1. CASE StreamStarts
  BY <1>1 DEF StreamStarts, At, taskVars
<1>2. CASE CallerHangsUp
  <2>1. twilio' \in BOOLEAN
    BY <1>2 DEF CallerHangsUp
  <2>. QED  BY <1>2, <2>1 DEF CallerHangsUp, taskVars
<1>3. CASE TwilioEnds
  BY <1>3 DEF TwilioEnds, At, To, Ends
<1>4. CASE HelperEnds
  BY <1>4 DEF HelperEnds, At, To, Ends
<1>5. CASE Filler
  <2>1. inbox' \in Seq(Events) /\ speech' \in Messages \cup {None} /\ unsaid' \in BOOLEAN
    BY <1>5, InjectTypes DEF Filler, Messages
  <2>2. talks' \in 0..MaxTalks
    BY <1>5, CallSessionAssumption DEF Filler
  <2>. QED  BY <1>5, <2>1, <2>2 DEF Filler, taskVars
<1>. QED  BY <1>1, <1>2, <1>3, <1>4, <1>5

LEMMA GuardTypes ==
  ASSUME TInv, NEW g \in Guards, GuardExpires(g) \/ GuardFires(g) \/ GuardQuits(g)
  PROVE  TInv'
<1>. USE DEF TInv, Types, NotYet, Starting, Stages, Ended, Running, Statuses, Bridge, Early, Guards,
           None, At, To, netVars, rowVars, stateVars, agentVars
<1>1. CASE GuardExpires(g)
  BY <1>1 DEF GuardExpires
<1>2. CASE GuardFires(g)
  <2>1. inbox' \in Seq(Events) /\ speech' \in Messages \cup {None} /\ unsaid' \in BOOLEAN
    BY <1>2, InjectTypes DEF GuardFires, Messages, Farewells
  <2>2. closing' \in BOOLEAN /\ started' \in BOOLEAN
    BY <1>2 DEF GuardFires
  <2>. QED  BY <1>2, <2>1, <2>2 DEF GuardFires
<1>3. CASE GuardQuits(g)
  BY <1>3 DEF GuardQuits
<1>. QED  BY <1>1, <1>2, <1>3

LEMMA ReceiverTypes == ASSUME TInv, ReceiverStep PROVE TInv'
<1>. USE DEF TInv, Types, NotYet, Starting, Stages, Ended, Running, Statuses, Bridge, Early, Guards,
           None, Functions, netVars, rowVars, stateVars, agentVars
<1>1. CASE ReceiverStarts
  BY <1>1 DEF ReceiverStarts, Receiving, At, To
<1>2. CASE Receive
  <2>1. inbox' \in Seq(Events) /\ Head(inbox) \in Events
    BY <1>2, HeadTailProperties DEF Receive, Read
  <2>2. Head(inbox).type = "call" => Head(inbox).of \in Functions
    BY <2>1 DEF Events
  <2>3. started' \in BOOLEAN /\ speaking' \in BOOLEAN /\ closing' \in BOOLEAN
    <3>1. CASE FarewellOver(Head(inbox))
      BY <1>2, <3>1 DEF Receive, Read
    <3>2. CASE ~FarewellOver(Head(inbox))
      <4>1. started' \in BOOLEAN
        BY <1>2, <3>2 DEF Receive, Read, FarewellBegins
      <4>2. speaking' \in BOOLEAN
        BY <1>2, <3>2 DEF Receive, Read
      <4>3. closing' \in BOOLEAN
        BY <1>2, <3>2 DEF Receive, Read
      <4>. QED  BY <4>1, <4>2, <4>3
    <3>. QED  BY <3>1, <3>2
  <2>4. /\ task' \in [Bridge \cup Guards -> Stages]
        /\ \A t \in cancelled' : t \in Bridge \cup Guards /\ Running(t)'
        /\ function' \in Functions \cup {None}
        /\ function' # None <=> task'["receiver"] \in {"function", "said", "unsaid"}
    BY <1>2, <2>2 DEF Receive, Read, Receiving, At, To
  <2>5. NotYet'
    BY <1>2 DEF Receive, Receiving, At
  <2>. QED  BY <1>2, <2>1, <2>3, <2>4, <2>5 DEF Receive
<1>3. CASE FunctionReturns
  BY <1>3 DEF FunctionReturns, Receiving, At, To
<1>4. CASE EscalationReturns
  <2>1. inbox' \in Seq(Events) /\ speech' \in Messages \cup {None} /\ unsaid' \in BOOLEAN
    BY <1>4, InjectTypes DEF EscalationReturns, Messages
  <2>. QED  BY <1>4, <2>1 DEF EscalationReturns, Escalated, Receiving, At, To
<1>5. CASE FarewellReturns
  <2>1. inbox' \in Seq(Events) /\ speech' \in Messages \cup {None} /\ unsaid' \in BOOLEAN
    BY <1>5, InjectTypes DEF FarewellReturns, Messages, Farewells
  <2>. QED  BY <1>5, <2>1 DEF FarewellReturns, Escalated, Receiving, At, To
<1>6. CASE EffectsEnd
  BY <1>6 DEF EffectsEnd, Receiving, At, To
<1>7. CASE PlaybackEnds
  BY <1>7 DEF PlaybackEnds, Receiving, At, To
<1>8. CASE HangUp
  <2>1. twilio' \in BOOLEAN
    BY <1>8 DEF HangUp
  <2>. QED  BY <1>8, <2>1 DEF HangUp, Receiving, At, To
<1>9. CASE ReceiverEnds
  BY <1>9 DEF ReceiverEnds, Closed, Receiving, At, To
<1>. QED  BY <1>1, <1>2, <1>3, <1>4, <1>5, <1>6, <1>7, <1>8, <1>9 DEF ReceiverStep

LEMMA CancelTypes == ASSUME TInv, HelpersNotice \/ ReceiverNotices PROVE TInv'
<1>. USE DEF TInv, Types, NotYet, Starting, Stages, Ended, Running, Statuses, Bridge, Early, Guards,
           None, netVars, rowVars, stateVars, agentVars
<1>1. CASE HelpersNotice
  BY <1>1 DEF HelpersNotice
<1>2. CASE ReceiverNotices
  BY <1>2 DEF ReceiverNotices, To, Ends, Closed
<1>. QED  BY <1>1, <1>2

LEMMA HandlerTypes == ASSUME TInv, HandlerStep PROVE TInv'
<1>. USE EmptySeq DEF TInv, Types, NotYet, Starting, Stages, Ended, Running, Statuses, Bridge,
           Early, Guards, None, netVars, rowVars, stateVars, agentVars
<1>1. CASE Refuse
  BY <1>1 DEF Refuse
<1>2. CASE RefusalEnds
  BY <1>2 DEF RefusalEnds, Clean, RunningOf
<1>3. CASE Resolve
  BY <1>3 DEF Resolve
<1>4. CASE Fail
  BY <1>4 DEF Fail, Clean, RunningOf
<1>5. CASE Serve
  BY <1>5 DEF Serve
<1>6. CASE Gather
  BY <1>6 DEF Gather, RunningOf
<1>7. CASE Gathered
  BY <1>7 DEF Gathered
<1>8. CASE Settled
  BY <1>8 DEF Settled, Clean, RunningOf
<1>9. CASE Finish
  <2>1. twilio' \in BOOLEAN
    BY <1>9 DEF Finish
  <2>. QED  BY <1>9, <2>1 DEF Finish
<1>. QED  BY <1>1, <1>2, <1>3, <1>4, <1>5, <1>6, <1>7, <1>8, <1>9 DEF HandlerStep

LEMMA StepTypes == ASSUME TInv, [Next]_vars PROVE TInv'
<1>1. CASE Next
  BY <1>1, AgentTypes, CallerTypes, GuardTypes, ReceiverTypes, CancelTypes, HandlerTypes DEF Next
<1>2. CASE UNCHANGED vars
  BY <1>2 DEF vars, taskVars, netVars, rowVars, stateVars, agentVars, TInv, Types, NotYet, Ended,
              Running
<1>. QED  BY <1>1, <1>2

-----------------------------------------------------------------------------
(* The end of a call. *)

(* What each stage of the handler has waited for.                          *)
Awaited ==
  /\ handler \in {"settling", "cleaning", "done"} => Ended("receiver")
  /\ handler \in {"cleaning", "done"} => sts # "open" /\ \A g \in Guards : Ended(g)
  /\ handler = "done" => ~twilio /\ \A t \in Early : Ended(t)

(* The receiver closes the row on its way out, once it got going.          *)
ClosedRow ==
  /\ heard /\ Ended("receiver") => status # "in_progress"
  /\ task["receiver"] \in {None, "stream"} => ~heard

IInv == TInv /\ Awaited /\ ClosedRow

LEMMA InitInv == Init => IInv
BY TypesInit DEF Init, IInv, Awaited, ClosedRow, Bridge, Early, Guards, None, Ended

LEMMA AgentKeeps == IInv /\ AgentStep => (Awaited /\ ClosedRow)'
BY DEF IInv, TInv, Types, NotYet, Awaited, ClosedRow, Starting, Ended, Running, Statuses, AgentStep,
       AgentTalks, SpeechEnds, AgentGone, AgentCalls, Listening, taskVars, netVars, rowVars

LEMMA CallerKeeps ==
  ASSUME IInv, StreamStarts \/ CallerHangsUp \/ TwilioEnds \/ HelperEnds \/ Filler
  PROVE  (Awaited /\ ClosedRow)'
<1>. USE DEF IInv, TInv, Types, NotYet, Awaited, ClosedRow, Starting, Stages, Ended, Running,
           Statuses, Bridge, Early, Guards, None, netVars, rowVars
<1>1. CASE StreamStarts
  BY <1>1 DEF StreamStarts, At, taskVars
<1>2. CASE CallerHangsUp
  BY <1>2 DEF CallerHangsUp, taskVars
<1>3. CASE TwilioEnds
  BY <1>3 DEF TwilioEnds, At, To, Ends
<1>4. CASE HelperEnds
  BY <1>4 DEF HelperEnds, At, To, Ends
<1>5. CASE Filler
  BY <1>5 DEF Filler, taskVars
<1>. QED  BY <1>1, <1>2, <1>3, <1>4, <1>5

LEMMA GuardsKeep ==
  ASSUME IInv, NEW g \in Guards, GuardExpires(g) \/ GuardFires(g) \/ GuardQuits(g)
  PROVE  (Awaited /\ ClosedRow)'
<1>. USE DEF IInv, TInv, Types, NotYet, Awaited, ClosedRow, Starting, Stages, Ended, Running,
           Statuses, Bridge, Early, Guards, None, At, To, netVars, rowVars
<1>1. CASE GuardExpires(g)
  BY <1>1 DEF GuardExpires
<1>2. CASE GuardFires(g)
  BY <1>2 DEF GuardFires
<1>3. CASE GuardQuits(g)
  BY <1>3 DEF GuardQuits
<1>. QED  BY <1>1, <1>2, <1>3

LEMMA ReceiverKeeps ==
  ASSUME IInv, ReceiverStep
  PROVE  (Awaited /\ ClosedRow)'
<1>. USE DEF IInv, TInv, Types, NotYet, Awaited, ClosedRow, Starting, Stages, Ended, Running,
           Statuses, Bridge, Early, Guards, None, netVars, rowVars
<1>1. CASE ReceiverStarts
  BY <1>1 DEF ReceiverStarts, Receiving, At, To
<1>2. CASE Receive
  BY <1>2 DEF Receive, Read, Receiving, At, To
<1>3. CASE FunctionReturns
  BY <1>3 DEF FunctionReturns, Receiving, At, To
<1>4. CASE EscalationReturns
  BY <1>4 DEF EscalationReturns, Escalated, Receiving, At, To
<1>5. CASE FarewellReturns
  BY <1>5 DEF FarewellReturns, Escalated, Receiving, At, To
<1>6. CASE EffectsEnd
  BY <1>6 DEF EffectsEnd, Receiving, At, To
<1>7. CASE PlaybackEnds
  BY <1>7 DEF PlaybackEnds, Receiving, At, To
<1>8. CASE HangUp
  BY <1>8 DEF HangUp, Receiving, At, To
<1>9. CASE ReceiverEnds
  BY <1>9 DEF ReceiverEnds, Closed, Receiving, At, To
<1>. QED  BY <1>1, <1>2, <1>3, <1>4, <1>5, <1>6, <1>7, <1>8, <1>9 DEF ReceiverStep

LEMMA CancelsKeep ==
  ASSUME IInv, HelpersNotice \/ ReceiverNotices
  PROVE  (Awaited /\ ClosedRow)'
<1>. USE DEF IInv, TInv, Types, NotYet, Awaited, ClosedRow, Starting, Stages, Ended, Running,
           Statuses, Bridge, Early, Guards, None, netVars, rowVars
<1>1. CASE HelpersNotice
  BY <1>1 DEF HelpersNotice, To, Ends
<1>2. CASE ReceiverNotices
  BY <1>2 DEF ReceiverNotices, To, Ends, Closed
<1>. QED  BY <1>1, <1>2

LEMMA HandlerKeeps ==
  ASSUME IInv, HandlerStep
  PROVE  (Awaited /\ ClosedRow)'
<1>. USE DEF IInv, TInv, Types, NotYet, Awaited, ClosedRow, Starting, Stages, Ended, Running,
           Statuses, Bridge, Early, Guards, None, netVars, rowVars
<1>1. CASE Refuse
  BY <1>1 DEF Refuse
<1>2. CASE RefusalEnds
  BY <1>2 DEF RefusalEnds, Clean, RunningOf
<1>3. CASE Resolve
  BY <1>3 DEF Resolve
<1>4. CASE Fail
  BY <1>4 DEF Fail, Clean, RunningOf
<1>5. CASE Serve
  BY <1>5 DEF Serve
<1>6. CASE Gather
  BY <1>6 DEF Gather, RunningOf
<1>7. CASE Gathered
  BY <1>7 DEF Gathered
<1>8. CASE Settled
  BY <1>8 DEF Settled, Clean, RunningOf
<1>9. CASE Finish
  BY <1>9 DEF Finish
<1>. QED  BY <1>1, <1>2, <1>3, <1>4, <1>5, <1>6, <1>7, <1>8, <1>9 DEF HandlerStep

(* What the handler has waited for, and when the row of the call is closed.  *)
THEOREM Invariance == Spec => []IInv
<1>1. ASSUME IInv, [Next]_vars PROVE IInv'
  <2>. USE <1>1
  <2>1. TInv'
    BY StepTypes DEF IInv
  <2>2. ASSUME Next PROVE (Awaited /\ ClosedRow)'
    BY <2>2, AgentKeeps, CallerKeeps, GuardsKeep, ReceiverKeeps, CancelsKeep, HandlerKeeps
    DEF Next
  <2>3. ASSUME UNCHANGED vars PROVE (Awaited /\ ClosedRow)'
    BY <2>3 DEF vars, taskVars, netVars, rowVars, IInv, Awaited, ClosedRow, Ended
  <2>. QED  BY <2>1, <2>2, <2>3 DEF IInv
<1>. QED  BY InitInv, <1>1, PTL DEF Spec

(* The handler, the tasks, the sockets, the inbox and StreamState hold what *)
(* the code may put there; the receiver awaits a function exactly while one *)
(* runs or its side effects do (_route_function_calls).                     *)
THEOREM TypesAreKept == Spec => []TypeOK
<1>1. IInv => TypeOK
  BY TypesAreTypeOK DEF IInv, TInv
<1>. QED  BY Invariance, <1>1, PTL

(* The handler returns only when its tasks have ended and the sockets are  *)
(* closed, whatever ended the call.                                        *)
THEOREM ExitIsClean == Spec => []CleanExit
<1>1. IInv => CleanExit
  BY DEF IInv, TInv, Types, Awaited, CleanExit, Ended, Bridge, Early, Guards
<1>. QED  BY Invariance, <1>1, PTL

(* A call that got going does not stay in progress once it is over.        *)
THEOREM RowIsClosed == Spec => []Recorded
<1>1. IInv => Recorded
  BY DEF IInv, Awaited, ClosedRow, Recorded
<1>. QED  BY Invariance, <1>1, PTL

(* No step takes a call out of the escalated ones.                         *)
THEOREM EscalationKept == Spec => EscalationSticks
<1>1. ASSUME IInv, [Next]_vars, status = "escalated" PROVE status' = "escalated"
  <2>1. CASE AgentStep
    BY <1>1, <2>1 DEF AgentStep, AgentTalks, SpeechEnds, AgentGone, AgentCalls, rowVars
  <2>2. CASE StreamStarts \/ CallerHangsUp \/ TwilioEnds \/ HelperEnds \/ Filler
    BY <1>1, <2>2 DEF StreamStarts, CallerHangsUp, TwilioEnds, HelperEnds, Filler, rowVars
  <2>3. CASE \E g \in Guards : GuardExpires(g) \/ GuardFires(g) \/ GuardQuits(g)
    BY <1>1, <2>3 DEF GuardExpires, GuardFires, GuardQuits, rowVars
  <2>4. CASE ReceiverStep
    BY <1>1, <2>4
    DEF ReceiverStep, ReceiverStarts, Receive, FunctionReturns, EscalationReturns,
        FarewellReturns, EffectsEnd, PlaybackEnds, HangUp, ReceiverEnds, Closed, Escalated, None,
        rowVars
  <2>5. CASE HelpersNotice \/ ReceiverNotices
    BY <1>1, <2>5 DEF HelpersNotice, ReceiverNotices, Closed, rowVars
  <2>6. CASE HandlerStep
    BY <1>1, <2>6
    DEF IInv, TInv, NotYet, Starting, None, HandlerStep, Refuse, RefusalEnds, Resolve, Fail, Serve,
        Gather, Gathered, Settled, Finish, Clean, rowVars
  <2>7. CASE UNCHANGED vars
    BY <1>1, <2>7 DEF vars, rowVars
  <2>. QED  BY <1>1, <2>1, <2>2, <2>3, <2>4, <2>5, <2>6, <2>7 DEF Next
<1>. QED  BY Invariance, <1>1, PTL DEF Spec, EscalationSticks

(***************************************************************************)
(* The farewell: the events in the inbox, and which utterance is the next  *)
(* to end.                                                                 *)
(***************************************************************************)
(* No utterance ends after the i-th event.                                  *)
NoDone(w, i) == \A j \in DOMAIN w : j > i => w[j].type # "done"

(* The first utterance to end after the i-th event is one of S.            *)
NextDone(w, i, S) ==
  \A j \in DOMAIN w :
    j > i /\ w[j].type = "done" /\ (\A k \in DOMAIN w : i < k /\ k < j => w[k].type # "done")
      => w[j].of \in S

LEMMA Appended ==
  ASSUME NEW w \in Seq(Events), NEW e \in Events
  PROVE  /\ Append(w, e) \in Seq(Events) /\ Len(w) \in Nat /\ DOMAIN w = 1..Len(w)
         /\ DOMAIN Append(w, e) = 1..(Len(w) + 1) /\ Append(w, e)[Len(w) + 1] = e
         /\ \A i \in DOMAIN w : Append(w, e)[i] = w[i]
<1>1. /\ Append(w, e) \in Seq(Events) /\ Len(Append(w, e)) = Len(w) + 1
      /\ \A i \in 1..Len(w) : Append(w, e)[i] = w[i]
      /\ Append(w, e)[Len(w) + 1] = e
  BY AppendProperties
<1>2. DOMAIN w = 1..Len(w) /\ Len(w) \in Nat /\ DOMAIN Append(w, e) = 1..Len(Append(w, e))
  BY <1>1, LenProperties
<1>. QED  BY <1>1, <1>2

LEMMA Dropped ==
  ASSUME NEW w \in Seq(Events), w # <<>>
  PROVE  /\ Tail(w) \in Seq(Events) /\ Head(w) \in Events /\ w[1] = Head(w)
         /\ Len(w) \in Nat \ {0} /\ DOMAIN w = 1..Len(w) /\ DOMAIN Tail(w) = 1..(Len(w) - 1)
         /\ \A i \in DOMAIN Tail(w) : Tail(w)[i] = w[i + 1]
<1>1. /\ Head(w) \in Events /\ Tail(w) \in Seq(Events) /\ Len(Tail(w)) = Len(w) - 1
      /\ \A i \in 1..Len(Tail(w)) : Tail(w)[i] = w[i + 1]
  BY HeadTailProperties
<1>2. DOMAIN w = 1..Len(w) /\ Len(w) \in Nat /\ DOMAIN Tail(w) = 1..Len(Tail(w))
  BY <1>1, LenProperties
<1>3. Len(w) # 0 /\ w[1] = Head(w)
  BY EmptySeq
<1>. QED  BY <1>1, <1>2, <1>3

LEMMA AppendOrder ==
  ASSUME NEW w \in Seq(Events), NEW e \in Events, NEW i \in Nat, NEW S
  PROVE  /\ NoDone(Append(w, e), i) => NoDone(w, i)
         /\ NoDone(Append(w, e), i) /\ i <= Len(w) => e.type # "done"
         /\ NoDone(w, i) /\ e.type # "done" => NoDone(Append(w, e), i)
         /\ i > Len(w) => NoDone(Append(w, e), i)
         /\ NextDone(w, i, S) /\ (e.type = "done" /\ NoDone(w, i) => e.of \in S)
              => NextDone(Append(w, e), i, S)
BY Appended DEF NoDone, NextDone

LEMMA TailOrder ==
  ASSUME NEW w \in Seq(Events), w # <<>>, NEW i \in Nat, NEW S
  PROVE  /\ NoDone(w, i + 1) <=> NoDone(Tail(w), i)
         /\ NextDone(w, i + 1, S) => NextDone(Tail(w), i, S)
         /\ Head(w).type # "done" /\ NextDone(w, 0, S) => NextDone(w, 1, S)
         /\ Head(w).type # "done" /\ NoDone(w, 1) => NoDone(w, 0)
<1>. USE Dropped DEF NoDone, NextDone
<1>1. NoDone(w, i + 1) => NoDone(Tail(w), i)
  OBVIOUS
<1>2. NoDone(Tail(w), i) => NoDone(w, i + 1)
  <2> SUFFICES ASSUME NoDone(Tail(w), i), NEW j \in DOMAIN w, j > i + 1 PROVE w[j].type # "done"
    OBVIOUS
  <2>1. j - 1 \in DOMAIN Tail(w) /\ j - 1 > i
    OBVIOUS
  <2>. QED  BY <2>1
<1>3. NextDone(w, i + 1, S) => NextDone(Tail(w), i, S)
  <2> SUFFICES ASSUME NextDone(w, i + 1, S), NEW j \in DOMAIN Tail(w), j > i,
                      Tail(w)[j].type = "done",
                      \A k \in DOMAIN Tail(w) : i < k /\ k < j => Tail(w)[k].type # "done"
               PROVE  Tail(w)[j].of \in S
    OBVIOUS
  <2>1. j + 1 \in DOMAIN w /\ w[j + 1] = Tail(w)[j] /\ j + 1 > i + 1
    OBVIOUS
  <2>2. \A k \in DOMAIN w : i + 1 < k /\ k < j + 1 => w[k].type # "done"
    <3> SUFFICES ASSUME NEW k \in DOMAIN w, i + 1 < k, k < j + 1 PROVE w[k].type # "done"
      OBVIOUS
    <3>1. k - 1 \in DOMAIN Tail(w) /\ Tail(w)[k - 1] = w[k] /\ i < k - 1 /\ k - 1 < j
      OBVIOUS
    <3>. QED  BY <3>1
  <2>. QED  BY <2>1, <2>2
<1>4. Head(w).type # "done" /\ NoDone(w, 1) => NoDone(w, 0)
  OBVIOUS
<1>5. Head(w).type # "done" /\ NextDone(w, 0, S) => NextDone(w, 1, S)
  OBVIOUS
<1>. QED  BY <1>1, <1>2, <1>3, <1>4, <1>5

-----------------------------------------------------------------------------
Begins(e) == e.type = "started" /\ e.of \in Farewells

(* What the receiver might take for the beginning of a farewell.            *)
Mistakable(e) == e.type = "warning" \/ (e.type = "started" /\ e.of \notin Farewells)

Unmarred == ~unsaid /\ ~filled
Answering == task["receiver"] \in {"function", "said", "unsaid"}
Reading   == task["receiver"] \in {"stream", "read"} \/ Answering

(* After the i-th event in the inbox, an utterance of S is the next to end. *)
Followed(i, S) == NextDone(inbox, i, S) /\ (NoDone(inbox, i) => speech \in S \/ sts = "closed")

(* Events come while the bridge is up, and it starts with nothing awaited.  *)
Served ==
  /\ handler # "serving" => inbox = <<>>
  /\ handler \in Starting => ~closing /\ ~started
  /\ task["receiver"] = "unsaid" => unsaid

(* The agent makes one call at a time.                                      *)
OneCall ==
  \A i, j \in DOMAIN inbox :
    inbox[i].type = "call" => ~Answering /\ (inbox[j].type = "call" => i = j)

(* What has begun is the next to end.                                       *)
Alternates == \A i \in DOMAIN inbox : inbox[i].type = "started" => Followed(i, {inbox[i].of})

(* Before the receiver has read of the beginning of something else it does  *)
(* not end.                                                                 *)
Apart ==
  Unmarred /\ Reading =>
    \A i \in DOMAIN inbox : Mistakable(inbox[i]) =>
      /\ NoDone(inbox, i) /\ (speech # None \/ sts = "closed")
      /\ ~Answering
      /\ \A k \in DOMAIN inbox : k < i => inbox[k].type # "call"

(* The beginning of a farewell is among what the receiver has still to read. *)
Promised == \E i \in DOMAIN inbox : Begins(inbox[i])

(* While the call is closing a farewell is the next to end, if the receiver *)
(* has read of the beginning it waits for; and if it has not, what it will  *)
(* read of first is a farewell.                                             *)
Expected ==
  Unmarred /\ handler = "serving" =>
    /\ task["receiver"] = "said" => Promised
    /\ Reading /\ closing /\ started => Followed(0, Farewells)
    /\ Reading /\ closing /\ ~started =>
         /\ Promised
         /\ \A k \in DOMAIN inbox : Mistakable(inbox[k]) =>
              \E i \in DOMAIN inbox : i < k /\ Begins(inbox[i])

Order == Served /\ OneCall /\ Alternates /\ Apart /\ Expected

FInv == TInv /\ Order

LEMMA StillOrder ==
  ASSUME FInv, UNCHANGED <<inbox, speech, sts, closing, started, unsaid, filled, handler>>,
         UNCHANGED task["receiver"]
  PROVE  Order'
BY DEF FInv, Order, Served, OneCall, Alternates, Apart, Expected, Promised, Followed, Unmarred,
       Answering, Reading

LEMMA NotServingOrder ==
  ASSUME FInv, inbox' = <<>>, handler' # "serving", UNCHANGED <<closing, started, unsaid>>,
         UNCHANGED task["receiver"], handler' \in Starting => handler \in Starting
  PROVE  Order'
<1>1. DOMAIN inbox' = {}
  OBVIOUS
<1>. QED  BY <1>1 DEF FInv, Order, Served, OneCall, Alternates, Apart, Expected

(* An event of the agent: what began ends, and what is waited for comes.    *)
LEMMA AlternatesAppend ==
  ASSUME FInv, NEW e \in Events, inbox' = Append(inbox, e), sts' = sts, sts # "closed",
         \/ e.type = "done" /\ e.of = speech
         \/ e.type \in {"warning", "call"} /\ speech' = speech
         \/ e.type = "started" /\ speech = None /\ speech' = e.of
  PROVE  Alternates'
<1>1. inbox \in Seq(Events) /\ TInv
  BY DEF FInv, Order, TInv, Types
<1> SUFFICES ASSUME NEW i \in DOMAIN inbox', inbox'[i].type = "started"
             PROVE  /\ NextDone(inbox', i, {inbox'[i].of})
                    /\ NoDone(inbox', i) => speech' \in {inbox'[i].of} \/ sts' = "closed"
  BY DEF Alternates, Followed
<1>2. CASE i \in DOMAIN inbox
  <2>1. inbox'[i] = inbox[i] /\ i \in Nat /\ i <= Len(inbox) /\ Followed(i, {inbox[i].of})
    BY <1>1, <1>2, Appended DEF FInv, Order, Alternates
  <2>2. None \notin {inbox[i].of}
    <3>1. inbox[i] \in Events
      BY <1>1, <1>2
    <3>. QED  BY <2>1, <3>1 DEF Events, Messages, Farewells, None
  <2>3. NextDone(inbox', i, {inbox[i].of}) /\ (NoDone(inbox', i) => speech' \in {inbox[i].of})
    <3> DEFINE S == {inbox[i].of}
    <3>1. None \notin S /\ Followed(i, S)
      BY <2>1, <2>2
    <3> HIDE DEF S
    <3>2. NextDone(inbox', i, S) /\ (NoDone(inbox', i) => speech' \in S)
      BY <1>1, <2>1, <3>1, AppendOrder DEF Followed
    <3>. QED  BY <3>2 DEF S
  <2>. QED  BY <2>1, <2>3
<1>3. CASE i \notin DOMAIN inbox
  <2>1. i = Len(inbox) + 1 /\ inbox'[i] = e
    BY <1>1, <1>3, Appended
  <2>2. e.type = "started" /\ speech' = e.of
    BY <2>1
  <2>3. NextDone(inbox', i, {e.of})
    <3>1. DOMAIN inbox' = 1..i /\ i \in Nat
      BY <1>1, <2>1, Appended
    <3>. QED  BY <3>1 DEF NextDone
  <2>. QED  BY <2>1, <2>2, <2>3
<1>. QED  BY <1>2, <1>3

LEMMA ExpectedAppend ==
  ASSUME FInv, NEW e \in Events, inbox' = Append(inbox, e), sts' = sts, sts # "closed",
         UNCHANGED <<closing, started, handler>>,
         Unmarred' => Unmarred, Reading' => Reading,
         task'["receiver"] = "said" => task["receiver"] = "said" \/ Begins(e),
         \/ e.type = "done" /\ e.of = speech
         \/ e.type # "done" /\ speech' = speech
         \/ e.type # "done" /\ speech = None
  PROVE  Expected'
<1>1. inbox \in Seq(Events) /\ TInv
  BY DEF FInv, Order, TInv, Types
<1>2. SUFFICES ASSUME Unmarred PROVE Expected'
  BY DEF Expected
<1>3. (Promised => Promised') /\ (Begins(e) => Promised')
  BY <1>1, Appended DEF Promised
<1>4. Followed(0, Farewells) => Followed(0, Farewells)'
  <2>1. None \notin Farewells /\ 0 \in Nat /\ 0 <= Len(inbox)
    BY <1>1, LenProperties DEF Farewells, None
  <2>2. SUFFICES ASSUME Followed(0, Farewells)
                 PROVE  NextDone(inbox', 0, Farewells) /\ (NoDone(inbox', 0) => speech' \in Farewells)
    BY DEF Followed
  <2>3. NextDone(inbox', 0, Farewells)
    BY <1>1, <2>1, <2>2, AppendOrder DEF Followed
  <2>4. NoDone(inbox', 0) => speech' \in Farewells
    BY <1>1, <2>1, <2>2, AppendOrder DEF Followed
  <2>. QED  BY <2>3, <2>4
<1>5. ASSUME Promised,
             \A k \in DOMAIN inbox : Mistakable(inbox[k]) =>
               \E i \in DOMAIN inbox : i < k /\ Begins(inbox[i])
      PROVE  \A k \in DOMAIN inbox' : Mistakable(inbox'[k]) =>
               \E i \in DOMAIN inbox' : i < k /\ Begins(inbox'[i])
  BY <1>1, <1>5, Appended DEF Promised
<1>. QED  BY <1>2, <1>3, <1>4, <1>5 DEF FInv, Order, Expected

LEMMA AgentOrder == ASSUME FInv, AgentStep PROVE Order'
<1>. USE DEF FInv, Order
<1>1. inbox \in Seq(Events) /\ TInv
  BY DEF TInv, Types
<1>2. CASE AgentTalks
  <2> DEFINE e == Event("started", "talk")
  <2>1. /\ Listening /\ speech = None /\ ~Awaiting /\ inbox' = Append(inbox, e) /\ speech' = "talk"
        /\ UNCHANGED <<taskVars, sts, function, closing, started, filled, unsaid>>
    BY <1>2 DEF AgentTalks, Speak, netVars, stateVars
  <2>2. e \in Events /\ e.type = "started" /\ e.of = "talk" /\ ~Begins(e)
    BY DEF Event, Events, Messages, Begins, Farewells
  <2>3. sts = "open" /\ sts' = "open" /\ handler = "serving" /\ handler' = "serving" /\ task' = task
    BY <2>1 DEF Listening, taskVars
  <2>4. ~Answering /\ ~Answering' /\ \A i \in DOMAIN inbox : inbox[i].type # "call"
    BY <1>1, <2>1, <2>3, LenProperties DEF Awaiting, TInv, Types, Answering
  <2> HIDE DEF e
  <2>5. Served' /\ OneCall'
    BY <1>1, <2>1, <2>2, <2>3, <2>4, Appended DEF Served, OneCall, Starting
  <2>6. Alternates'
    BY <2>1, <2>2, <2>3, AlternatesAppend
  <2>7. Apart'
    <3> SUFFICES ASSUME Unmarred, Reading, NEW i \in DOMAIN inbox', Mistakable(inbox'[i])
                 PROVE  NoDone(inbox', i) /\ \A k \in DOMAIN inbox' : k < i => inbox'[k].type # "call"
      BY <2>1, <2>3, <2>4 DEF Apart, Unmarred, Reading, Answering, None
    <3>1. NoDone(inbox', i)
      <4>1. CASE i \in DOMAIN inbox
        BY <1>1, <2>1, <2>2, <4>1, Appended, AppendOrder DEF Apart
      <4>2. CASE i \notin DOMAIN inbox
        BY <1>1, <2>1, <2>2, <4>2, Appended, AppendOrder
      <4>. QED  BY <4>1, <4>2
    <3>. QED  BY <1>1, <2>1, <2>2, <2>4, <3>1, Appended
  <2>8. Expected'
    BY <2>1, <2>2, <2>3, ExpectedAppend DEF Unmarred, Reading, Answering
  <2>. QED  BY <2>5, <2>6, <2>7, <2>8
<1>3. CASE SpeechEnds
  <2> DEFINE e == Event("done", speech)
  <2>1. /\ Listening /\ speech # None /\ inbox' = Append(inbox, e) /\ speech' = None
        /\ task["receiver"] # "stream" /\ (inbox # <<>> => task["receiver"] # "read")
        /\ UNCHANGED <<taskVars, sts, function, closing, started, filled, unsaid>>
    BY <1>3 DEF SpeechEnds, netVars, stateVars
  <2>2. e \in Events /\ e.type = "done" /\ e.of = speech /\ ~Mistakable(e)
    BY <1>1, <2>1 DEF Event, Events, Mistakable, TInv, Types
  <2>3. sts = "open" /\ sts' = "open" /\ handler = "serving" /\ handler' = "serving" /\ task' = task
    BY <2>1 DEF Listening, taskVars
  <2> HIDE DEF e
  <2>5. Served' /\ OneCall'
    BY <1>1, <2>1, <2>2, <2>3, Appended DEF Served, OneCall, Starting, Answering
  <2>6. Alternates'
    BY <2>1, <2>2, <2>3, AlternatesAppend
  <2>7. Apart'
    <3> SUFFICES ASSUME Unmarred, Reading, NEW i \in DOMAIN inbox', Mistakable(inbox'[i]) PROVE FALSE
      BY <2>1, <2>3 DEF Apart, Unmarred, Reading, Answering
    <3>1. i \in DOMAIN inbox /\ inbox[i] = inbox'[i]
      BY <1>1, <2>1, <2>2, Appended
    <3>2. ~Answering
      BY <3>1 DEF Apart
    <3>3. inbox # <<>>
      BY <3>1
    <3>. QED  BY <2>1, <3>2, <3>3 DEF Reading
  <2>8. Expected'
    BY <2>1, <2>2, <2>3, ExpectedAppend DEF Unmarred, Reading, Answering
  <2>. QED  BY <2>5, <2>6, <2>7, <2>8
<1>4. CASE AgentGone
  <2>1. /\ sts' = "closed" /\ UNCHANGED <<taskVars, function, closing, started, filled, unsaid, inbox>>
    BY <1>4 DEF AgentGone, stateVars
  <2>. QED  BY <2>1 DEF taskVars, Served, OneCall, Alternates, Apart, Expected, Promised, Followed,
                        Unmarred, Answering, Reading
<1>5. ASSUME NEW f \in Functions, AgentCalls(f)
      PROVE  Order'
  <2> DEFINE e == Event("call", f)
  <2>1. /\ Listening /\ ~Awaiting /\ inbox' = Append(inbox, e)
        /\ UNCHANGED <<taskVars, sts, function, closing, started, filled, unsaid, speech>>
    BY <1>5 DEF AgentCalls, netVars, stateVars
  <2>2. e \in Events /\ e.type = "call" /\ ~Mistakable(e)
    BY DEF Event, Events, Mistakable
  <2>3. sts = "open" /\ sts' = "open" /\ handler = "serving" /\ handler' = "serving" /\ task' = task
    BY <2>1 DEF Listening, taskVars
  <2>4. ~Answering /\ ~Answering' /\ \A i \in DOMAIN inbox : inbox[i].type # "call"
    BY <1>1, <2>1, <2>3, LenProperties DEF Awaiting, TInv, Types, Answering
  <2> HIDE DEF e
  <2>5. Served' /\ OneCall'
    BY <1>1, <2>1, <2>2, <2>3, <2>4, Appended DEF Served, OneCall, Starting
  <2>6. Alternates'
    BY <2>1, <2>2, <2>3, AlternatesAppend
  <2>7. Apart'
    <3> SUFFICES ASSUME Unmarred, Reading, NEW i \in DOMAIN inbox', Mistakable(inbox'[i])
                 PROVE  /\ NoDone(inbox', i) /\ (speech # None \/ sts = "closed")
                        /\ \A k \in DOMAIN inbox' : k < i => inbox'[k].type # "call"
      BY <2>1, <2>3, <2>4 DEF Apart, Unmarred, Reading, Answering
    <3>1. i \in DOMAIN inbox /\ inbox[i] = inbox'[i]
      BY <1>1, <2>1, <2>2, Appended
    <3>2. NoDone(inbox, i) /\ i \in Nat
      BY <1>1, <3>1, LenProperties DEF Apart
    <3>3. NoDone(inbox', i)
      BY <1>1, <2>1, <2>2, <3>2, AppendOrder
    <3>. QED  BY <1>1, <2>1, <3>1, <3>3, Appended DEF Apart
  <2>8. Expected'
    BY <2>1, <2>2, <2>3, ExpectedAppend DEF Unmarred, Reading, Answering
  <2>. QED  BY <2>5, <2>6, <2>7, <2>8
<1>. QED  BY <1>2, <1>3, <1>4, <1>5 DEF AgentStep

LEMMA CallerOrder ==
  ASSUME FInv, \/ StreamStarts \/ CallerHangsUp \/ TwilioEnds \/ HelperEnds \/ HelpersNotice
               \/ \E g \in Guards : GuardExpires(g) \/ GuardQuits(g)
  PROVE  Order'
<1>1. task \in [Bridge \cup Guards -> Stages] /\ "receiver" \notin Guards /\ "receiver" \in Bridge
  BY DEF FInv, Order, TInv, Types, Guards, Bridge
<1>2. /\ UNCHANGED <<inbox, speech, sts, closing, started, unsaid, filled, handler>>
      /\ UNCHANGED task["receiver"]
  BY <1>1 DEF StreamStarts, CallerHangsUp, TwilioEnds, HelperEnds, HelpersNotice, GuardExpires,
              GuardQuits, To, Ends, taskVars, netVars, stateVars, agentVars
<1>. QED  BY <1>2, StillOrder DEF Order

LEMMA HandlerOrder == ASSUME FInv, HandlerStep PROVE Order'
<1>1. CASE Serve
  <2>1. DOMAIN inbox' = {} /\ inbox' = inbox
    BY <1>1 DEF Serve, FInv, Order, Served, Starting, agentVars
  <2>2. handler \in Starting /\ handler' = "serving" /\ task'["receiver"] = "stream" /\ ~closing'
    BY <1>1 DEF Serve, FInv, Order, TInv, Types, Served, Starting, stateVars, Bridge, Guards
  <2>. QED  BY <2>1, <2>2 DEF Order, Served, OneCall, Alternates, Apart, Expected, Starting
<1>2. CASE Refuse \/ Resolve \/ RefusalEnds \/ Fail \/ Gathered \/ Settled \/ Finish
  <2>1. /\ handler # "serving" /\ handler' # "serving" /\ (handler' \in Starting => handler \in Starting)
        /\ UNCHANGED <<task, inbox, closing, started, unsaid>>
    BY <1>2 DEF Refuse, Resolve, RefusalEnds, Fail, Gathered, Settled, Finish, Clean, Starting,
                stateVars, agentVars
  <2>2. inbox = <<>>
    BY <2>1 DEF FInv, Order, Served
  <2>. QED  BY <2>1, <2>2, NotServingOrder DEF Order
<1>3. CASE Gather
  <2>1. /\ handler' = "gathering" /\ inbox' = <<>>
        /\ UNCHANGED <<task, closing, started, unsaid>>
    BY <1>3 DEF Gather, stateVars
  <2>. QED  BY <2>1, NotServingOrder DEF Order, Starting
<1>. QED  BY <1>1, <1>2, <1>3 DEF HandlerStep

LEMMA InjectOrder ==
  ASSUME FInv, NEW m \in Messages, Inject(m), sts' = sts
  PROVE  /\ Alternates'
         /\ \/ ~Listening /\ UNCHANGED <<inbox, speech>> /\ (m \in Farewells => unsaid')
            \/ /\ Listening /\ speech = None /\ speech' = m
               /\ Event("started", m) \in Events /\ inbox' = Append(inbox, Event("started", m))
            \/ /\ Listening /\ speech # None /\ speech' = speech /\ (m \in Farewells => unsaid')
               /\ Event("warning", m) \in Events /\ inbox' = Append(inbox, Event("warning", m))
         /\ unsaid => unsaid'
         /\ m \notin Farewells => unsaid' = unsaid
         /\ handler # "serving" => inbox' = inbox
         /\ \A i \in DOMAIN inbox' : inbox'[i].type = "call" => i \in DOMAIN inbox /\ inbox[i] = inbox'[i]
<1>1. inbox \in Seq(Events) /\ TInv
  BY DEF FInv, Order, TInv, Types
<1>2. Event("started", m) \in Events /\ Event("warning", m) \in Events
  BY <1>1, EventTypes DEF Functions
<1>3. CASE ~Listening
  <2>1. UNCHANGED <<inbox, speech>>
    BY <1>3 DEF Inject
  <2>2. Alternates'
    BY <2>1 DEF FInv, Order, Alternates, Followed
  <2>. QED  BY <1>3, <2>1, <2>2 DEF Inject, FInv, TInv, Types
<1>4. CASE Listening /\ speech = None
  <2>1. speech' = m /\ inbox' = Append(inbox, Event("started", m))
    BY <1>4 DEF Inject, Speak
  <2>2. Alternates'
    BY <1>2, <1>4, <2>1, AlternatesAppend DEF Event, Listening
  <2>. QED  BY <1>1, <1>2, <1>4, <2>1, <2>2, Appended DEF Inject, Event, Listening, FInv, TInv,
                        Types
<1>5. CASE Listening /\ speech # None
  <2>1. speech' = speech /\ inbox' = Append(inbox, Event("warning", m))
    BY <1>5 DEF Inject
  <2>2. Alternates'
    BY <1>2, <1>5, <2>1, AlternatesAppend DEF Event, Listening
  <2>3. (m \in Farewells => unsaid') /\ (unsaid => unsaid') /\ (m \notin Farewells => unsaid' = unsaid)
    BY <1>5 DEF Inject, FInv, TInv, Types
  <2>4. \A i \in DOMAIN inbox' : inbox'[i].type = "call" => i \in DOMAIN inbox /\ inbox[i] = inbox'[i]
    BY <1>1, <1>2, <2>1, Appended DEF Event
  <2>. QED  BY <1>2, <1>5, <2>1, <2>2, <2>3, <2>4 DEF Listening
<1>. QED  BY <1>3, <1>4, <1>5

LEMMA FillerOrder == ASSUME FInv, Filler PROVE Order'
<1>1. /\ Inject("filler") /\ sts' = sts /\ filled' /\ "filler" \in Messages
      /\ UNCHANGED <<taskVars, closing, started>>
  BY DEF Filler, netVars, stateVars, Messages
<1>2. task' = task /\ handler' = handler /\ Alternates'
  BY <1>1, InjectOrder DEF taskVars
<1>3. Served' /\ OneCall'
  BY <1>1, <1>2, InjectOrder DEF FInv, Order, Served, OneCall, Answering
<1>4. Apart' /\ Expected'
  BY <1>1 DEF Apart, Expected, Unmarred
<1>. QED  BY <1>2, <1>3, <1>4 DEF Order

LEMMA GuardOrder == ASSUME FInv, NEW g \in Guards, GuardFires(g) PROVE Order'
<1>1. /\ Inject(g) /\ sts' = sts /\ g \in Messages /\ g \in Farewells
      /\ closing' = TRUE /\ started' = FALSE
      /\ handler' = handler /\ filled' = filled /\ At(g, "send")
  BY DEF GuardFires, netVars, Messages, Farewells, Guards
<1>2. task'["receiver"] = task["receiver"] /\ handler \notin Starting
  BY <1>1 DEF GuardFires, To, FInv, TInv, Types, NotYet, Guards, At, None
<1>3. Alternates'
  BY <1>1, InjectOrder
<1>4. Served' /\ OneCall'
  BY <1>1, <1>2, InjectOrder DEF FInv, Order, Served, OneCall, Answering
<1>5. CASE ~Unmarred'
  BY <1>3, <1>4, <1>5 DEF Order, Apart, Expected
<1>6. CASE Unmarred'
  <2>1. /\ Unmarred /\ Listening /\ speech = None /\ sts = "open"
        /\ Event("started", g) \in Events /\ inbox' = Append(inbox, Event("started", g))
    BY <1>1, <1>6, InjectOrder DEF Unmarred, Listening
  <2>2. Begins(Event("started", g)) /\ ~Mistakable(Event("started", g)) /\ inbox \in Seq(Events)
    BY <1>1 DEF Event, Begins, Mistakable, FInv, TInv, Types
  <2>3. Reading => \A i \in DOMAIN inbox : ~Mistakable(inbox[i])
    BY <2>1 DEF FInv, Order, Apart
  <2>4. Promised' /\ (Reading => \A i \in DOMAIN inbox' : ~Mistakable(inbox'[i]))
    BY <2>1, <2>2, <2>3, Appended DEF Promised
  <2>5. Reading' <=> Reading
    BY <1>2 DEF Reading, Answering
  <2>6. Apart' /\ Expected'
    BY <1>1, <2>4, <2>5 DEF Apart, Expected
  <2>. QED  BY <1>3, <1>4, <2>6 DEF Order
<1>. QED  BY <1>5, <1>6

LEMMA ReadOrder == ASSUME FInv, Receive PROVE Order'
<1>. DEFINE e == Head(inbox)
<1>1. inbox \in Seq(Events) /\ inbox # <<>> /\ TInv
  BY DEF Receive, FInv, TInv, Types
<1>2. /\ task["receiver"] = "read" /\ inbox' = Tail(inbox)
      /\ UNCHANGED <<handler, sts, speech, filled, unsaid, closing>>
  BY DEF Receive, Read, Receiving, At, netVars, stateVars
<1>3. /\ Len(inbox) \in Nat \ {0} /\ DOMAIN inbox = 1..Len(inbox) /\ DOMAIN inbox' = 1..(Len(inbox) - 1)
      /\ \A i \in DOMAIN inbox' : inbox'[i] = inbox[i + 1] /\ i + 1 \in DOMAIN inbox
      /\ inbox[1] = e /\ 1 \in DOMAIN inbox /\ e \in Events
  BY <1>1, <1>2, Dropped
<1>4. handler = "serving"
  BY <1>1 DEF FInv, Order, Served
<1>5. task'["receiver"] = IF FarewellOver(e) THEN "playback"
                          ELSE IF e.type = "call" THEN "function" ELSE "read"
  BY <1>1, <1>2 DEF Receive, Read, To, TInv, Types, Bridge
<1>6. started' = IF FarewellOver(e) THEN started ELSE started \/ FarewellBegins(e)
  BY DEF Receive, Read, stateVars
<1>. HIDE DEF e
<1>7. Reading /\ ~Answering
  BY <1>2 DEF Reading, Answering
<1>8. Served'
  BY <1>2, <1>4, <1>5 DEF Served, Starting
<1>9. OneCall'
  <2> SUFFICES ASSUME NEW i \in DOMAIN inbox', NEW j \in DOMAIN inbox', inbox'[i].type = "call"
               PROVE  ~Answering' /\ (inbox'[j].type = "call" => i = j)
    BY DEF OneCall
  <2>1. i + 1 \in DOMAIN inbox /\ j + 1 \in DOMAIN inbox /\ i + 1 # 1 /\ i \in Nat /\ j \in Nat
    BY <1>3
  <2>2. e.type # "call"
    BY <1>3, <2>1 DEF FInv, Order, OneCall
  <2>3. ~Answering'
    BY <1>5, <2>2 DEF Answering
  <2>4. inbox'[j].type = "call" => i + 1 = j + 1
    BY <1>3, <2>1 DEF FInv, Order, OneCall
  <2>. QED  BY <2>1, <2>3, <2>4
<1>10. Alternates'
  <2> SUFFICES ASSUME NEW i \in DOMAIN inbox', inbox'[i].type = "started"
               PROVE  /\ NextDone(inbox', i, {inbox'[i].of})
                      /\ NoDone(inbox', i) => speech' \in {inbox'[i].of} \/ sts' = "closed"
    BY DEF Alternates, Followed
  <2>1. i \in Nat /\ inbox'[i] = inbox[i + 1] /\ Followed(i + 1, {inbox[i + 1].of})
    BY <1>3 DEF FInv, Order, Alternates
  <2>2. NextDone(inbox', i, {inbox[i + 1].of})
    BY <1>1, <1>2, <2>1, TailOrder DEF Followed
  <2>3. NoDone(inbox', i) => NoDone(inbox, i + 1)
    BY <1>1, <1>2, <2>1, TailOrder
  <2>. QED  BY <1>2, <2>1, <2>2, <2>3 DEF Followed
<1>11. Apart'
  <2> SUFFICES ASSUME Unmarred, Reading', NEW i \in DOMAIN inbox', Mistakable(inbox'[i])
               PROVE  /\ NoDone(inbox', i) /\ (speech # None \/ sts = "closed")
                      /\ ~Answering'
                      /\ \A k \in DOMAIN inbox' : k < i => inbox'[k].type # "call"
    BY <1>2 DEF Apart, Unmarred
  <2>1. i \in Nat /\ i + 1 \in DOMAIN inbox /\ Mistakable(inbox[i + 1])
    BY <1>3
  <2>2. /\ NoDone(inbox, i + 1) /\ (speech # None \/ sts = "closed")
        /\ \A k \in DOMAIN inbox : k < i + 1 => inbox[k].type # "call"
    BY <1>7, <2>1 DEF FInv, Order, Apart
  <2>3. NoDone(inbox', i)
    BY <1>1, <1>2, <2>1, <2>2, TailOrder
  <2>4. e.type # "call"
    BY <1>3, <2>1, <2>2
  <2>5. ~Answering'
    BY <1>5, <2>4 DEF Answering
  <2>6. \A k \in DOMAIN inbox' : k < i => inbox'[k].type # "call"
    BY <1>3, <2>1, <2>2
  <2>. QED  BY <2>2, <2>3, <2>5, <2>6
<1>12. Expected'
  <2> SUFFICES ASSUME Unmarred, Reading', closing
               PROVE  /\ started' => Followed(0, Farewells)'
                      /\ ~started' => /\ Promised'
                                      /\ \A k \in DOMAIN inbox' : Mistakable(inbox'[k]) =>
                                           \E i \in DOMAIN inbox' : i < k /\ Begins(inbox'[i])
    BY <1>2, <1>4, <1>5 DEF Expected, Unmarred
  <2>1. ~FarewellOver(e)
    BY <1>5 DEF Reading, Answering
  <2>2. started' <=> started \/ e.type \in {"started", "warning"}
    BY <1>6, <2>1 DEF FarewellBegins
  <2>3. ASSUME started' PROVE Followed(1, Farewells)
    <3>1. CASE started
      <4>1. Followed(0, Farewells) /\ e.type # "done"
        BY <1>4, <1>7, <2>1, <3>1 DEF FInv, Order, Expected, FarewellOver
      <4>. QED  BY <1>1, <4>1, TailOrder DEF Followed, e
    <3>2. CASE ~started
      <4>1. ~Mistakable(e)
        BY <1>3, <1>4, <1>7, <3>2 DEF FInv, Order, Expected
      <4>2. e.type = "started" /\ e.of \in Farewells
        BY <2>2, <2>3, <3>2, <4>1 DEF Mistakable
      <4>3. Followed(1, {e.of})
        BY <1>3, <4>2 DEF FInv, Order, Alternates
      <4>. QED  BY <4>2, <4>3 DEF Followed, NextDone
    <3>. QED  BY <3>1, <3>2
  <2>4. Followed(1, Farewells) => Followed(0, Farewells)'
    <3>1. NextDone(inbox, 0 + 1, Farewells) => NextDone(inbox', 0, Farewells)
      BY <1>1, <1>2, TailOrder
    <3>2. NoDone(inbox', 0) => NoDone(inbox, 0 + 1)
      BY <1>1, <1>2, TailOrder
    <3>. QED  BY <1>2, <3>1, <3>2 DEF Followed
  <2>5. ASSUME ~started'
        PROVE  /\ Promised'
               /\ \A k \in DOMAIN inbox' : Mistakable(inbox'[k]) =>
                    \E i \in DOMAIN inbox' : i < k /\ Begins(inbox'[i])
    <3>1. ~Begins(e) /\ ~started
      BY <2>2, <2>5 DEF Begins
    <3>2. \A i \in DOMAIN inbox : Begins(inbox[i]) => i - 1 \in DOMAIN inbox' /\ inbox'[i - 1] = inbox[i]
      BY <1>3, <3>1
    <3>3. /\ Promised
          /\ \A k \in DOMAIN inbox : Mistakable(inbox[k]) =>
               \E i \in DOMAIN inbox : i < k /\ Begins(inbox[i])
      BY <1>4, <1>7, <3>1 DEF FInv, Order, Expected
    <3>4. Promised'
      BY <3>2, <3>3 DEF Promised
    <3>5. ASSUME NEW k \in DOMAIN inbox', Mistakable(inbox'[k])
          PROVE  \E i \in DOMAIN inbox' : i < k /\ Begins(inbox'[i])
      <4>1. PICK i \in DOMAIN inbox : i < k + 1 /\ Begins(inbox[i])
        BY <1>3, <3>3, <3>5
      <4>. QED  BY <1>3, <3>2, <4>1
    <3>. QED  BY <3>4, <3>5
  <2>. QED  BY <2>3, <2>4, <2>5
<1>. QED  BY <1>8, <1>9, <1>10, <1>11, <1>12 DEF Order

LEMMA AnswerOrder ==
  ASSUME FInv, FunctionReturns \/ EscalationReturns \/ FarewellReturns \/ EffectsEnd
  PROVE  Order'
<1>1. inbox \in Seq(Events) /\ TInv
  BY DEF FInv, Order, TInv, Types
<1>2. /\ Answering /\ Reading /\ handler \notin Starting
      /\ handler' = handler /\ sts' = sts /\ filled' = filled
  BY <1>1 DEF FunctionReturns, EscalationReturns, FarewellReturns, EffectsEnd, Receiving, At, TInv,
              Types, NotYet, None, Answering, Reading, netVars, agentVars
<1>3. Unmarred => \A i \in DOMAIN inbox : ~Mistakable(inbox[i])
  BY <1>2 DEF FInv, Order, Apart
<1>4. \A i \in DOMAIN inbox : inbox[i].type # "call"
  BY <1>2 DEF FInv, Order, OneCall
<1>5. CASE FunctionReturns
  <2>1. /\ task'["receiver"] = "read"
        /\ UNCHANGED <<inbox, speech, sts, closing, started, unsaid, filled, handler>>
    BY <1>1, <1>5 DEF FunctionReturns, To, TInv, Types, Bridge, netVars, stateVars, agentVars
  <2>2. Served' /\ OneCall' /\ Alternates'
    BY <1>4, <2>1 DEF FInv, Order, Served, OneCall, Alternates, Followed
  <2>3. Apart' /\ Expected'
    BY <1>2, <1>3, <2>1 DEF FInv, Order, Apart, Expected, Unmarred, Followed, Promised
  <2>. QED  BY <2>2, <2>3 DEF Order
<1>6. CASE EffectsEnd
  <2>1. /\ task'["receiver"] = "read" /\ closing' = TRUE
        /\ started' = (task["receiver"] = "unsaid")
        /\ task["receiver"] \in {"said", "unsaid"}
        /\ UNCHANGED <<inbox, speech, sts, unsaid, filled, handler>>
    BY <1>1, <1>6 DEF EffectsEnd, Receiving, At, To, TInv, Types, Bridge, netVars, agentVars
  <2>2. Served' /\ OneCall' /\ Alternates'
    BY <1>2, <1>4, <2>1 DEF FInv, Order, Served, OneCall, Alternates, Followed
  <2>3. Apart'
    BY <1>3, <2>1 DEF Apart, Unmarred
  <2>4. Expected'
    <3> SUFFICES ASSUME Unmarred, handler = "serving" PROVE Expected'
      BY <2>1 DEF Expected, Unmarred
    <3>1. task["receiver"] = "said" /\ ~started'
      BY <2>1 DEF FInv, Order, Served, Unmarred
    <3>2. Promised' /\ \A i \in DOMAIN inbox' : ~Mistakable(inbox'[i])
      BY <1>3, <2>1, <3>1 DEF FInv, Order, Expected, Promised
    <3>. QED  BY <2>1, <3>1, <3>2 DEF Expected
  <2>. QED  BY <2>2, <2>3, <2>4 DEF Order
<1>7. CASE EscalationReturns
  <2>1. /\ Inject("reply") /\ "reply" \in Messages /\ "reply" \notin Farewells
        /\ task'["receiver"] = "read" /\ UNCHANGED <<closing, started>>
    BY <1>1, <1>7 DEF EscalationReturns, To, TInv, Types, Bridge, stateVars, Messages, Farewells
  <2>2. Alternates' /\ unsaid' = unsaid /\ (handler # "serving" => inbox' = inbox)
    BY <1>2, <2>1, InjectOrder
  <2>3. Served'
    BY <1>2, <2>1, <2>2 DEF FInv, Order, Served
  <2>4. OneCall'
    BY <1>2, <1>4, <2>1, InjectOrder DEF OneCall
  <2>5. CASE ~Listening
    <3>1. UNCHANGED <<inbox, speech>>
      BY <1>2, <2>1, <2>5, InjectOrder
    <3>2. Apart' /\ Expected'
      BY <1>2, <1>3, <2>1, <2>2, <3>1 DEF FInv, Order, Apart, Expected, Unmarred, Followed, Promised
    <3>. QED  BY <2>2, <2>3, <2>4, <3>2 DEF Order
  <2>6. CASE Listening
    <3>1. PICK type \in {"started", "warning"} :
            /\ Event(type, "reply") \in Events /\ inbox' = Append(inbox, Event(type, "reply"))
            /\ \/ type = "started" /\ speech = None /\ speech' = "reply"
               \/ type = "warning" /\ speech # None /\ speech' = speech
      BY <1>2, <2>1, <2>6, InjectOrder
    <3> DEFINE e == Event(type, "reply")
    <3>2. e.type = type /\ e \in Events /\ inbox' = Append(inbox, e) /\ sts # "closed"
      BY <2>6, <3>1 DEF Event, Listening
    <3> HIDE DEF e
    <3>3. Expected'
      BY <1>2, <2>1, <2>2, <3>1, <3>2, ExpectedAppend DEF Unmarred
    <3>4. Apart'
      <4> SUFFICES ASSUME Unmarred, NEW i \in DOMAIN inbox', Mistakable(inbox'[i])
                   PROVE  NoDone(inbox', i) /\ \A k \in DOMAIN inbox' : k < i => inbox'[k].type # "call"
        BY <1>2, <2>1, <2>2, <3>1 DEF Apart, Unmarred, Answering, None
      <4>1. i = Len(inbox) + 1 /\ Len(inbox) \in Nat
        BY <1>1, <1>3, <3>2, Appended
      <4>2. NoDone(inbox', i)
        <5>1. i \in Nat /\ i > Len(inbox)
          BY <4>1
        <5>. QED  BY <1>1, <3>2, <5>1, AppendOrder
      <4>. QED  BY <1>1, <1>4, <3>2, <4>1, <4>2, Appended
    <3>. QED  BY <2>2, <2>3, <2>4, <3>3, <3>4 DEF Order
  <2>. QED  BY <2>5, <2>6
<1>8. CASE FarewellReturns
  <2>1. /\ Inject("bye") /\ "bye" \in Messages /\ "bye" \in Farewells
        /\ task'["receiver"] = IF sts = "open" THEN "said" ELSE "unsaid"
        /\ UNCHANGED <<closing, started>>
    BY <1>1, <1>8 DEF FarewellReturns, To, TInv, Types, Bridge, stateVars, Messages, Farewells
  <2>2. Alternates' /\ (unsaid => unsaid') /\ (handler # "serving" => inbox' = inbox)
    BY <1>2, <2>1, InjectOrder
  <2>3. Served'
    BY <1>2, <2>1, <2>2, InjectOrder DEF FInv, Order, Served, Listening
  <2>4. OneCall'
    BY <1>2, <1>4, <2>1, InjectOrder DEF OneCall
  <2>5. CASE ~Unmarred'
    BY <2>2, <2>3, <2>4, <2>5 DEF Order, Apart, Expected
  <2>6. CASE Unmarred'
    <3> DEFINE e == Event("started", "bye")
    <3>1. Unmarred /\ Listening /\ speech = None /\ e \in Events /\ inbox' = Append(inbox, e)
      BY <1>2, <2>1, <2>2, <2>6, InjectOrder DEF Unmarred
    <3>2. Begins(e) /\ ~Mistakable(e) /\ e.type = "started" /\ sts # "closed"
      BY <2>1, <3>1 DEF Event, Begins, Mistakable, Listening
    <3> HIDE DEF e
    <3>3. Expected'
      BY <1>2, <2>1, <2>2, <3>1, <3>2, ExpectedAppend
    <3>4. Apart'
      BY <1>1, <1>3, <3>1, <3>2, Appended DEF Apart
    <3>. QED  BY <2>2, <2>3, <2>4, <3>3, <3>4 DEF Order
  <2>. QED  BY <2>5, <2>6
<1>. QED  BY <1>5, <1>6, <1>7, <1>8

LEMMA ReceiverOrder == ASSUME FInv, ReceiverStep \/ ReceiverNotices PROVE Order'
<1>1. CASE ReceiverStarts
  <2>1. /\ task["receiver"] = "stream" /\ task'["receiver"] = "read"
        /\ UNCHANGED <<inbox, speech, sts, closing, started, unsaid, filled, handler>>
    BY <1>1 DEF ReceiverStarts, Receiving, At, To, FInv, TInv, Types, Bridge, netVars, stateVars,
                agentVars
  <2>. QED  BY <2>1 DEF FInv, Order, Served, OneCall, Alternates, Apart, Expected, Promised,
                        Followed,
                        Unmarred, Answering, Reading
<1>2. CASE Receive
  BY <1>2, ReadOrder
<1>3. CASE FunctionReturns \/ EscalationReturns \/ FarewellReturns \/ EffectsEnd
  BY <1>3, AnswerOrder
<1>4. CASE PlaybackEnds \/ HangUp \/ ReceiverEnds \/ ReceiverNotices
  <2>1. /\ task'["receiver"] \in {"hangup", "leave", "done"} /\ (sts' = sts \/ sts' = "closed")
        /\ UNCHANGED <<inbox, speech, closing, started, unsaid, filled, handler>>
    BY <1>4 DEF PlaybackEnds, HangUp, ReceiverEnds, ReceiverNotices, Receiving, At, To, Ends, FInv,
                TInv, Types, Bridge, netVars, stateVars, agentVars
  <2>2. ~Reading' /\ ~Answering' /\ task'["receiver"] \notin {"said", "unsaid"}
    BY <2>1 DEF Reading, Answering
  <2>3. Served' /\ OneCall' /\ Alternates'
    BY <2>1, <2>2 DEF FInv, Order, Served, OneCall, Alternates, Followed
  <2>4. Apart' /\ Expected'
    BY <2>2 DEF Apart, Expected
  <2>. QED  BY <2>3, <2>4 DEF Order
<1>. QED  BY <1>1, <1>2, <1>3, <1>4 DEF ReceiverStep

LEMMA FarewellInit == Init => FInv
<1>1. Init => Served /\ OneCall /\ Alternates /\ Apart /\ Expected
  BY DEF Init, Served, OneCall, Alternates, Apart, Expected, Starting, None, Bridge, Guards, Early
<1>. QED  BY <1>1, TypesInit DEF FInv, Order

LEMMA FarewellStep == ASSUME FInv, [Next]_vars PROVE FInv'
<1>1. TInv'
  BY StepTypes DEF FInv, Order
<1>2. ASSUME Next PROVE Order'
  BY <1>2, AgentOrder, CallerOrder, FillerOrder, GuardOrder, ReceiverOrder, HandlerOrder DEF Next,
                        Order
<1>3. ASSUME UNCHANGED vars PROVE Order'
  BY <1>3, StillOrder DEF vars, taskVars, netVars, stateVars, agentVars, Order
<1>. QED  BY <1>1, <1>2, <1>3 DEF FInv, Order

(* The order of the events in the inbox, as Order says it, is kept by every *)
(* step of a call, with the types.                                          *)
THEOREM FarewellInvariance == Spec => []FInv
BY FarewellInit, FarewellStep, PTL DEF Spec

(* The call is closed at the end of a farewell: in a call without fillers  *)
(* whose farewells the agent could be made to say, what the receiver takes *)
(* for the beginning of the farewell is followed by the end of one         *)
(* (_maybe_finish_farewell), whoever injects farewells or the answer to an *)
(* escalation, in whatever order, and whatever was being said then.        *)
THEOREM FarewellIsHeard == Spec => FarewellHeardUnfilled
<1>1. ASSUME FInv, [Next]_vars, ClosesCall PROVE unsaid \/ filled \/ Head(inbox).of \in Farewells
  <2>. USE <1>1
  <2>1. task["receiver"] = "read" /\ task'["receiver"] = "playback"
        /\ task \in [Bridge \cup Guards -> Stages] /\ inbox \in Seq(Events)
    BY DEF ClosesCall, FInv, TInv, Types
  <2>2. ~AgentStep /\ ~StreamStarts /\ ~CallerHangsUp /\ ~Filler /\ ~(UNCHANGED vars)
    BY <2>1 DEF AgentStep, AgentTalks, SpeechEnds, AgentGone, AgentCalls, StreamStarts,
                CallerHangsUp,
                Filler, vars, taskVars
  <2>3. ~TwilioEnds /\ ~HelperEnds /\ ~HelpersNotice
        /\ \A g \in Guards : ~(GuardExpires(g) \/ GuardFires(g) \/ GuardQuits(g))
    BY <2>1 DEF TwilioEnds, HelperEnds, HelpersNotice, GuardExpires, GuardFires, GuardQuits, To,
                Ends,
                Bridge, Guards
  <2>4. ~HandlerStep
    BY <2>1 DEF HandlerStep, Refuse, RefusalEnds, Resolve, Fail, Serve, Gather, Gathered, Settled,
                Finish,
                Bridge, Guards
  <2>5. Receive
    BY <2>1, <2>2, <2>3, <2>4
    DEF Next, ReceiverStep, ReceiverStarts, FunctionReturns, EscalationReturns, FarewellReturns,
        EffectsEnd, PlaybackEnds, HangUp, ReceiverEnds, ReceiverNotices, Receiving, At, To, Ends, Bridge
  <2>6. inbox # <<>> /\ FarewellOver(Head(inbox)) /\ handler = "serving"
    BY <2>1, <2>5 DEF Receive, Read, To, Bridge, FInv, Order, Served
  <2>7. CASE Unmarred
    <3>1. Followed(0, Farewells) /\ Head(inbox).type = "done"
      BY <2>1, <2>6, <2>7 DEF FInv, Order, Expected, Reading, FarewellOver
    <3>. QED  BY <2>1, <2>6, <3>1, Dropped DEF Followed, NextDone
  <2>. QED  BY <2>7 DEF Unmarred
<1>. QED  BY FarewellInvariance, <1>1, PTL DEF Spec, FarewellHeardUnfilled

(***************************************************************************)
(* Quotients and remainders: how the buffer divides into chunks.           *)
(***************************************************************************)
LEMMA Divided ==
  ASSUME NEW n \in Nat, n > 0, NEW q \in Int, NEW t \in 0..(n - 1)
  PROVE  (q * n + t) % n = t /\ (q * n + t) \div n = q
<1>1. PICK a \in Int : a = q * n + t
  OBVIOUS
<1>2. PICK p, u \in Int : p = a \div n /\ u = a % n
  BY <1>1
<1>3. a = n * p + u /\ 0 <= u /\ u < n
  BY <1>1, <1>2
<1>4. (q - p) * n = u - t
  BY <1>1, <1>3
<1>5. ~(q - p >= 1)
  <2>1. q - p >= 1 => (q - p) * n >= n
    OBVIOUS
  <2>2. QED BY <1>3, <1>4, <2>1
<1>6. ~(q - p <= -1)
  <2>1. q - p <= -1 => (q - p) * n <= -n
    OBVIOUS
  <2>2. QED BY <1>3, <1>4, <2>1
<1>7. q = p
  BY <1>5, <1>6
<1>8. u = t
  BY <1>4, <1>7
<1>9. QED BY <1>1, <1>2, <1>7, <1>8

LEMMA Division ==
  ASSUME NEW n \in Nat, n > 0, NEW a \in Int
  PROVE  \E q, r, m \in Int : /\ a \div n = q /\ a % n = r /\ m = q * n
                              /\ a = m + r /\ 0 <= r /\ r < n
<1>1. PICK p, u \in Int : p = a \div n /\ u = a % n
  OBVIOUS
<1>2. a = n * p + u /\ 0 <= u /\ u < n
  BY <1>1
<1>3. n * p = p * n /\ p * n \in Int
  OBVIOUS
<1>4. QED BY <1>1, <1>2, <1>3

(***************************************************************************)
(* The voice.  What is on its way to the caller, and the buffer behind it, *)
(* are one row of pieces.                                                  *)
(***************************************************************************)
Message == {Chunk(p) : p \in Seq(Nat)} \cup {Clear(n) : n \in Nat}

AudioTypes ==
  /\ said \in Nat /\ cuts \subseteq 0..said
  /\ buffer \in Seq(Nat)
  /\ outbound \in Seq(Message) /\ hand \in Seq(Message) /\ line \in Seq(Message)

Holds(messages, n) == \E i \in DOMAIN messages : \E p \in DOMAIN messages[i].pieces : messages[i].pieces[p] = n

(* The pieces of messages, and then of rest, are numbered upwards to n; what *)
(* is not in them was dropped.                                               *)
Rising(messages, rest, n, dropped) ==
  /\ Ordered(messages)
  /\ \A i \in DOMAIN messages : \A p \in DOMAIN messages[i].pieces :
       /\ messages[i].pieces[p] <= n
       /\ \A q \in DOMAIN rest : messages[i].pieces[p] < rest[q]
  /\ \A p, q \in DOMAIN rest : p < q => rest[p] < rest[q]
  /\ \A q \in DOMAIN rest : rest[q] <= n
  /\ \A m \in 1..n : Holds(messages, m) \/ (\E q \in DOMAIN rest : rest[q] = m) \/ <<"piece", m>> \in dropped

AudioInv ==
  /\ AudioTypes
  /\ Rising(OnTheWay, buffer, said, skipped)
  /\ CutShort
  /\ \A n \in cuts : \A q \in DOMAIN buffer : buffer[q] > n
  /\ SaidToTheEnd

LEMMA MessageKinds ==
  ASSUME NEW m \in Message
  PROVE  /\ m.pieces \in Seq(Nat)
         /\ \A n \in Nat : <<"piece", n>> \in Marks(m) <=> \E p \in DOMAIN m.pieces : m.pieces[p] = n
         /\ \A n \in Nat : <<"clear", n>> \in Marks(m) <=> m = Clear(n)
<1>1. CASE \E p \in Seq(Nat) : m = Chunk(p)
  BY <1>1 DEF Marks, Chunk, Clear
<1>2. CASE \E n \in Nat : m = Clear(n)
  <2>1. PICK k \in Nat : m = Clear(k)
    BY <1>2
  <2>2. m.pieces \in Seq(Nat) /\ DOMAIN m.pieces = {}
    BY <2>1 DEF Clear
  <2>3. Marks(m) = {<<"clear", k>>} /\ \A n \in Nat : m = Clear(n) <=> n = k
    BY <2>1 DEF Marks, Clear
  <2>4. QED BY <2>2, <2>3
<1>3. QED BY <1>1, <1>2 DEF Message

LEMMA MarksOfMessages ==
  ASSUME NEW w \in Seq(Message), NEW n \in Nat
  PROVE  /\ <<"piece", n>> \in MarksOf(w) <=> Holds(w, n)
         /\ <<"clear", n>> \in MarksOf(w) <=> \E i \in DOMAIN w : w[i] = Clear(n)
<1>1. \A i \in DOMAIN w : w[i] \in Message
  OBVIOUS
<1>2. QED BY <1>1, MessageKinds DEF MarksOf, Holds

LEMMA PieceTypes ==
  ASSUME NEW w \in Seq(Message), NEW i \in DOMAIN w
  PROVE  /\ w[i] \in Message /\ DOMAIN w[i].pieces \subseteq Nat
         /\ \A p \in DOMAIN w[i].pieces : w[i].pieces[p] \in Nat
<1>1. w[i] \in Message
  OBVIOUS
<1>2. QED BY <1>1, MessageKinds, LenProperties

LEMMA Joined ==
  ASSUME NEW S, NEW s \in Seq(S), NEW t \in Seq(S)
  PROVE  /\ s \o t \in Seq(S) /\ DOMAIN (s \o t) = 1..(Len(s) + Len(t))
         /\ \A i \in DOMAIN s : i \in DOMAIN (s \o t) /\ (s \o t)[i] = s[i]
         /\ \A i \in DOMAIN t : Len(s) + i \in DOMAIN (s \o t) /\ (s \o t)[Len(s) + i] = t[i]
         /\ \A i \in DOMAIN (s \o t) :
              i \in DOMAIN s \/ (i - Len(s) \in DOMAIN t /\ (s \o t)[i] = t[i - Len(s)])
<1>1. /\ s \o t \in Seq(S) /\ Len(s \o t) = Len(s) + Len(t)
      /\ \A i \in 1 .. Len(s) + Len(t) : (s \o t)[i] = IF i <= Len(s) THEN s[i] ELSE t[i - Len(s)]
  BY ConcatProperties
<1>2. DOMAIN s = 1..Len(s) /\ DOMAIN t = 1..Len(t) /\ Len(s) \in Nat /\ Len(t) \in Nat
  BY LenProperties
<1>3. DOMAIN (s \o t) = 1..Len(s \o t)
  BY <1>1, LenProperties
<1>4. QED BY <1>1, <1>2, <1>3

-----------------------------------------------------------------------------
(* Chunks. *)

LEMMA Times ==
  ASSUME NEW a \in Nat, NEW b \in Nat, NEW c \in Nat, a <= b
  PROVE  a * c <= b * c
<1>1. (b - a) * c >= 0
  OBVIOUS
<1>2. (b - a) * c = b * c - a * c
  OBVIOUS
<1>3. QED BY <1>1, <1>2

(* The k-th of the whole chunks has the pieces after the (k - 1) * ChunkSize   *)
(* that the chunks before it have, and the remainder what the last one leaves. *)
LEMMA Cutting ==
  ASSUME NEW pieces \in Seq(Nat)
  PROVE  \E count \in Nat :
           /\ count * ChunkSize = Whole(pieces) /\ Whole(pieces) <= Len(pieces) /\ Whole(pieces) \in Nat
           /\ DOMAIN Chunks(pieces) = 1..count /\ Chunks(pieces) \in Seq(Message)
           /\ \A k \in 1..count :
                /\ DOMAIN Chunks(pieces)[k].pieces = 1..ChunkSize
                /\ \A p \in 1..ChunkSize : /\ (k - 1) * ChunkSize + p \in 1..Whole(pieces)
                                           /\ Chunks(pieces)[k].pieces[p] = pieces[(k - 1) * ChunkSize + p]
           /\ Remainder(pieces) \in Seq(Nat)
           /\ DOMAIN Remainder(pieces) = 1..(Len(pieces) - Whole(pieces))
           /\ \A q \in DOMAIN Remainder(pieces) : Remainder(pieces)[q] = pieces[Whole(pieces) + q]
<1> DEFINE C == ChunkSize
           L == Len(pieces)
<1>1. C \in Nat /\ C > 0 /\ L \in Nat
  BY AudioAssumption, LenProperties
<1>2. PICK count, u \in Int : count = L \div C /\ u = L % C
  BY <1>1
<1>3. L = C * count + u /\ 0 <= u /\ u < C
  BY <1>1, <1>2
<1>4. count \in Nat
  <2>1. count < 0 => C * count <= -C
    BY <1>1
  <2>2. QED BY <1>1, <1>3, <2>1
<1>5. Whole(pieces) = count * C /\ Whole(pieces) <= L /\ Whole(pieces) \in Nat
  <2>1. Whole(pieces) = L - u
    BY <1>2 DEF Whole
  <2>2. C * count \in Nat /\ C * count = count * C
    BY <1>1, <1>4
  <2>3. QED BY <1>1, <1>3, <2>1, <2>2
<1>6. Whole(pieces) \div C = count
  <2>1. (count * C + 0) \div C = count
    BY <1>1, <1>4, Divided
  <2>2. count * C + 0 = count * C
    BY <1>1, <1>4
  <2>3. QED BY <1>5, <2>1, <2>2
<1>7. \A k \in 1..count : \A p \in 1..C : (k - 1) * C + p \in 1..Whole(pieces)
  <2> SUFFICES ASSUME NEW k \in 1..count, NEW p \in 1..C
               PROVE  (k - 1) * C + p \in 1..Whole(pieces)
    OBVIOUS
  <2>1. k * C <= count * C
    BY <1>1, <1>4, Times
  <2>2. (k - 1) * C = k * C - C /\ (k - 1) * C >= 0
    BY <1>1
  <2>3. QED BY <1>1, <1>5, <2>1, <2>2
<1>8. ASSUME NEW k \in 1..count
      PROVE  LET s == SubSeq(pieces, (k - 1) * C + 1, k * C) IN
             s \in Seq(Nat) /\ DOMAIN s = 1..C /\ \A p \in 1..C : s[p] = pieces[(k - 1) * C + p]
  <2> DEFINE a == (k - 1) * C
  <2>1. a \in Nat /\ k * C = a + C /\ a + C <= L
    BY <1>1, <1>5, <1>7
  <2> HIDE DEF a
  <2>2. \A i \in (a + 1)..(a + C) : pieces[i] \in Nat
    BY <2>1, <1>1
  <2>3. LET s == SubSeq(pieces, a + 1, a + C) IN
        /\ s \in Seq(Nat) /\ Len(s) = IF a + 1 <= a + C THEN (a + C) - (a + 1) + 1 ELSE 0
        /\ \A i \in 1 .. (a + C) - (a + 1) + 1 : s[i] = pieces[(a + 1) + i - 1]
    BY <2>1, <2>2, <1>1, SubSeqProperties
  <2>4. LET s == SubSeq(pieces, a + 1, a + C) IN
        s \in Seq(Nat) /\ DOMAIN s = 1..C /\ \A p \in 1..C : s[p] = pieces[a + p]
    <3> DEFINE s == SubSeq(pieces, a + 1, a + C)
    <3> HIDE DEF s
    <3>1. s \in Seq(Nat) /\ Len(s) = C /\ \A i \in 1..C : s[i] = pieces[(a + 1) + i - 1]
      BY <2>1, <2>3, <1>1 DEF s
    <3>2. \A p \in 1..C : (a + 1) + p - 1 = a + p
      BY <2>1, <1>1
    <3>3. s \in Seq(Nat) /\ DOMAIN s = 1..C /\ \A p \in 1..C : s[p] = pieces[a + p]
      BY <3>1, <3>2, LenProperties
    <3>4. QED BY <3>3 DEF s
  <2>5. QED BY <2>1, <2>4 DEF a
<1>9. Chunks(pieces) = [k \in 1..count |-> Chunk(SubSeq(pieces, (k - 1) * C + 1, k * C))]
  BY <1>6 DEF Chunks
<1>10. /\ DOMAIN Chunks(pieces) = 1..count /\ Chunks(pieces) \in Seq(Message)
       /\ \A k \in 1..count : Chunks(pieces)[k].pieces = SubSeq(pieces, (k - 1) * C + 1, k * C)
  <2>1. \A k \in 1..count : Chunk(SubSeq(pieces, (k - 1) * C + 1, k * C)) \in Message
    BY <1>8 DEF Message
  <2>2. Chunks(pieces) \in [1..count -> Message]
    BY <1>9, <2>1
  <2>3. Chunks(pieces) \in Seq(Message)
    <3>1. [1..count -> Message] \in {[1..n -> Message] : n \in Nat}
      BY <1>4
    <3>2. Seq(Message) = UNION {[1..n -> Message] : n \in Nat}
      BY SeqDef
    <3>3. \A T, x, y : x \in y /\ y \in T => x \in UNION T
      OBVIOUS
    <3>4. Chunks(pieces) \in UNION {[1..n -> Message] : n \in Nat}
      BY <2>2, <3>1, <3>3
    <3>5. QED BY <3>2, <3>4
  <2>4. \A p : Chunk(p).pieces = p
    BY DEF Chunk
  <2>5. DOMAIN Chunks(pieces) = 1..count
    BY <1>9
  <2>6. \A k \in 1..count : Chunks(pieces)[k] = Chunk(SubSeq(pieces, (k - 1) * C + 1, k * C))
    BY <1>9
  <2>7. QED BY <2>3, <2>4, <2>5, <2>6
<1>11. /\ Remainder(pieces) \in Seq(Nat)
       /\ DOMAIN Remainder(pieces) = 1..(L - Whole(pieces))
       /\ \A q \in DOMAIN Remainder(pieces) : Remainder(pieces)[q] = pieces[Whole(pieces) + q]
  <2> DEFINE a == Whole(pieces)
             s == Remainder(pieces)
  <2>1. a \in Nat /\ a <= L /\ \A i \in (a + 1)..L : pieces[i] \in Nat
    BY <1>1, <1>5
  <2>2. s = SubSeq(pieces, a + 1, L)
    BY DEF Remainder
  <2> HIDE DEF a, s
  <2>3. /\ SubSeq(pieces, a + 1, L) \in Seq(Nat)
        /\ Len(SubSeq(pieces, a + 1, L)) = IF a + 1 <= L THEN L - (a + 1) + 1 ELSE 0
        /\ \A i \in 1 .. L - (a + 1) + 1 : SubSeq(pieces, a + 1, L)[i] = pieces[(a + 1) + i - 1]
    BY <1>1, <2>1, SubSeqProperties
  <2>4. s \in Seq(Nat) /\ Len(s) = L - a /\ \A i \in 1..(L - a) : s[i] = pieces[(a + 1) + i - 1]
    BY <1>1, <2>1, <2>2, <2>3
  <2>5. \A i \in 1..(L - a) : (a + 1) + i - 1 = a + i
    BY <1>1, <2>1
  <2>6. s \in Seq(Nat) /\ DOMAIN s = 1..(L - a) /\ \A q \in DOMAIN s : s[q] = pieces[a + q]
    BY <2>4, <2>5, LenProperties
  <2>7. QED BY <2>6 DEF a, s
<1>12. QED BY <1>4, <1>5, <1>7, <1>8, <1>10, <1>11

(* Whatever is cut from the buffer and queued keeps the row as it is, if it *)
(* is what was at the front of the buffer, in its order.                    *)
LEMMA Extended ==
  ASSUME NEW w \in Seq(Message), NEW new \in Seq(Message), NEW before \in Seq(Nat), NEW rest \in Seq(Nat),
         NEW n \in Nat, NEW dropped, Rising(w, before, n, dropped), Ordered(new),
         \A k \in DOMAIN new : \A p \in DOMAIN new[k].pieces :
           /\ \E x \in DOMAIN before : new[k].pieces[p] = before[x]
           /\ \A q \in DOMAIN rest : new[k].pieces[p] < rest[q],
         \A p, q \in DOMAIN rest : p < q => rest[p] < rest[q],
         \A q \in DOMAIN rest : \E x \in DOMAIN before : rest[q] = before[x],
         \A x \in DOMAIN before : Holds(new, before[x]) \/ \E q \in DOMAIN rest : rest[q] = before[x]
  PROVE  Rising(w \o new, rest, n, dropped)
<1> DEFINE v == w \o new
<1>1. /\ \A i \in DOMAIN w : i \in DOMAIN v /\ v[i] = w[i]
      /\ \A i \in DOMAIN new : Len(w) + i \in DOMAIN v /\ v[Len(w) + i] = new[i]
      /\ \A i \in DOMAIN v :
           (i \in DOMAIN w /\ v[i] = w[i]) \/ (i - Len(w) \in DOMAIN new /\ v[i] = new[i - Len(w)])
  BY Joined
<1>2. /\ DOMAIN w = 1..Len(w) /\ DOMAIN new = 1..Len(new) /\ Len(w) \in Nat /\ Len(new) \in Nat
      /\ DOMAIN v = 1..(Len(w) + Len(new))
  BY Joined, LenProperties
<1> HIDE DEF v
<1>3. /\ \A i \in DOMAIN w : DOMAIN w[i].pieces \subseteq Nat /\ \A p \in DOMAIN w[i].pieces : w[i].pieces[p] \in Nat
      /\ \A i \in DOMAIN new : DOMAIN new[i].pieces \subseteq Nat /\ \A p \in DOMAIN new[i].pieces : new[i].pieces[p] \in Nat
      /\ \A x \in DOMAIN before : before[x] \in Nat
      /\ \A x \in DOMAIN rest : rest[x] \in Nat
  BY PieceTypes
<1>4. Ordered(v)
  <2> SUFFICES ASSUME NEW i \in DOMAIN v, NEW j \in DOMAIN v,
                      NEW p \in DOMAIN v[i].pieces, NEW q \in DOMAIN v[j].pieces,
                      i < j \/ (i = j /\ p < q)
               PROVE  v[i].pieces[p] < v[j].pieces[q]
    BY DEF Ordered
  <2>1. CASE i \in DOMAIN w /\ j \in DOMAIN w
    BY <1>1, <2>1 DEF Rising, Ordered
  <2>2. CASE i \in DOMAIN w /\ j \notin DOMAIN w
    <3>1. v[i] = w[i] /\ j - Len(w) \in DOMAIN new /\ v[j] = new[j - Len(w)]
      BY <1>1, <2>2
    <3>2. PICK x \in DOMAIN before : v[j].pieces[q] = before[x]
      BY <3>1
    <3>3. QED BY <2>2, <3>1, <3>2 DEF Rising
  <2>3. CASE i \notin DOMAIN w
    <3>1. j \notin DOMAIN w
      BY <1>2, <2>3
    <3>2. /\ i - Len(w) \in DOMAIN new /\ v[i] = new[i - Len(w)]
          /\ j - Len(w) \in DOMAIN new /\ v[j] = new[j - Len(w)]
      BY <1>1, <2>3, <3>1
    <3>3. i - Len(w) < j - Len(w) \/ (i - Len(w) = j - Len(w) /\ p < q)
      BY <1>2
    <3>4. QED BY <3>2, <3>3 DEF Ordered
  <2>4. QED BY <2>1, <2>2, <2>3
<1>5. ASSUME NEW i \in DOMAIN v, NEW p \in DOMAIN v[i].pieces
      PROVE  v[i].pieces[p] <= n /\ \A q \in DOMAIN rest : v[i].pieces[p] < rest[q]
  <2>1. CASE i \in DOMAIN w
    BY <1>1, <2>1 DEF Rising
  <2>2. CASE i \notin DOMAIN w
    BY <1>1, <2>2 DEF Rising
  <2>3. QED BY <2>1, <2>2
<1>6. \A q \in DOMAIN rest : rest[q] <= n
  BY DEF Rising
<1>7. ASSUME NEW m \in 1..n
      PROVE  Holds(v, m) \/ (\E q \in DOMAIN rest : rest[q] = m) \/ <<"piece", m>> \in dropped
  <2>1. CASE Holds(w, m)
    BY <1>1, <2>1 DEF Holds
  <2>2. CASE \E q \in DOMAIN before : before[q] = m
    <3>1. Holds(new, m) => Holds(v, m)
      BY <1>1 DEF Holds
    <3>2. QED BY <2>2, <3>1
  <2>3. QED BY <2>1, <2>2 DEF Rising
<1>8. QED BY <1>4, <1>5, <1>6, <1>7 DEF Rising, v

LEMMA Chunked ==
  ASSUME NEW w \in Seq(Message), NEW pieces \in Seq(Nat), NEW n \in Nat, NEW dropped,
         Rising(w, pieces, n, dropped)
  PROVE  Rising(w \o Chunks(pieces), Remainder(pieces), n, dropped)
<1> DEFINE C == ChunkSize
           new == Chunks(pieces)
           rest == Remainder(pieces)
           a == Whole(pieces)
<1>1. PICK count \in Nat :
        /\ count * C = a /\ a <= Len(pieces) /\ a \in Nat
        /\ DOMAIN new = 1..count /\ new \in Seq(Message)
        /\ \A k \in 1..count :
             /\ DOMAIN new[k].pieces = 1..C
             /\ \A p \in 1..C : /\ (k - 1) * C + p \in 1..a
                               /\ new[k].pieces[p] = pieces[(k - 1) * C + p]
        /\ rest \in Seq(Nat)
        /\ DOMAIN rest = 1..(Len(pieces) - a)
        /\ \A q \in DOMAIN rest : rest[q] = pieces[a + q]
  BY Cutting
<1> HIDE DEF new, rest, a
<1>2. C \in Nat /\ C > 0 /\ Len(pieces) \in Nat /\ DOMAIN pieces = 1..Len(pieces)
  BY AudioAssumption, LenProperties
<1>a. a \in Nat /\ a <= Len(pieces) /\ 1..a \subseteq 1..Len(pieces) /\ DOMAIN rest = 1..(Len(pieces) - a)
      /\ \A q \in DOMAIN rest : rest[q] = pieces[a + q]
  <2>1. a \in Nat /\ a <= Len(pieces)
    BY <1>1
  <2>2. 1..a \subseteq 1..Len(pieces)
    BY <2>1, <1>2
  <2>3. QED BY <1>1, <2>1, <2>2
<1>3. \A x, y \in 1..Len(pieces) : x < y => pieces[x] < pieces[y]
  BY <1>2 DEF Rising
<1>4. Ordered(new)
  <2> SUFFICES ASSUME NEW k \in 1..count, NEW l \in 1..count, NEW p \in 1..C, NEW q \in 1..C,
                      k < l \/ (k = l /\ p < q)
               PROVE  new[k].pieces[p] < new[l].pieces[q]
    BY <1>1 DEF Ordered
  <2>1. /\ (k - 1) * C + p \in 1..Len(pieces) /\ (l - 1) * C + q \in 1..Len(pieces)
        /\ new[k].pieces[p] = pieces[(k - 1) * C + p] /\ new[l].pieces[q] = pieces[(l - 1) * C + q]
    <3>1. (k - 1) * C + p \in 1..a /\ (l - 1) * C + q \in 1..a
      BY <1>1
    <3>2. QED BY <1>1, <1>a, <3>1
  <2>2. (k - 1) * C + p < (l - 1) * C + q
    <3>1. CASE k = l
      BY <3>1, <1>2
    <3>2. CASE k < l
      <4>1. k * C <= (l - 1) * C
        BY <3>2, <1>2, Times
      <4>2. (k - 1) * C = k * C - C /\ k * C \in Nat /\ (l - 1) * C \in Nat
        BY <1>2
      <4>3. QED BY <1>2, <4>1, <4>2
    <3>3. QED BY <3>1, <3>2
  <2>3. QED BY <1>3, <2>1, <2>2
<1>5. ASSUME NEW k \in DOMAIN new, NEW p \in DOMAIN new[k].pieces
      PROVE  /\ \E x \in DOMAIN pieces : new[k].pieces[p] = pieces[x]
             /\ \A q \in DOMAIN rest : new[k].pieces[p] < rest[q]
  <2>1. (k - 1) * C + p \in 1..a /\ new[k].pieces[p] = pieces[(k - 1) * C + p]
    BY <1>1
  <2>2. PICK x \in 1..a : new[k].pieces[p] = pieces[x]
    BY <2>1
  <2>3. \A q \in DOMAIN rest : a + q \in 1..Len(pieces) /\ x < a + q /\ x \in 1..Len(pieces)
    BY <1>a, <1>2
  <2>4. \A q \in DOMAIN rest : new[k].pieces[p] < rest[q]
    BY <1>a, <1>3, <2>2, <2>3
  <2>5. x \in DOMAIN pieces
    BY <1>a, <1>2
  <2>6. QED BY <2>2, <2>4, <2>5
<1>6. /\ \A q \in DOMAIN rest : a + q \in DOMAIN pieces /\ rest[q] = pieces[a + q]
      /\ \A p, q \in DOMAIN rest : p < q => rest[p] < rest[q]
  <2>1. \A q \in DOMAIN rest : a + q \in DOMAIN pieces /\ rest[q] = pieces[a + q]
    BY <1>a, <1>2
  <2>2. ASSUME NEW p \in DOMAIN rest, NEW q \in DOMAIN rest, p < q
        PROVE  rest[p] < rest[q]
    <3>1. a + p < a + q
      BY <1>a, <1>2, <2>2
    <3>2. QED BY <1>2, <1>3, <2>1, <3>1
  <2>3. QED BY <2>1, <2>2
<1>7. ASSUME NEW x \in DOMAIN pieces
      PROVE  Holds(new, pieces[x]) \/ \E q \in DOMAIN rest : rest[q] = pieces[x]
  <2>1. CASE x > a
    <3>1. x - a \in DOMAIN rest /\ a + (x - a) = x
      BY <1>a, <1>2, <2>1
    <3>2. QED BY <1>a, <3>1
  <2>2. CASE x <= a
    <3>1. x - 1 \in Int /\ 1 <= x
      BY <1>2
    <3>2. PICK d, u, e \in Int : e = d * C /\ x - 1 = e + u /\ 0 <= u /\ u < C
      <4>1. PICK y \in Int : y = x - 1
        BY <3>1
      <4>2. PICK d, u, e \in Int : e = d * C /\ y = e + u /\ 0 <= u /\ u < C
        BY <1>2, Division
      <4>3. QED BY <4>1, <4>2
    <3>3. d >= 0
      <4>1. d <= -1 => e <= -C
        BY <1>2, <3>2
      <4>2. QED BY <1>2, <3>1, <3>2, <4>1
    <3>4. d < count
      <4>1. d >= count => count * C <= d * C
        BY <1>2, <3>3, Times
      <4>2. d >= count => a <= e
        BY <1>1, <3>2, <4>1
      <4>3. x \in Int /\ a \in Nat
        BY <1>2, <1>a
      <4>4. QED BY <1>2, <2>2, <3>2, <4>2, <4>3
    <3>5. d + 1 \in 1..count /\ u + 1 \in 1..C /\ ((d + 1) - 1) * C + (u + 1) = x
      <4>1. (d + 1) - 1 = d
        OBVIOUS
      <4>2. e + (u + 1) = x
        BY <1>2, <3>2
      <4>3. d + 1 \in 1..count /\ u + 1 \in 1..C
        BY <1>2, <3>2, <3>3, <3>4
      <4>4. QED BY <3>2, <4>1, <4>2, <4>3
    <3>6. new[d + 1].pieces[u + 1] = pieces[x]
      BY <1>1, <3>5
    <3>7. QED BY <1>1, <3>5, <3>6 DEF Holds
  <2>3. QED BY <1>a, <1>2, <2>1, <2>2
<1>8. Rising(w \o new, rest, n, dropped)
  BY <1>1, <1>4, <1>5, <1>6, <1>7, Extended
<1>9. QED BY <1>8 DEF new, rest

(* What the agent says goes to the end of the row, or is dropped. *)
LEMMA Spoken ==
  ASSUME NEW w \in Seq(Message), NEW rest \in Seq(Nat), NEW n \in Nat, NEW dropped, NEW burst \in Nat,
         Rising(w, rest, n, dropped)
  PROVE  LET more == rest \o [k \in 1..burst |-> n + k] IN
         /\ more \in Seq(Nat) /\ Rising(w, more, n + burst, dropped)
         /\ \A q \in DOMAIN more : more[q] > n \/ \E p \in DOMAIN rest : more[q] = rest[p]
<1> DEFINE new == [k \in 1..burst |-> n + k]
           more == rest \o new
<1>1. new \in Seq(Nat) /\ DOMAIN new = 1..burst /\ \A k \in 1..burst : new[k] = n + k
  <2>1. new \in [1..burst -> Nat]
    OBVIOUS
  <2>2. QED BY <2>1
<1> HIDE DEF new
<1>2. /\ more \in Seq(Nat) /\ DOMAIN more = 1..(Len(rest) + Len(new))
      /\ \A i \in DOMAIN rest : i \in DOMAIN more /\ more[i] = rest[i]
      /\ \A i \in DOMAIN new : Len(rest) + i \in DOMAIN more /\ more[Len(rest) + i] = new[i]
      /\ \A i \in DOMAIN more : i \in DOMAIN rest \/ (i - Len(rest) \in DOMAIN new /\ more[i] = new[i - Len(rest)])
  BY <1>1, Joined
<1>3. DOMAIN rest = 1..Len(rest) /\ Len(rest) \in Nat /\ DOMAIN new = 1..Len(new) /\ Len(new) \in Nat
  BY <1>1, LenProperties
<1> HIDE DEF more
<1>4. \A q \in DOMAIN rest : rest[q] \in Nat /\ rest[q] <= n
  BY DEF Rising
<1>5. ASSUME NEW q \in DOMAIN more
      PROVE  /\ more[q] <= n + burst
             /\ q \notin DOMAIN rest => more[q] > n
             /\ more[q] > n \/ \E p \in DOMAIN rest : more[q] = rest[p]
  <2>1. CASE q \in DOMAIN rest
    BY <1>2, <1>4, <2>1
  <2>2. CASE q \notin DOMAIN rest
    <3>1. q - Len(rest) \in 1..burst /\ more[q] = n + (q - Len(rest))
      BY <1>1, <1>2, <2>2
    <3>2. QED BY <2>2, <3>1
  <2>3. QED BY <2>1, <2>2
<1>6. ASSUME NEW p \in DOMAIN more, NEW q \in DOMAIN more, p < q
      PROVE  more[p] < more[q]
  <2>1. CASE q \in DOMAIN rest
    <3>1. p \in DOMAIN rest
      BY <1>2, <1>3, <1>6, <2>1
    <3>2. QED BY <1>2, <1>6, <2>1, <3>1 DEF Rising
  <2>2. CASE p \in DOMAIN rest /\ q \notin DOMAIN rest
    <3>1. more[p] \in Nat /\ more[p] <= n /\ more[q] \in Nat /\ more[q] > n
      BY <1>2, <1>4, <1>5, <2>2
    <3>2. QED BY <3>1
  <2>3. CASE p \notin DOMAIN rest /\ q \notin DOMAIN rest
    <3>1. /\ p - Len(rest) \in 1..burst /\ more[p] = n + (p - Len(rest))
          /\ q - Len(rest) \in 1..burst /\ more[q] = n + (q - Len(rest))
      BY <1>1, <1>2, <2>3
    <3>2. p \in Nat /\ q \in Nat
      BY <1>2, <1>3
    <3>3. QED BY <1>3, <1>6, <3>1, <3>2
  <2>4. QED BY <2>1, <2>2, <2>3
<1>7. ASSUME NEW i \in DOMAIN w, NEW p \in DOMAIN w[i].pieces
      PROVE  w[i].pieces[p] <= n + burst /\ \A q \in DOMAIN more : w[i].pieces[p] < more[q]
  <2>1. w[i].pieces[p] \in Nat /\ w[i].pieces[p] <= n
    BY PieceTypes DEF Rising
  <2>2. ASSUME NEW q \in DOMAIN more
        PROVE  w[i].pieces[p] < more[q]
    <3>1. CASE q \in DOMAIN rest
      BY <1>2, <3>1 DEF Rising
    <3>2. CASE q \notin DOMAIN rest
      <4>1. more[q] > n /\ more[q] \in Nat
        BY <1>2, <1>5, <3>2
      <4>2. QED BY <2>1, <4>1
    <3>3. QED BY <3>1, <3>2
  <2>3. QED BY <2>1, <2>2
<1>8. ASSUME NEW m \in 1..(n + burst)
      PROVE  Holds(w, m) \/ (\E q \in DOMAIN more : more[q] = m) \/ <<"piece", m>> \in dropped
  <2>1. CASE m <= n
    <3>1. m \in 1..n
      BY <2>1
    <3>2. QED BY <1>2, <3>1 DEF Rising
  <2>2. CASE m > n
    <3>1. m - n \in 1..burst /\ n + (m - n) = m
      BY <2>2
    <3>2. QED BY <1>1, <1>2, <3>1
  <2>3. QED BY <2>1, <2>2
<1>9. Rising(w, more, n + burst, dropped)
  <2>1. Ordered(w)
    BY DEF Rising
  <2>2. QED BY <2>1, <1>5, <1>6, <1>7, <1>8 DEF Rising
<1>10. QED BY <1>2, <1>5, <1>9 DEF more, new

LEMMA Unheard ==
  ASSUME NEW w \in Seq(Message), NEW rest \in Seq(Nat), NEW n \in Nat, NEW dropped, NEW burst \in Nat,
         Rising(w, rest, n, dropped)
  PROVE  Rising(w, rest, n + burst, dropped \cup {<<"piece", n + k>> : k \in 1..burst})
<1> DEFINE lost == dropped \cup {<<"piece", n + k>> : k \in 1..burst}
<1>1. ASSUME NEW m \in 1..(n + burst)
      PROVE  Holds(w, m) \/ (\E q \in DOMAIN rest : rest[q] = m) \/ <<"piece", m>> \in lost
  <2>1. CASE m <= n
    <3>1. m \in 1..n
      BY <2>1
    <3>2. QED BY <3>1 DEF Rising
  <2>2. CASE m > n
    <3>1. m - n \in 1..burst /\ n + (m - n) = m
      BY <2>2
    <3>2. <<"piece", n + (m - n)>> \in lost
      BY <3>1
    <3>3. QED BY <3>1, <3>2
  <2>3. QED BY <2>1, <2>2
<1>2. \A i \in DOMAIN w : \A p \in DOMAIN w[i].pieces : w[i].pieces[p] <= n + burst
  BY PieceTypes DEF Rising
<1>3. \A q \in DOMAIN rest : rest[q] <= n + burst
  <2>1. \A q \in DOMAIN rest : rest[q] \in Nat /\ rest[q] <= n
    BY DEF Rising
  <2>2. QED BY <2>1
<1>4. QED BY <1>1, <1>2, <1>3 DEF Rising

(* The whole buffer is queued when an utterance ends. *)
LEMMA Flushed ==
  ASSUME NEW w \in Seq(Message), NEW rest \in Seq(Nat), NEW n \in Nat, NEW dropped,
         Rising(w, rest, n, dropped)
  PROVE  Rising(w \o <<Chunk(rest)>>, << >>, n, dropped)
<1> DEFINE new == <<Chunk(rest)>>
<1>1. new \in Seq(Message) /\ DOMAIN new = {1} /\ new[1].pieces = rest
  <2>1. Chunk(rest) \in Message
    BY DEF Message
  <2>2. Chunk(rest).pieces = rest
    BY DEF Chunk
  <2>3. new \in Seq(Message) /\ DOMAIN new = {1} /\ new[1] = Chunk(rest)
    BY <2>1
  <2>4. QED BY <2>2, <2>3
<1> HIDE DEF new
<1>2. << >> \in Seq(Nat) /\ DOMAIN << >> = {}
  OBVIOUS
<1>3. Ordered(new)
  BY <1>1 DEF Ordered, Rising
<1>4. \A x \in DOMAIN rest : Holds(new, rest[x])
  BY <1>1 DEF Holds
<1>5. Rising(w \o new, << >>, n, dropped)
  BY <1>1, <1>2, <1>3, <1>4, Extended
<1>6. QED BY <1>5 DEF new

-----------------------------------------------------------------------------
(* The queue.  head is what the sender has sent or holds, queue what waits   *)
(* behind it with what was put to its end, before the oldest fell out.       *)

Fallen(queue) == SubSeq(queue, Excess(queue) + 1, Len(queue))

LEMMA Fell ==
  ASSUME NEW head \in Seq(Message), NEW queue \in Seq(Message)
  PROVE  \E d \in Nat :
           LET w == head \o queue  v == head \o Fallen(queue) IN
           /\ Fallen(queue) \in Seq(Message) /\ v \in Seq(Message) /\ w \in Seq(Message)
           /\ \A i \in DOMAIN v :
                \/ i \in DOMAIN head /\ i \in DOMAIN w /\ v[i] = w[i]
                \/ i > Len(head) /\ i + d \in DOMAIN w /\ v[i] = w[i + d]
           /\ \A i \in DOMAIN w :
                \/ i \in DOMAIN head /\ i \in DOMAIN v /\ v[i] = w[i]
                \/ i > Len(head) /\ i <= Len(head) + d
                \/ i - d > Len(head) /\ i - d \in DOMAIN v /\ v[i - d] = w[i]
<1> DEFINE d == Excess(queue)
           l == Len(queue)
           h == Len(head)
           tail == Fallen(queue)
           w == head \o queue
           v == head \o tail
<1>1. l \in Nat /\ h \in Nat /\ DOMAIN queue = 1..l /\ DOMAIN head = 1..h
  BY LenProperties
<1>2. d \in Nat /\ d <= l
  BY <1>1, AudioAssumption DEF Excess
<1>3. tail \in Seq(Message) /\ Len(tail) = l - d /\ DOMAIN tail = 1..(l - d) /\ \A i \in 1..(l - d) : tail[i] = queue[d + i]
  <2>1. tail = SubSeq(queue, d + 1, l)
    BY DEF Fallen
  <2> HIDE DEF d, l, tail
  <2>2. \A i \in (d + 1)..l : queue[i] \in Message
    BY <1>1, <1>2
  <2>3. /\ SubSeq(queue, d + 1, l) \in Seq(Message)
        /\ Len(SubSeq(queue, d + 1, l)) = IF d + 1 <= l THEN l - (d + 1) + 1 ELSE 0
        /\ \A i \in 1 .. l - (d + 1) + 1 : SubSeq(queue, d + 1, l)[i] = queue[(d + 1) + i - 1]
    BY <1>1, <1>2, <2>2, SubSeqProperties
  <2>4. tail \in Seq(Message) /\ Len(tail) = l - d /\ \A i \in 1..(l - d) : tail[i] = queue[(d + 1) + i - 1]
    BY <1>1, <1>2, <2>1, <2>3
  <2>5. \A i \in 1..(l - d) : (d + 1) + i - 1 = d + i
    BY <1>1, <1>2
  <2>6. QED BY <2>4, <2>5, LenProperties
<1>4. /\ w \in Seq(Message) /\ DOMAIN w = 1..(h + l)
      /\ \A i \in DOMAIN head : i \in DOMAIN w /\ w[i] = head[i]
      /\ \A i \in DOMAIN queue : h + i \in DOMAIN w /\ w[h + i] = queue[i]
  BY Joined
<1>5. /\ v \in Seq(Message) /\ DOMAIN v = 1..(h + (l - d))
      /\ \A i \in DOMAIN head : i \in DOMAIN v /\ v[i] = head[i]
      /\ \A i \in DOMAIN tail : h + i \in DOMAIN v /\ v[h + i] = tail[i]
  <2>1. tail \in Seq(Message)
    BY <1>3
  <2> HIDE DEF tail
  <2>2. /\ v \in Seq(Message) /\ DOMAIN v = 1..(h + Len(tail))
        /\ \A i \in DOMAIN head : i \in DOMAIN v /\ v[i] = head[i]
        /\ \A i \in DOMAIN tail : h + i \in DOMAIN v /\ v[h + i] = tail[i]
    BY <2>1, Joined
  <2>3. QED BY <1>3, <2>2
<1> HIDE DEF d, l, h, w, v, tail
<1>6. \A j \in 1..(l - d) : /\ h + j \in DOMAIN v /\ h + (d + j) \in DOMAIN w
                            /\ v[h + j] = w[h + (d + j)]
  <2> SUFFICES ASSUME NEW j \in 1..(l - d)
               PROVE  /\ h + j \in DOMAIN v /\ h + (d + j) \in DOMAIN w
                      /\ v[h + j] = w[h + (d + j)]
    OBVIOUS
  <2>1. d + j \in DOMAIN queue /\ j \in DOMAIN tail
    BY <1>1, <1>2, <1>3
  <2>2. tail[j] = queue[d + j]
    BY <1>3
  <2>3. QED BY <1>4, <1>5, <2>1, <2>2
<1>7. ASSUME NEW i \in DOMAIN v
      PROVE  \/ i \in DOMAIN head /\ i \in DOMAIN w /\ v[i] = w[i]
             \/ i > h /\ i + d \in DOMAIN w /\ v[i] = w[i + d]
  <2>1. CASE i <= h
    BY <1>1, <1>4, <1>5, <2>1
  <2>2. CASE i > h
    <3>0. i \in 1..(h + (l - d))
      BY <1>5
    <3>1. i - h \in 1..(l - d) /\ h + (i - h) = i /\ h + (d + (i - h)) = i + d
      BY <1>1, <1>2, <2>2, <3>0
    <3>2. QED BY <1>6, <2>2, <3>1
  <2>3. QED BY <1>1, <1>5, <2>1, <2>2
<1>8. ASSUME NEW i \in DOMAIN w
      PROVE  \/ i \in DOMAIN head /\ i \in DOMAIN v /\ v[i] = w[i]
             \/ i > h /\ i <= h + d
             \/ i - d > h /\ i - d \in DOMAIN v /\ v[i - d] = w[i]
  <2>1. CASE i <= h
    BY <1>1, <1>4, <1>5, <2>1
  <2>2. CASE i > h + d
    <3>1. i - h - d \in 1..(l - d) /\ h + (i - h - d) = i - d /\ h + (d + (i - h - d)) = i /\ i - d > h
      BY <1>1, <1>2, <1>4, <2>2
    <3>2. QED BY <1>6, <3>1
  <2>3. QED BY <1>1, <1>2, <1>4, <2>1, <2>2
<1>9. QED BY <1>2, <1>3, <1>4, <1>5, <1>7, <1>8 DEF w, v, tail, h

LEMMA Pushed ==
  ASSUME NEW head \in Seq(Message), NEW queue \in Seq(Message), NEW rest \in Seq(Nat),
         NEW n \in Nat, NEW dropped, Rising(head \o queue, rest, n, dropped)
  PROVE  Rising(head \o Fallen(queue), rest, n,
                dropped \cup (MarksOf(queue) \ MarksOf(Fallen(queue))))
<1> DEFINE w == head \o queue
           tail == Fallen(queue)
           v == head \o tail
           lost == dropped \cup (MarksOf(queue) \ MarksOf(tail))
<1>1. PICK d \in Nat :
        /\ tail \in Seq(Message) /\ v \in Seq(Message) /\ w \in Seq(Message)
        /\ \A i \in DOMAIN v :
             \/ i \in DOMAIN head /\ i \in DOMAIN w /\ v[i] = w[i]
             \/ i > Len(head) /\ i + d \in DOMAIN w /\ v[i] = w[i + d]
  BY Fell
<1>2. DOMAIN head = 1..Len(head) /\ Len(head) \in Nat /\ DOMAIN v \subseteq Nat
  BY <1>1, LenProperties
<1>a. /\ \A i \in DOMAIN w :
           \/ i \in DOMAIN head /\ w[i] = head[i]
           \/ i - Len(head) \in DOMAIN queue /\ w[i] = queue[i - Len(head)]
      /\ \A i \in DOMAIN head : i \in DOMAIN v /\ v[i] = head[i]
      /\ \A i \in DOMAIN tail : Len(head) + i \in DOMAIN v /\ v[Len(head) + i] = tail[i]
  BY <1>1, Joined
<1> HIDE DEF w, v, tail
<1>3. Ordered(v)
  <2> SUFFICES ASSUME NEW i \in DOMAIN v, NEW j \in DOMAIN v,
                      NEW p \in DOMAIN v[i].pieces, NEW q \in DOMAIN v[j].pieces,
                      i < j \/ (i = j /\ p < q)
               PROVE  v[i].pieces[p] < v[j].pieces[q]
    BY DEF Ordered
  <2>1. PICK x, y \in DOMAIN w : v[i] = w[x] /\ v[j] = w[y] /\ (i < j => x < y) /\ (i = j => x = y)
    <3>1. CASE i <= Len(head) /\ j <= Len(head)
      <4>1. i \in DOMAIN w /\ v[i] = w[i] /\ j \in DOMAIN w /\ v[j] = w[j]
        BY <1>1, <1>2, <3>1
      <4>2. QED BY <4>1
    <3>2. CASE i <= Len(head) /\ j > Len(head)
      <4>1. i \in DOMAIN w /\ v[i] = w[i] /\ j + d \in DOMAIN w /\ v[j] = w[j + d] /\ i < j + d
        BY <1>1, <1>2, <3>2
      <4>2. i # j
        BY <1>2, <3>2
      <4>3. QED BY <4>1, <4>2
    <3>3. CASE i > Len(head)
      <4>1. j > Len(head)
        BY <1>2, <3>3
      <4>2. i + d \in DOMAIN w /\ v[i] = w[i + d] /\ j + d \in DOMAIN w /\ v[j] = w[j + d]
        BY <1>1, <1>2, <3>3, <4>1
      <4>3. i < j => i + d < j + d
        BY <1>2
      <4>4. QED BY <4>2, <4>3
    <3>4. QED BY <1>2, <3>1, <3>2, <3>3
  <2>2. Ordered(w)
    BY DEF Rising, w
  <2>3. QED BY <2>1, <2>2 DEF Ordered
<1>4. ASSUME NEW i \in DOMAIN v, NEW p \in DOMAIN v[i].pieces
      PROVE  v[i].pieces[p] <= n /\ \A q \in DOMAIN rest : v[i].pieces[p] < rest[q]
  <2>1. PICK x \in DOMAIN w : v[i] = w[x]
    BY <1>1
  <2>2. QED BY <2>1 DEF Rising, w
<1>5. ASSUME NEW m \in 1..n
      PROVE  Holds(v, m) \/ (\E q \in DOMAIN rest : rest[q] = m) \/ <<"piece", m>> \in lost
  <2>3. m \in Nat
    OBVIOUS
  <2>1. CASE Holds(w, m)
    <3>1. PICK i \in DOMAIN w : \E p \in DOMAIN w[i].pieces : w[i].pieces[p] = m
      BY <2>1 DEF Holds
    <3>2. CASE i \in DOMAIN head /\ w[i] = head[i]
      BY <1>a, <3>1, <3>2 DEF Holds
    <3>3. CASE i - Len(head) \in DOMAIN queue /\ w[i] = queue[i - Len(head)]
      <4>1. Holds(queue, m)
        BY <3>1, <3>3 DEF Holds
      <4>2. <<"piece", m>> \in MarksOf(queue)
        BY <4>1, <2>3, MarksOfMessages
      <4>3. <<"piece", m>> \in MarksOf(tail) => Holds(v, m)
        <5>1. <<"piece", m>> \in MarksOf(tail) => Holds(tail, m)
          BY <1>1, <2>3, MarksOfMessages
        <5>2. QED BY <1>a, <5>1 DEF Holds
      <4>4. QED BY <4>2, <4>3
    <3>4. QED BY <1>a, <3>2, <3>3
  <2>2. QED BY <2>1 DEF Rising, w
<1>6. Rising(v, rest, n, lost)
  BY <1>3, <1>4, <1>5 DEF Rising
<1>7. QED BY <1>6 DEF v, tail

LEMMA Cleared ==
  ASSUME NEW head \in Seq(Message), NEW queue \in Seq(Message), NEW rest \in Seq(Nat),
         NEW n \in Nat, NEW dropped, NEW k \in Nat, Rising(head \o queue, rest, n, dropped)
  PROVE  Rising(head \o <<Clear(k)>>, << >>, n,
                dropped \cup {<<"piece", rest[q]>> : q \in DOMAIN rest} \cup MarksOf(queue))
<1> DEFINE w == head \o queue
           new == <<Clear(k)>>
           v == head \o new
           lost == dropped \cup {<<"piece", rest[q]>> : q \in DOMAIN rest} \cup MarksOf(queue)
<1>1. new \in Seq(Message) /\ DOMAIN new = {1} /\ DOMAIN new[1].pieces = {}
  <2>1. Clear(k) \in Message
    BY DEF Message
  <2>2. DOMAIN Clear(k).pieces = {}
    BY DEF Clear
  <2>3. new \in Seq(Message) /\ DOMAIN new = {1} /\ new[1] = Clear(k)
    BY <2>1
  <2>4. QED BY <2>2, <2>3
<1> HIDE DEF new
<1>2. /\ \A i \in DOMAIN v :
           (i \in DOMAIN head /\ v[i] = head[i]) \/ (DOMAIN v[i].pieces = {})
      /\ \A i \in DOMAIN head : i \in DOMAIN v /\ v[i] = head[i]
      /\ \A i \in DOMAIN head : i \in DOMAIN w /\ w[i] = head[i]
      /\ \A i \in DOMAIN w :
           (i \in DOMAIN head /\ w[i] = head[i]) \/ (i - Len(head) \in DOMAIN queue /\ w[i] = queue[i - Len(head)])
  <2>1. \A i \in DOMAIN v :
           (i \in DOMAIN head /\ v[i] = head[i]) \/ (i - Len(head) \in DOMAIN new /\ v[i] = new[i - Len(head)])
    BY <1>1, Joined
  <2>2. \A i \in DOMAIN head : i \in DOMAIN v /\ v[i] = head[i]
    BY <1>1, Joined
  <2>3. /\ \A i \in DOMAIN head : i \in DOMAIN w /\ w[i] = head[i]
        /\ \A i \in DOMAIN w :
           (i \in DOMAIN head /\ w[i] = head[i]) \/ (i - Len(head) \in DOMAIN queue /\ w[i] = queue[i - Len(head)])
    BY Joined
  <2> HIDE DEF v, w
  <2>4. QED BY <1>1, <2>1, <2>2, <2>3
<1> HIDE DEF w, v
<1>3. Ordered(v) /\ \A i \in DOMAIN v : \A p \in DOMAIN v[i].pieces : v[i].pieces[p] <= n
  <2>1. Ordered(w) /\ \A i \in DOMAIN w : \A p \in DOMAIN w[i].pieces : w[i].pieces[p] <= n
    BY DEF Rising, w
  <2>2. QED BY <1>2, <2>1 DEF Ordered
<1>4. ASSUME NEW m \in 1..n
      PROVE  Holds(v, m) \/ <<"piece", m>> \in lost
  <2>1. CASE Holds(w, m)
    <3>1. PICK i \in DOMAIN w : \E p \in DOMAIN w[i].pieces : w[i].pieces[p] = m
      BY <2>1 DEF Holds
    <3>2. CASE i \in DOMAIN head /\ w[i] = head[i]
      BY <1>2, <3>1, <3>2 DEF Holds
    <3>3. CASE i - Len(head) \in DOMAIN queue /\ w[i] = queue[i - Len(head)]
      <4>1. Holds(queue, m) /\ m \in Nat
        BY <3>1, <3>3 DEF Holds
      <4>2. QED BY <4>1, MarksOfMessages
    <3>4. QED BY <1>2, <3>2, <3>3
  <2>2. CASE ~Holds(w, m)
    BY <2>2 DEF Rising, w
  <2>3. QED BY <2>1, <2>2
<1>5. DOMAIN << >> = {}
  OBVIOUS
<1>6. Rising(v, << >>, n, lost)
  BY <1>3, <1>4, <1>5 DEF Rising
<1>7. QED BY <1>6 DEF v, new

LEMMA BufferCleared ==
  ASSUME NEW w \in Seq(Message), NEW rest \in Seq(Nat), NEW n \in Nat, NEW dropped, Rising(w, rest, n, dropped)
  PROVE  Rising(w, << >>, n, dropped \cup {<<"piece", rest[q]>> : q \in DOMAIN rest})
<1>1. DOMAIN << >> = {}
  OBVIOUS
<1>2. QED BY <1>1 DEF Rising

(* A clear at its place: CutShort for one of the cuts. *)
Cut(head, queue, n, dropped) ==
  /\ \A k \in DOMAIN queue : \A p \in DOMAIN queue[k].pieces : queue[k].pieces[p] > n
  /\ \/ <<"clear", n>> \in dropped
     \/ \E i \in DOMAIN (head \o queue) :
          /\ (head \o queue)[i] = Clear(n)
          /\ \A j \in DOMAIN (head \o queue) :
               j > i => \A p \in DOMAIN (head \o queue)[j].pieces : (head \o queue)[j].pieces[p] > n

LEMMA CutGrows ==
  ASSUME NEW head \in Seq(Message), NEW queue \in Seq(Message), NEW new \in Seq(Message),
         NEW n \in Nat, NEW dropped, Cut(head, queue, n, dropped),
         \A k \in DOMAIN new : \A p \in DOMAIN new[k].pieces : new[k].pieces[p] > n
  PROVE  Cut(head, queue \o new, n, dropped)
<1> DEFINE w == head \o queue
           all == queue \o new
           v == head \o all
<1>1. v = w \o new /\ w \in Seq(Message) /\ all \in Seq(Message)
  <2>1. (head \o queue) \o new = head \o (queue \o new)
    BY ConcatAssociative
  <2>2. w \in Seq(Message) /\ all \in Seq(Message)
    BY ConcatProperties
  <2>3. QED BY <2>1, <2>2
<1>2. \A k \in DOMAIN all : \A p \in DOMAIN all[k].pieces : all[k].pieces[p] > n
  <2>1. \A k \in DOMAIN all :
           (k \in DOMAIN queue /\ all[k] = queue[k]) \/ (k - Len(queue) \in DOMAIN new /\ all[k] = new[k - Len(queue)])
    BY Joined
  <2> HIDE DEF all
  <2>2. QED BY <2>1 DEF Cut
<1>3. /\ \A i \in DOMAIN w : i \in DOMAIN (w \o new) /\ (w \o new)[i] = w[i]
      /\ \A i \in DOMAIN (w \o new) :
           (i \in DOMAIN w /\ (w \o new)[i] = w[i]) \/ (i - Len(w) \in DOMAIN new /\ (w \o new)[i] = new[i - Len(w)])
  BY <1>1, Joined
<1>4. Cut(head, queue, n, dropped) =>
        <<"clear", n>> \in dropped \/ \E i \in DOMAIN w :
          w[i] = Clear(n) /\ \A j \in DOMAIN w : j > i => \A p \in DOMAIN w[j].pieces : w[j].pieces[p] > n
  BY DEF Cut
<1> HIDE DEF v, w, all
<1>5. <<"clear", n>> \in dropped \/ \E i \in DOMAIN v :
          v[i] = Clear(n) /\ \A j \in DOMAIN v : j > i => \A p \in DOMAIN v[j].pieces : v[j].pieces[p] > n
  <2>1. CASE <<"clear", n>> \in dropped
    BY <2>1
  <2>2. CASE <<"clear", n>> \notin dropped
    <3>1. PICK i \in DOMAIN w :
            w[i] = Clear(n) /\ \A j \in DOMAIN w : j > i => \A p \in DOMAIN w[j].pieces : w[j].pieces[p] > n
      BY <1>4, <2>2
    <3>2. i \in DOMAIN v /\ v[i] = Clear(n)
      BY <1>1, <1>3, <3>1
    <3>3. \A j \in DOMAIN v : j > i => \A p \in DOMAIN v[j].pieces : v[j].pieces[p] > n
      BY <1>1, <1>3, <3>1
    <3>4. QED BY <3>2, <3>3
  <2>3. QED BY <2>1, <2>2
<1>6. QED BY <1>2, <1>5 DEF Cut, v, all

LEMMA CutPushed ==
  ASSUME NEW head \in Seq(Message), NEW queue \in Seq(Message), NEW n \in Nat, NEW dropped,
         Cut(head, queue, n, dropped)
  PROVE  Cut(head, Fallen(queue), n, dropped \cup (MarksOf(queue) \ MarksOf(Fallen(queue))))
<1> DEFINE w == head \o queue
           tail == Fallen(queue)
           v == head \o tail
           h == Len(head)
           lost == dropped \cup (MarksOf(queue) \ MarksOf(tail))
<1>1. PICK d \in Nat :
        /\ tail \in Seq(Message) /\ v \in Seq(Message) /\ w \in Seq(Message)
        /\ \A i \in DOMAIN v :
             \/ i \in DOMAIN head /\ i \in DOMAIN w /\ v[i] = w[i]
             \/ i > h /\ i + d \in DOMAIN w /\ v[i] = w[i + d]
        /\ \A i \in DOMAIN w :
             \/ i \in DOMAIN head /\ i \in DOMAIN v /\ v[i] = w[i]
             \/ i > h /\ i <= h + d
             \/ i - d > h /\ i - d \in DOMAIN v /\ v[i - d] = w[i]
  BY Fell
<1>2. /\ DOMAIN head = 1..h /\ h \in Nat /\ DOMAIN v \subseteq Nat /\ DOMAIN w \subseteq Nat
      /\ DOMAIN tail \subseteq Nat \ {0} /\ DOMAIN queue = 1..Len(queue) /\ Len(queue) \in Nat
  BY <1>1, LenProperties
<1>3. /\ \A i \in DOMAIN tail : h + i \in DOMAIN v /\ v[h + i] = tail[i]
      /\ \A i \in DOMAIN w : i \in DOMAIN head \/ (i - h \in DOMAIN queue /\ w[i] = queue[i - h])
      /\ \A i \in DOMAIN queue : h + i \in DOMAIN w /\ w[h + i] = queue[i]
  BY <1>1, Joined
<1>4. /\ \A k \in DOMAIN queue : \A p \in DOMAIN queue[k].pieces : queue[k].pieces[p] > n
      /\ <<"clear", n>> \in dropped \/ \E i \in DOMAIN w :
           w[i] = Clear(n) /\ \A j \in DOMAIN w : j > i => \A p \in DOMAIN w[j].pieces : w[j].pieces[p] > n
  BY DEF Cut
<1> HIDE DEF v, w, tail, h
<1>5. ASSUME NEW k \in DOMAIN tail
      PROVE  \A p \in DOMAIN tail[k].pieces : tail[k].pieces[p] > n
  <2>1. h + k \in DOMAIN v /\ v[h + k] = tail[k] /\ h + k \notin DOMAIN head
    BY <1>2, <1>3
  <2>2. PICK x \in DOMAIN w : x > h /\ tail[k] = w[x]
    <3>1. h + k > h /\ (h + k) + d > h
      BY <1>2
    <3>2. QED BY <1>1, <2>1, <3>1
  <2>3. x - h \in DOMAIN queue /\ w[x] = queue[x - h]
    BY <1>2, <1>3, <2>2
  <2>4. QED BY <1>4, <2>2, <2>3
<1>6. <<"clear", n>> \in lost \/ \E i \in DOMAIN v :
        v[i] = Clear(n) /\ \A j \in DOMAIN v : j > i => \A p \in DOMAIN v[j].pieces : v[j].pieces[p] > n
  <2>1. CASE <<"clear", n>> \in dropped
    BY <2>1
  <2>2. CASE <<"clear", n>> \notin dropped
    <3>1. PICK i \in DOMAIN w :
            w[i] = Clear(n) /\ \A j \in DOMAIN w : j > i => \A p \in DOMAIN w[j].pieces : w[j].pieces[p] > n
      BY <1>4, <2>2
    <3>2. CASE i \in DOMAIN head
      <4>1. i \in DOMAIN v /\ v[i] = w[i]
        BY <1>1, <1>2, <3>2
      <4>2. ASSUME NEW j \in DOMAIN v, j > i
            PROVE  \A p \in DOMAIN v[j].pieces : v[j].pieces[p] > n
        <5>1. PICK x \in DOMAIN w : v[j] = w[x] /\ x > i
          <6>1. j + d > i
            BY <1>2, <4>2
          <6>2. QED BY <1>1, <4>2, <6>1
        <5>2. QED BY <3>1, <5>1
      <4>3. QED BY <3>1, <4>1, <4>2
    <3>3. CASE i - d > h /\ i - d \in DOMAIN v /\ v[i - d] = w[i]
      <4>2. ASSUME NEW j \in DOMAIN v, j > i - d
            PROVE  \A p \in DOMAIN v[j].pieces : v[j].pieces[p] > n
        <5>1. j \notin DOMAIN head /\ j + d > i
          BY <1>2, <3>3, <4>2
        <5>2. j + d \in DOMAIN w /\ v[j] = w[j + d]
          BY <1>1, <5>1
        <5>3. QED BY <3>1, <5>1, <5>2
      <4>3. QED BY <3>1, <3>3, <4>2
    <3>4. CASE i > h /\ i <= h + d
      <4>1. i - h \in DOMAIN queue /\ queue[i - h] = Clear(n)
        BY <1>2, <1>3, <3>1, <3>4
      <4>2. <<"clear", n>> \in MarksOf(queue)
        BY <4>1, MarksOfMessages
      <4>3. CASE <<"clear", n>> \in MarksOf(tail)
        <5>1. PICK k \in DOMAIN tail : tail[k] = Clear(n)
          BY <1>1, <4>3, MarksOfMessages
        <5>2. h + k \in DOMAIN v /\ v[h + k] = Clear(n) /\ h + k \notin DOMAIN head
          BY <1>2, <1>3, <5>1
        <5>3. ASSUME NEW j \in DOMAIN v, j > h + k
              PROVE  \A p \in DOMAIN v[j].pieces : v[j].pieces[p] > n
          <6>1. j \notin DOMAIN head /\ j + d > i
            BY <1>2, <3>4, <5>3
          <6>2. j + d \in DOMAIN w /\ v[j] = w[j + d]
            BY <1>1, <6>1
          <6>3. QED BY <3>1, <6>1, <6>2
        <5>4. QED BY <5>2, <5>3
      <4>4. QED BY <4>2, <4>3
    <3>5. QED BY <1>1, <3>2, <3>3, <3>4
  <2>3. QED BY <2>1, <2>2
<1>7. QED BY <1>5, <1>6 DEF Cut, v, tail

LEMMA CutCleared ==
  ASSUME NEW head \in Seq(Message), NEW queue \in Seq(Message), NEW n \in Nat, NEW k \in Nat, NEW dropped,
         n = k \/ Cut(head, queue, n, dropped)
  PROVE  Cut(head, <<Clear(k)>>, n, dropped \cup MarksOf(queue))
<1> DEFINE new == <<Clear(k)>>
           w == head \o queue
           v == head \o new
           h == Len(head)
           lost == dropped \cup MarksOf(queue)
<1>1. new \in Seq(Message) /\ DOMAIN new = {1} /\ new[1] = Clear(k) /\ DOMAIN Clear(k).pieces = {}
  <2>1. Clear(k) \in Message
    BY DEF Message
  <2>2. DOMAIN Clear(k).pieces = {}
    BY DEF Clear
  <2>3. new \in Seq(Message) /\ DOMAIN new = {1} /\ new[1] = Clear(k)
    BY <2>1
  <2>4. QED BY <2>2, <2>3
<1> HIDE DEF new
<1>2. /\ \A i \in DOMAIN v : i \in DOMAIN head \/ (i - h \in DOMAIN new /\ v[i] = new[i - h])
      /\ \A i \in DOMAIN head : i \in DOMAIN v /\ v[i] = head[i]
      /\ \A i \in DOMAIN new : h + i \in DOMAIN v /\ v[h + i] = new[i]
      /\ \A i \in DOMAIN head : i \in DOMAIN w /\ w[i] = head[i]
      /\ \A i \in DOMAIN w : i \in DOMAIN head \/ (i - h \in DOMAIN queue /\ w[i] = queue[i - h])
  <2>1. /\ \A i \in DOMAIN v : i \in DOMAIN head \/ (i - h \in DOMAIN new /\ v[i] = new[i - h])
        /\ \A i \in DOMAIN head : i \in DOMAIN v /\ v[i] = head[i]
        /\ \A i \in DOMAIN new : h + i \in DOMAIN v /\ v[h + i] = new[i]
    BY <1>1, Joined
  <2>2. /\ \A i \in DOMAIN head : i \in DOMAIN w /\ w[i] = head[i]
        /\ \A i \in DOMAIN w : i \in DOMAIN head \/ (i - h \in DOMAIN queue /\ w[i] = queue[i - h])
    BY Joined
  <2>3. QED BY <2>1, <2>2
<1>3. /\ DOMAIN head = 1..h /\ h \in Nat
      /\ \A i \in DOMAIN v : i \in Int
  <2>1. v \in Seq(Message)
    BY <1>1, Joined
  <2>2. QED BY <2>1, LenProperties
<1>4. n # k => <<"clear", n>> \in dropped \/ \E i \in DOMAIN w :
           w[i] = Clear(n) /\ \A j \in DOMAIN w : j > i => \A p \in DOMAIN w[j].pieces : w[j].pieces[p] > n
  BY DEF Cut
<1> HIDE DEF v, w, h
<1>5. \A i \in DOMAIN v : i \notin DOMAIN head => i = h + 1 /\ v[i] = Clear(k)
  BY <1>1, <1>2, <1>3
<1>6. <<"clear", n>> \in lost \/ \E i \in DOMAIN v :
        v[i] = Clear(n) /\ \A j \in DOMAIN v : j > i => \A p \in DOMAIN v[j].pieces : v[j].pieces[p] > n
  <2>1. CASE n = k
    <3>1. h + 1 \in DOMAIN v /\ v[h + 1] = Clear(n)
      BY <1>1, <1>2, <2>1
    <3>2. \A j \in DOMAIN v : ~(j > h + 1)
      BY <1>3, <1>5
    <3>3. QED BY <3>1, <3>2
  <2>2. CASE <<"clear", n>> \in dropped
    BY <2>2
  <2>3. ASSUME n # k, NEW i \in DOMAIN w, w[i] = Clear(n),
               \A j \in DOMAIN w : j > i => \A p \in DOMAIN w[j].pieces : w[j].pieces[p] > n
        PROVE  <<"clear", n>> \in lost \/ \E x \in DOMAIN v :
                 v[x] = Clear(n) /\ \A j \in DOMAIN v : j > x => \A p \in DOMAIN v[j].pieces : v[j].pieces[p] > n
    <3>1. CASE i \in DOMAIN head
      <4>1. i \in DOMAIN v /\ v[i] = Clear(n)
        BY <1>2, <2>3, <3>1
      <4>2. \A j \in DOMAIN v : j > i => \A p \in DOMAIN v[j].pieces : v[j].pieces[p] > n
        BY <1>1, <1>2, <1>5, <2>3
      <4>3. QED BY <4>1, <4>2
    <3>2. CASE i \notin DOMAIN head
      <4>1. i - h \in DOMAIN queue /\ queue[i - h] = Clear(n)
        BY <1>2, <2>3, <3>2
      <4>2. QED BY <4>1, MarksOfMessages
    <3>3. QED BY <3>1, <3>2
  <2>4. QED BY <1>4, <2>1, <2>2, <2>3
<1>7. \A x \in DOMAIN new : \A p \in DOMAIN new[x].pieces : new[x].pieces[p] > n
  BY <1>1
<1>8. QED BY <1>6, <1>7 DEF Cut, v, new

-----------------------------------------------------------------------------
(* The steps. *)

LEMMA Way ==
  ASSUME AudioTypes
  PROVE  /\ line \o hand \in Seq(Message) /\ OnTheWay \in Seq(Message)
         /\ OnTheWay = (line \o hand) \o outbound
         /\ CutShort <=> \A n \in cuts : Cut(line \o hand, outbound, n, skipped)
         /\ \A n \in cuts : n \in Nat /\ n <= said
<1>1. line \o hand \in Seq(Message) /\ OnTheWay \in Seq(Message)
  BY ConcatProperties DEF AudioTypes, OnTheWay
<1>2. CutShort <=> \A n \in cuts : Cut(line \o hand, outbound, n, skipped)
  BY DEF CutShort, Cut, OnTheWay
<1>3. QED BY <1>1, <1>2 DEF OnTheWay, AudioTypes

LEMMA Enqueued ==
  ASSUME AudioInv, NEW new \in Seq(Message), Enqueue(new),
         UNCHANGED <<line, hand, cuts>>, buffer' \in Seq(Nat), said' \in Nat, said <= said',
         Rising(OnTheWay \o new, buffer', said', skipped),
         \A n \in cuts : \A k \in DOMAIN new : \A p \in DOMAIN new[k].pieces : new[k].pieces[p] > n
  PROVE  AudioTypes' /\ Rising(OnTheWay, buffer, said, skipped)' /\ CutShort'
<1> DEFINE head == line \o hand
           all == outbound \o new
<1>1. AudioTypes
  BY DEF AudioInv
<1>2. head \in Seq(Message) /\ outbound \in Seq(Message) /\ all \in Seq(Message)
  BY <1>1, Way, ConcatProperties DEF AudioTypes
<1>3. OnTheWay \o new = head \o all
  <2> HIDE DEF head
  <2>1. (head \o outbound) \o new = head \o (outbound \o new)
    BY <1>2, ConcatAssociative
  <2>2. QED BY <2>1 DEF OnTheWay, head
<1>4. /\ outbound' = Fallen(all)
      /\ skipped' = skipped \cup (MarksOf(all) \ MarksOf(Fallen(all)))
  BY DEF Enqueue, EnqueueTwilioMessages, Fallen
<1>5. OnTheWay' = head \o Fallen(all)
  BY <1>4 DEF OnTheWay
<1>6. Fallen(all) \in Seq(Message)
  BY <1>2, Fell
<1>7. AudioTypes'
  <2>1. cuts' \subseteq 0..said'
    BY <1>1 DEF AudioTypes
  <2>2. QED BY <1>1, <1>4, <1>6, <2>1 DEF AudioTypes
<1>8. Rising(OnTheWay, buffer, said, skipped)'
  <2>1. Rising(head \o all, buffer', said', skipped)
    BY <1>3
  <2>2. Rising(head \o Fallen(all), buffer', said', skipped \cup (MarksOf(all) \ MarksOf(Fallen(all))))
    BY <1>2, <2>1, Pushed
  <2>3. Rising(OnTheWay', buffer', said', skipped')
    BY <1>4, <1>5, <2>2
  <2>4. QED BY <2>3 DEF Rising, Ordered, Holds
<1>9. ASSUME NEW n \in cuts
      PROVE  Cut(head, outbound', n, skipped')
  <2>1. n \in Nat /\ Cut(head, outbound, n, skipped)
    BY <1>1, Way DEF AudioInv
  <2>2. Cut(head, all, n, skipped)
    BY <1>2, <2>1, CutGrows
  <2>3. QED BY <1>2, <1>4, <2>1, <2>2, CutPushed
<1>10. CutShort'
  <2>1. \A n \in cuts' : Cut(line' \o hand', outbound', n, skipped')
    BY <1>9
  <2>2. QED BY <2>1 DEF CutShort, Cut, OnTheWay
<1>11. QED BY <1>7, <1>8, <1>10

LEMMA AudioStart == AudioInit => AudioInv
<1> SUFFICES ASSUME AudioInit PROVE AudioInv
  OBVIOUS
<1>1. AudioTypes /\ OnTheWay = << >> /\ buffer = << >> /\ said = 0 /\ cuts = {}
  BY DEF AudioInit, AudioTypes, OnTheWay
<1>2. DOMAIN << >> = {}
  OBVIOUS
<1>3. Rising(OnTheWay, buffer, said, skipped)
  BY <1>1, <1>2 DEF Rising, Ordered
<1>4. CutShort /\ SaidToTheEnd
  BY <1>1 DEF CutShort, SaidToTheEnd
<1>5. QED BY <1>1, <1>3, <1>4 DEF AudioInv

LEMMA BinaryAudio ==
  ASSUME AudioInv, NEW burst \in 1..MaxBurst, HandleBinaryAudio(burst)
  PROVE  AudioInv'
<1> DEFINE pieces == buffer \o [k \in 1..burst |-> said + k]
<1>1. /\ AudioTypes /\ Rising(OnTheWay, buffer, said, skipped) /\ CutShort
      /\ \A n \in cuts : \A q \in DOMAIN buffer : buffer[q] > n
  BY DEF AudioInv
<1>2. /\ burst \in Nat /\ said \in Nat /\ said' = said + burst /\ said' \in Nat /\ said <= said'
      /\ OnTheWay \in Seq(Message) /\ buffer \in Seq(Nat) /\ SaidToTheEnd'
      /\ \A n \in cuts : n \in Nat /\ n <= said
  BY <1>1, Way DEF AudioTypes, HandleBinaryAudio, SaidToTheEnd
<1>3. CASE bargeIn
  <2>1. /\ UNCHANGED <<buffer, outbound, hand, line, cuts>>
        /\ skipped' = skipped \cup {<<"piece", said + k>> : k \in 1..burst}
    BY <1>3 DEF HandleBinaryAudio
  <2>2. AudioTypes'
    BY <1>1, <1>2, <2>1 DEF AudioTypes
  <2>3. Rising(OnTheWay, buffer, said', skipped')
    BY <1>1, <1>2, <2>1, Unheard
  <2>4. Rising(OnTheWay, buffer, said, skipped)'
    BY <2>1, <2>3 DEF OnTheWay, Rising, Ordered, Holds
  <2>5. CutShort'
    <3>1. OnTheWay' = OnTheWay /\ outbound' = outbound /\ cuts' = cuts /\ skipped \subseteq skipped'
      BY <2>1 DEF OnTheWay
    <3>2. QED BY <1>1, <3>1 DEF CutShort
  <2>6. QED BY <1>1, <1>2, <2>1, <2>2, <2>4, <2>5 DEF AudioInv
<1>4. CASE ~bargeIn
  <2>1. buffer' = Remainder(pieces) /\ Enqueue(Chunks(pieces)) /\ UNCHANGED <<hand, line, cuts>>
    BY <1>4 DEF HandleBinaryAudio
  <2>2. /\ pieces \in Seq(Nat) /\ Rising(OnTheWay, pieces, said + burst, skipped)
        /\ \A q \in DOMAIN pieces : pieces[q] > said \/ \E p \in DOMAIN buffer : pieces[q] = buffer[p]
    <3>1. buffer \in Seq(Nat) /\ said \in Nat /\ OnTheWay \in Seq(Message) /\ burst \in Nat
      BY <1>2
    <3>2. Rising(OnTheWay, buffer, said, skipped)
      BY <1>1
    <3> HIDE DEF pieces
    <3>3. \A more : more = buffer \o [k \in 1..burst |-> said + k] =>
            /\ more \in Seq(Nat) /\ Rising(OnTheWay, more, said + burst, skipped)
            /\ \A q \in DOMAIN more : more[q] > said \/ \E p \in DOMAIN buffer : more[q] = buffer[p]
      BY <3>1, <3>2, Spoken
    <3>4. QED BY <3>3 DEF pieces
  <2>3. \A n \in cuts : \A q \in DOMAIN pieces : pieces[q] > n
    <3>1. \A q \in DOMAIN pieces : pieces[q] \in Nat
      BY <2>2
    <3> HIDE DEF pieces
    <3>2. ASSUME NEW n \in cuts, NEW q \in DOMAIN pieces
          PROVE  pieces[q] > n
      <4>1. CASE pieces[q] > said
        BY <1>2, <3>1, <4>1
      <4>2. CASE \E p \in DOMAIN buffer : pieces[q] = buffer[p]
        BY <1>1, <4>2
      <4>3. QED BY <2>2, <4>1, <4>2
    <3>3. QED BY <3>2
  <2> HIDE DEF pieces
  <2>4. Rising(OnTheWay \o Chunks(pieces), Remainder(pieces), said + burst, skipped)
    BY <1>2, <2>2, Chunked
  <2>5. /\ Chunks(pieces) \in Seq(Message) /\ Remainder(pieces) \in Seq(Nat)
        /\ \A k \in DOMAIN Chunks(pieces) : \A p \in DOMAIN Chunks(pieces)[k].pieces :
             \E x \in DOMAIN pieces : Chunks(pieces)[k].pieces[p] = pieces[x]
        /\ \A q \in DOMAIN Remainder(pieces) : \E x \in DOMAIN pieces : Remainder(pieces)[q] = pieces[x]
    <3>1. DOMAIN pieces = 1..Len(pieces) /\ Len(pieces) \in Nat
      BY <2>2, LenProperties
    <3>2. PICK count \in Nat :
           /\ Whole(pieces) <= Len(pieces) /\ Whole(pieces) \in Nat
           /\ DOMAIN Chunks(pieces) = 1..count /\ Chunks(pieces) \in Seq(Message)
           /\ \A k \in 1..count :
                /\ DOMAIN Chunks(pieces)[k].pieces = 1..ChunkSize
                /\ \A p \in 1..ChunkSize : /\ (k - 1) * ChunkSize + p \in 1..Whole(pieces)
                                           /\ Chunks(pieces)[k].pieces[p] = pieces[(k - 1) * ChunkSize + p]
           /\ Remainder(pieces) \in Seq(Nat)
           /\ DOMAIN Remainder(pieces) = 1..(Len(pieces) - Whole(pieces))
           /\ \A q \in DOMAIN Remainder(pieces) : Remainder(pieces)[q] = pieces[Whole(pieces) + q]
      BY <2>2, Cutting
    <3>3. 1..Whole(pieces) \subseteq DOMAIN pieces
      BY <3>1, <3>2
    <3>4. \A q \in DOMAIN Remainder(pieces) : Whole(pieces) + q \in DOMAIN pieces
      BY <3>1, <3>2
    <3>5. \A k \in DOMAIN Chunks(pieces) : \A p \in DOMAIN Chunks(pieces)[k].pieces :
             \E x \in DOMAIN pieces : Chunks(pieces)[k].pieces[p] = pieces[x]
      BY <3>2, <3>3
    <3>6. QED BY <3>2, <3>4, <3>5
  <2>6. /\ \A n \in cuts : \A k \in DOMAIN Chunks(pieces) : \A p \in DOMAIN Chunks(pieces)[k].pieces :
             Chunks(pieces)[k].pieces[p] > n
        /\ \A n \in cuts' : \A q \in DOMAIN buffer' : buffer'[q] > n
    BY <2>1, <2>3, <2>5
  <2>7. AudioTypes' /\ Rising(OnTheWay, buffer, said, skipped)' /\ CutShort'
    BY <1>2, <2>1, <2>4, <2>5, <2>6, Enqueued
  <2>8. QED BY <1>2, <2>6, <2>7 DEF AudioInv
<1>5. QED BY <1>3, <1>4

LEMMA AudioDone ==
  ASSUME AudioInv, AgentAudioDone
  PROVE  AudioInv'
<1> DEFINE new == IF buffer = << >> THEN << >> ELSE <<Chunk(buffer)>>
<1>1. /\ AudioTypes /\ Rising(OnTheWay, buffer, said, skipped)
      /\ \A n \in cuts : \A q \in DOMAIN buffer : buffer[q] > n
  BY DEF AudioInv
<1>2. /\ Enqueue(new) /\ buffer' = << >> /\ UNCHANGED <<said, hand, line, cuts>>
      /\ OnTheWay \in Seq(Message) /\ buffer \in Seq(Nat) /\ said \in Nat
  BY <1>1, Way DEF AgentAudioDone, AudioTypes
<1>3. << >> \in Seq(Nat) /\ << >> \in Seq(Message) /\ DOMAIN << >> = {}
  OBVIOUS
<1>4. CASE buffer = << >>
  <2>1. new = << >>
    BY <1>4
  <2> HIDE DEF new
  <2>2. OnTheWay \o new = OnTheWay
    BY <1>2, <2>1, ConcatEmptySeq
  <2>3. AudioTypes' /\ Rising(OnTheWay, buffer, said, skipped)' /\ CutShort'
    <3>1. new \in Seq(Message) /\ DOMAIN new = {}
      BY <1>3, <2>1
    <3>2. Rising(OnTheWay \o new, buffer', said', skipped)
      BY <1>1, <1>2, <1>4, <2>2
    <3>3. buffer' \in Seq(Nat) /\ said' \in Nat /\ said <= said'
      BY <1>2, <1>3
    <3>4. QED BY <1>2, <3>1, <3>2, <3>3, Enqueued
  <2>4. QED BY <1>2, <1>3, <2>3 DEF AudioInv, SaidToTheEnd
<1>5. CASE buffer # << >>
  <2>1. new = <<Chunk(buffer)>>
    BY <1>5
  <2> HIDE DEF new
  <2>2. Chunk(buffer) \in Message /\ Chunk(buffer).pieces = buffer
    <3>1. Chunk(buffer) \in Message
      BY <1>2 DEF Message
    <3>2. QED BY <3>1 DEF Chunk
  <2>3. new \in Seq(Message) /\ DOMAIN new = {1} /\ new[1] = Chunk(buffer)
    BY <2>1, <2>2
  <2>4. Rising(OnTheWay \o new, << >>, said, skipped)
    BY <1>1, <1>2, <2>1, Flushed
  <2>5. \A n \in cuts : \A k \in DOMAIN new : \A p \in DOMAIN new[k].pieces : new[k].pieces[p] > n
    BY <1>1, <2>2, <2>3
  <2>6. AudioTypes' /\ Rising(OnTheWay, buffer, said, skipped)' /\ CutShort'
    BY <1>1, <1>2, <1>3, <2>3, <2>4, <2>5, Enqueued
  <2>7. QED BY <1>2, <1>3, <2>6 DEF AudioInv, SaidToTheEnd
<1>6. QED BY <1>4, <1>5

LEMMA UserSpeaks ==
  ASSUME AudioInv, UserStartedSpeaking
  PROVE  AudioInv'
<1> DEFINE rest == {<<"piece", buffer[k]>> : k \in DOMAIN buffer}
           head == line \o hand
<1>1. /\ AudioTypes /\ Rising(OnTheWay, buffer, said, skipped) /\ CutShort
  BY DEF AudioInv
<1>2. /\ buffer' = << >> /\ UNCHANGED <<said, hand, line>>
      /\ head \in Seq(Message) /\ outbound \in Seq(Message) /\ OnTheWay \in Seq(Message)
      /\ buffer \in Seq(Nat) /\ said \in Nat
      /\ \A n \in cuts : n \in Nat /\ n <= said
  BY <1>1, Way DEF UserStartedSpeaking, AudioTypes
<1>3. << >> \in Seq(Nat) /\ DOMAIN << >> = {}
  OBVIOUS
<1>4. CASE agentSpeaking \/ recent
  <2>1. /\ outbound' = <<Clear(said)>> /\ cuts' = cuts \cup {said}
        /\ skipped' = skipped \cup rest \cup MarksOf(outbound)
    BY <1>4 DEF UserStartedSpeaking
  <2>2. <<Clear(said)>> \in Seq(Message)
    <3>1. Clear(said) \in Message
      BY <1>2 DEF Message
    <3>2. QED BY <3>1
  <2>3. AudioTypes'
    BY <1>1, <1>2, <1>3, <2>1, <2>2 DEF AudioTypes
  <2>4. Rising(OnTheWay, buffer, said, skipped)'
    <3>1. Rising(head \o outbound, buffer, said, skipped)
      BY <1>1 DEF OnTheWay
    <3>2. Rising(head \o <<Clear(said)>>, << >>, said, skipped \cup rest \cup MarksOf(outbound))
      BY <1>2, <3>1, Cleared
    <3>3. OnTheWay' = head \o <<Clear(said)>>
      BY <1>2, <2>1 DEF OnTheWay
    <3>4. Rising(OnTheWay', buffer', said', skipped')
      BY <1>2, <2>1, <3>2, <3>3
    <3>5. QED BY <3>4 DEF Rising, Ordered, Holds
  <2>5. ASSUME NEW n \in cuts'
        PROVE  Cut(head, <<Clear(said)>>, n, skipped')
    <3>1. n \in Nat /\ (n = said \/ Cut(head, outbound, n, skipped))
      BY <1>1, <1>2, <2>1, Way
    <3>2. Cut(head, <<Clear(said)>>, n, skipped \cup MarksOf(outbound))
      BY <1>2, <3>1, CutCleared
    <3>3. QED BY <2>1, <3>2 DEF Cut
  <2>6. CutShort'
    <3>1. \A n \in cuts' : Cut(line' \o hand', outbound', n, skipped')
      BY <1>2, <2>1, <2>5
    <3>2. QED BY <3>1 DEF CutShort, Cut, OnTheWay
  <2>7. QED BY <1>2, <1>3, <2>3, <2>4, <2>6 DEF AudioInv, SaidToTheEnd
<1>5. CASE ~(agentSpeaking \/ recent)
  <2>1. UNCHANGED <<outbound, cuts>> /\ skipped' = skipped \cup rest
    BY <1>5 DEF UserStartedSpeaking
  <2>2. AudioTypes'
    BY <1>1, <1>2, <1>3, <2>1 DEF AudioTypes
  <2>3. Rising(OnTheWay, buffer, said, skipped)'
    <3>1. Rising(OnTheWay, << >>, said, skipped \cup rest)
      BY <1>1, <1>2, BufferCleared
    <3>2. OnTheWay' = OnTheWay
      BY <1>2, <2>1 DEF OnTheWay
    <3>3. Rising(OnTheWay', buffer', said', skipped')
      BY <1>2, <2>1, <3>1, <3>2
    <3>4. QED BY <3>3 DEF Rising, Ordered, Holds
  <2>4. CutShort'
    <3>1. OnTheWay' = OnTheWay /\ outbound' = outbound /\ cuts' = cuts /\ skipped \subseteq skipped'
      BY <1>2, <2>1 DEF OnTheWay
    <3>2. QED BY <1>1, <3>1 DEF CutShort
  <2>5. QED BY <1>2, <1>3, <2>2, <2>3, <2>4 DEF AudioInv, SaidToTheEnd
<1>6. QED BY <1>4, <1>5

(* The sender moves the front of the queue nearer, and changes no order.    *)
LEMMA SenderSteps ==
  ASSUME AudioInv, Take \/ Send
  PROVE  AudioInv'
<1>1. /\ AudioTypes /\ Rising(OnTheWay, buffer, said, skipped) /\ CutShort
      /\ line \in Seq(Message) /\ hand \in Seq(Message) /\ outbound \in Seq(Message)
  BY DEF AudioInv, AudioTypes
<1>2. UNCHANGED <<said, buffer, agentSpeaking, cuts, skipped>>
  BY DEF Take, Send
<1>3. /\ AudioTypes' /\ OnTheWay' = OnTheWay
      /\ \A k \in DOMAIN outbound' : \E j \in DOMAIN outbound : outbound'[k] = outbound[j]
  <2>1. CASE Take
    <3>1. hand = << >> /\ outbound # << >> /\ hand' = <<Head(outbound)>> /\ outbound' = Tail(outbound) /\ line' = line
      BY <2>1 DEF Take
    <3>2. /\ Head(outbound) \in Message /\ Tail(outbound) \in Seq(Message)
          /\ DOMAIN outbound = 1..Len(outbound) /\ Len(outbound) \in Nat
          /\ DOMAIN Tail(outbound) = 1..(Len(outbound) - 1)
          /\ \A i \in DOMAIN Tail(outbound) : Tail(outbound)[i] = outbound[i + 1]
      BY <1>1, <3>1, HeadTailProperties, LenProperties
    <3>3. hand' \in Seq(Message)
      BY <3>1, <3>2
    <3>4. AudioTypes'
      BY <1>1, <1>2, <3>1, <3>2, <3>3 DEF AudioTypes
    <3>5. hand' \o outbound' = outbound
      BY <1>1, <3>1, <3>2
    <3>6. OnTheWay' = line \o (hand' \o outbound')
      BY <1>1, <3>1, <3>2, <3>3, ConcatAssociative DEF OnTheWay
    <3>7. line \o hand = line
      BY <1>1, <3>1, ConcatEmptySeq
    <3>8. \A k \in DOMAIN outbound' : k + 1 \in DOMAIN outbound
      BY <3>1, <3>2
    <3>9. QED BY <3>1, <3>2, <3>4, <3>5, <3>6, <3>7, <3>8 DEF OnTheWay
  <2>2. CASE Send
    <3>1. line' = line \o hand /\ hand' = << >> /\ outbound' = outbound
      BY <2>2 DEF Send
    <3>2. line' \in Seq(Message) /\ hand' \in Seq(Message)
      BY <1>1, <3>1, ConcatProperties
    <3>3. line' \o hand' = line'
      BY <3>1, <3>2, ConcatEmptySeq
    <3>4. QED BY <1>1, <1>2, <3>1, <3>2, <3>3 DEF AudioTypes, OnTheWay
  <2>3. QED BY <2>1, <2>2
<1>4. Rising(OnTheWay, buffer, said, skipped)'
  BY <1>1, <1>2, <1>3 DEF Rising, Ordered, Holds
<1>5. CutShort'
  BY <1>1, <1>2, <1>3 DEF CutShort
<1>6. QED BY <1>2, <1>3, <1>4, <1>5 DEF AudioInv, SaidToTheEnd

LEMMA OtherAudioSteps ==
  ASSUME AudioInv, AgentStartedSpeaking \/ ConversationText \/ Elapse \/ UNCHANGED audioVars
  PROVE  AudioInv'
<1>1. UNCHANGED <<said, buffer, outbound, hand, line, cuts, skipped>> /\ (SaidToTheEnd => SaidToTheEnd')
  <2>1. CASE AgentStartedSpeaking
    BY <2>1 DEF AgentStartedSpeaking, SaidToTheEnd
  <2>2. CASE ConversationText \/ Elapse \/ UNCHANGED audioVars
    BY <2>2 DEF ConversationText, Elapse, audioVars, SaidToTheEnd
  <2>3. QED BY <2>1, <2>2
<1>2. OnTheWay' = OnTheWay
  BY <1>1 DEF OnTheWay
<1>3. AudioTypes'
  BY <1>1 DEF AudioInv, AudioTypes
<1>4. Rising(OnTheWay, buffer, said, skipped)'
  BY <1>1, <1>2 DEF AudioInv, Rising, Ordered, Holds
<1>5. CutShort'
  BY <1>1, <1>2 DEF AudioInv, CutShort
<1>6. QED BY <1>1, <1>3, <1>4, <1>5 DEF AudioInv

LEMMA AudioHeard == AudioInv => CallerHears
<1> SUFFICES ASSUME AudioInv PROVE CallerHears
  OBVIOUS
<1>1. AudioTypes /\ Rising(OnTheWay, buffer, said, skipped) /\ CutShort /\ SaidToTheEnd
  BY DEF AudioInv
<1>2. OnTheWay \in Seq(Message) /\ buffer \in Seq(Nat) /\ said \in Nat /\ Chunk(buffer) \in Message
  BY <1>1, Way DEF AudioTypes, Message
<1> DEFINE all == Append(OnTheWay, Chunk(buffer))
<1>3. all = OnTheWay \o <<Chunk(buffer)>> /\ all \in Seq(Message)
  BY <1>2, AppendIsConcat, AppendProperties
<1> HIDE DEF all
<1>4. Rising(all, << >>, said, skipped)
  BY <1>1, <1>2, <1>3, Flushed
<1>5. \A n \in 1..said : <<"piece", n>> \in MarksOf(all) \cup skipped
  <2>1. \A n \in 1..said : n \in Nat /\ (Holds(all, n) \/ <<"piece", n>> \in skipped)
    <3>1. PICK none : none = << >> /\ DOMAIN none = {}
      OBVIOUS
    <3>2. Rising(all, none, said, skipped)
      BY <1>4, <3>1
    <3>3. \A n \in 1..said :
            Holds(all, n) \/ (\E q \in DOMAIN none : none[q] = n) \/ <<"piece", n>> \in skipped
      BY <3>2 DEF Rising
    <3>4. \A n \in 1..said : n \in Nat
      BY <1>2
    <3>5. QED BY <3>1, <3>3, <3>4
  <2>2. QED BY <1>3, <2>1, MarksOfMessages
<1>6. InOrder
  BY <1>4, <1>5 DEF InOrder, Rising, all
<1>7. QED BY <1>1, <1>6 DEF CallerHears

(* The agent is heard in order and to the end, and a caller who cuts it short *)
(* hears no more of it, whatever the sizes of messages, chunks and queue, and *)
(* however far the sender is behind.                                          *)
THEOREM CallerHearsTheAgent == AudioSpec => []CallerHears
<1>1. AudioInv /\ [AudioNext]_audioVars => AudioInv'
  BY BinaryAudio, AudioDone, UserSpeaks, SenderSteps, OtherAudioSteps DEF AudioNext
<1>2. QED BY AudioStart, <1>1, AudioHeard, PTL DEF AudioSpec
=============================================================================

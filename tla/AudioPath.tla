------------------------------- MODULE AudioPath -------------------------------
(***************************************************************************)
(* The voice of the agent on its way to the caller, in                     *)
(* app/services/websocket_service.py: sts_receiver cuts what Deepgram      *)
(* sends into chunks and queues them, twilio_sender takes them from the    *)
(* queue at the pace of speech, and a caller who begins to speak has the   *)
(* queue emptied and Twilio told to clear what it has not yet played.      *)
(*                                                                         *)
(* The receiver handles a message without an await that the sender could   *)
(* use, so that each is one step.  The agent speaks faster than the sender *)
(* sends.  How a call ends is in CallSession.                              *)
(***************************************************************************)
EXTENDS Integers, Sequences

CONSTANTS
  ChunkSize,       \* pieces of TWILIO_OUTBOUND_CHUNK_SIZE
  QueueSize,       \* TWILIO_OUTBOUND_QUEUE_MAXSIZE
  MaxBurst,        \* bound: pieces of one message of the agent
  MaxTurns, MaxPieces   \* bounds: utterances, and pieces of all

ASSUME AudioAssumption ==
  /\ ChunkSize \in Nat \ {0} /\ QueueSize \in Nat \ {0}
  /\ MaxBurst \in Nat /\ MaxTurns \in Nat /\ MaxPieces \in Nat

VARIABLES
  said,        \* pieces that the agent has said: they are numbered
  buffer,      \* state.audio_buffer
  outbound,    \* twilio_send_queue: chunks of pieces, and clears
  hand,        \* what the sender has taken and not yet sent: at most one
  line,        \* what Twilio was sent, in order
  agentSpeaking, bargeIn,   \* state.agent_speaking, state.barge_in_active
  recent,      \* BARGE_IN_CLEAR_SECONDS have not passed since the last chunk
  turns,       \* utterances begun
  \* for the properties only:
  cuts,        \* the clears that were ordered, by the last piece said before
  skipped      \* pieces, and clears, that were dropped on purpose or in need

audioVars == <<said, buffer, outbound, hand, line, agentSpeaking, bargeIn, recent, turns, cuts, skipped>>

Chunk(pieces) == [clear |-> FALSE, pieces |-> pieces, after |-> 0]
Clear(n)      == [clear |-> TRUE, pieces |-> << >>, after |-> n]

AudioInit ==
  /\ said = 0 /\ buffer = << >> /\ outbound = << >> /\ hand = << >> /\ line = << >>
  /\ agentSpeaking = FALSE /\ bargeIn = FALSE /\ recent = FALSE /\ turns = 0
  /\ cuts = {} /\ skipped = {}

Marks(m) == IF m.clear THEN {<<"clear", m.after>>} ELSE {<<"piece", m.pieces[k]>> : k \in DOMAIN m.pieces}
MarksOf(messages) == UNION {Marks(messages[k]) : k \in DOMAIN messages}

(* _enqueue_twilio_message, for one message after the other: into a full   *)
(* queue by dropping its oldest, which leaves the last QueueSize of all.   *)
Excess(queue) == IF Len(queue) > QueueSize THEN Len(queue) - QueueSize ELSE 0
EnqueueTwilioMessages(queue, messages) ==
  LET all == queue \o messages IN SubSeq(all, Excess(all) + 1, Len(all))

(* The chunks of a buffer, and what remains of it. *)
Whole(pieces)  == Len(pieces) - (Len(pieces) % ChunkSize)
Chunks(pieces) == [k \in 1..(Whole(pieces) \div ChunkSize) |->
                     Chunk(SubSeq(pieces, (k - 1) * ChunkSize + 1, k * ChunkSize))]
Remainder(pieces) == SubSeq(pieces, Whole(pieces) + 1, Len(pieces))

Enqueue(messages) ==
  /\ outbound' = EnqueueTwilioMessages(outbound, messages)
  /\ skipped' = skipped \cup (MarksOf(outbound \o messages) \ MarksOf(outbound'))
  /\ recent' = (recent \/ messages # << >>)

(***************************************************************************)
(* sts_receiver.                                                           *)
(***************************************************************************)
AgentStartedSpeaking ==
  /\ ~agentSpeaking /\ turns < MaxTurns
  /\ agentSpeaking' = TRUE /\ turns' = turns + 1
  /\ UNCHANGED <<said, buffer, outbound, hand, line, bargeIn, recent, cuts, skipped>>

(* _handle_binary_audio: nothing is queued while the caller speaks. *)
HandleBinaryAudio(burst) ==
  LET pieces == buffer \o [k \in 1..burst |-> said + k] IN
  /\ agentSpeaking /\ said + burst <= MaxPieces
  /\ said' = said + burst
  /\ IF bargeIn
     THEN /\ skipped' = skipped \cup {<<"piece", said + k>> : k \in 1..burst}
          /\ UNCHANGED <<buffer, outbound, recent>>
     ELSE buffer' = Remainder(pieces) /\ Enqueue(Chunks(pieces))
  /\ UNCHANGED <<hand, line, agentSpeaking, bargeIn, turns, cuts>>

(* The rest of the buffer is a chunk of its own: _flush_audio_buffer.  (In *)
(* a call that is closing the farewell's end flushes it: CallSession.)     *)
AgentAudioDone ==
  /\ agentSpeaking
  /\ agentSpeaking' = FALSE /\ bargeIn' = FALSE /\ buffer' = << >>
  /\ Enqueue(IF buffer = << >> THEN << >> ELSE <<Chunk(buffer)>>)
  /\ UNCHANGED <<said, hand, line, turns, cuts>>

(* Mutant: the clear is queued behind what is left to say. *)
PatientUserStartedSpeaking ==
  /\ bargeIn' = TRUE /\ buffer' = << >>
  /\ IF agentSpeaking \/ recent
     THEN /\ said \notin cuts
          /\ outbound' = EnqueueTwilioMessages(outbound, <<Clear(said)>>) /\ cuts' = cuts \cup {said}
          /\ skipped' = skipped \cup {<<"piece", buffer[k]>> : k \in DOMAIN buffer}
     ELSE /\ skipped' = skipped \cup {<<"piece", buffer[k]>> : k \in DOMAIN buffer}
          /\ UNCHANGED <<outbound, cuts>>
  /\ UNCHANGED <<said, hand, line, agentSpeaking, recent, turns>>

(* handle_barge_in: the queue is drained and a clear put into it, if the   *)
(* agent speaks or a chunk was queued a moment ago.                        *)
UserStartedSpeaking ==
  LET rest == {<<"piece", buffer[k]>> : k \in DOMAIN buffer} IN
  /\ bargeIn' = TRUE /\ buffer' = << >>
  /\ IF agentSpeaking \/ recent
     THEN /\ said \notin cuts            \* bound
          /\ outbound' = <<Clear(said)>> /\ cuts' = cuts \cup {said}
          /\ skipped' = skipped \cup rest \cup MarksOf(outbound)
     ELSE skipped' = skipped \cup rest /\ UNCHANGED <<outbound, cuts>>
  /\ UNCHANGED <<said, hand, line, agentSpeaking, recent, turns>>

(* _track_conversation_turn: the words of the caller arrive. *)
ConversationText ==
  /\ bargeIn /\ bargeIn' = FALSE
  /\ UNCHANGED <<said, buffer, outbound, hand, line, agentSpeaking, recent, turns, cuts, skipped>>

Elapse ==
  /\ recent /\ recent' = FALSE
  /\ UNCHANGED <<said, buffer, outbound, hand, line, agentSpeaking, bargeIn, turns, cuts, skipped>>

(***************************************************************************)
(* twilio_sender: it takes a message, and sends it when its time has come. *)
(***************************************************************************)
Take ==
  /\ hand = << >> /\ outbound # << >>
  /\ hand' = <<Head(outbound)>> /\ outbound' = Tail(outbound)
  /\ UNCHANGED <<said, buffer, line, agentSpeaking, bargeIn, recent, turns, cuts, skipped>>

Send ==
  /\ hand # << >>
  /\ line' = line \o hand /\ hand' = << >>
  /\ UNCHANGED <<said, buffer, outbound, agentSpeaking, bargeIn, recent, turns, cuts, skipped>>

AudioNext ==
  \/ AgentStartedSpeaking \/ \E burst \in 1..MaxBurst : HandleBinaryAudio(burst)
  \/ AgentAudioDone \/ UserStartedSpeaking \/ ConversationText \/ Elapse
  \/ Take \/ Send

AudioSpec == AudioInit /\ [][AudioNext]_audioVars

(***************************************************************************)
(* Properties.                                                             *)
(***************************************************************************)
OnTheWay == line \o hand \o outbound

(* Nothing is said twice or out of its order, whatever was cut, cleared or *)
(* pushed out of the queue, and nothing is lost in any other way.          *)
Ordered(messages) ==
  \A i, j \in DOMAIN messages :
    \A p \in DOMAIN messages[i].pieces, q \in DOMAIN messages[j].pieces :
      i < j \/ (i = j /\ p < q) => messages[i].pieces[p] < messages[j].pieces[q]

InOrder ==
  LET all == Append(OnTheWay, Chunk(buffer)) IN
  /\ Ordered(all)
  /\ \A n \in 1..said : <<"piece", n>> \in MarksOf(all) \cup skipped

(* A caller who cuts the agent short hears no more of it: once the clear   *)
(* is ordered, what was said before is neither queued nor sent behind it,  *)
(* and the clear gets to Twilio unless so much was queued behind it that   *)
(* it was pushed out.                                                      *)
CutShort ==
  \A n \in cuts :
    /\ \A k \in DOMAIN outbound : \A p \in DOMAIN outbound[k].pieces : outbound[k].pieces[p] > n
    /\ \/ <<"clear", n>> \in skipped
       \/ \E i \in DOMAIN OnTheWay :
            /\ OnTheWay[i] = Clear(n)
            /\ \A j \in DOMAIN OnTheWay : j > i => \A p \in DOMAIN OnTheWay[j].pieces : OnTheWay[j].pieces[p] > n

(* The end of an utterance is not kept back for the next one. *)
SaidToTheEnd == ~agentSpeaking => buffer = << >>

CallerHears == InOrder /\ CutShort /\ SaidToTheEnd
=============================================================================

------------------------------ MODULE ToolCall ------------------------------
(* What an agent is told of its calls of a tool module: the wrappers that    *)
(* ModuleToolkit gives Agno, which drain the frames of call_module through   *)
(* the tool function of the context, relay custom events of the tool onto the*)
(* agent's own stream, and make one answer of the rest. Agno runs the calls  *)
(* of one step of the model side by side.                                    *)
EXTENDS SequencesExt

CONSTANTS
  ToolCalls,   \* calls of one turn
  MaxFrames,   \* bound: frames of a call
  MaxTroubles  \* bound: relays that fail, calls that raise or run out of time

VARIABLES
  toolCall,    \* toolCall[c]: where the wrapper is, what it has and answers
  streamed,    \* streamed[c]: kinds of the frames call_module yielded
  remote,      \* remote[c]: the call under it, as call_module leaves it
  agentOut,    \* the agent's stream: <<c, n>> is the n-th frame of c
  troubles

cvars == <<toolCall, streamed, remote, agentOut, troubles>>

(* An output of the tool, a custom event, a mark of the stream's life, an    *)
(* error that is not fatal, one that is, and the end.                        *)
Kinds == {"output", "event", "mark", "warning", "fatal", "end"}
Troubles == troubles < MaxTroubles /\ troubles' = troubles + 1
Ended(c) == streamed[c] # <<>> /\ Last(streamed[c]) \in {"fatal", "end"}

Success(n) == [ok |-> TRUE, frame |-> n]
Failure(n) == [ok |-> FALSE, frame |-> n]    \* the frame it quotes, or 0
NoAnswer == Failure(0)

CallsInit ==
  /\ toolCall = [c \in ToolCalls |-> [at |-> "idle", results |-> 0, answer |-> NoAnswer]]
  /\ streamed = [c \in ToolCalls |-> <<>>]
  /\ remote = [c \in ToolCalls |-> "none"]
  /\ agentOut = <<>> /\ troubles = 0

Answers(c, answer) == toolCall' = [toolCall EXCEPT ![c].at = "answered", ![c].answer = answer]

CallTool(c) ==
  /\ toolCall[c].at = "idle"
  /\ toolCall' = [toolCall EXCEPT ![c].at = "waiting"]
  /\ remote' = [remote EXCEPT ![c] = "running"]
  /\ UNCHANGED <<streamed, agentOut, troubles>>

(* A fatal error aborts the call: the generator of call_module is dropped at *)
(* its yield. Any other frame reaches consume_generator.                     *)
Aborts(kind) == kind = "fatal"
Never(kind) == FALSE
AbortsOn(kind) == Aborts(kind)
ToolFunction(c, kind) ==
  /\ toolCall[c].at = "waiting" /\ ~Ended(c) /\ Len(streamed[c]) < MaxFrames
  /\ streamed' = [streamed EXCEPT ![c] = Append(@, kind)]
  /\ IF AbortsOn(kind)
     THEN Answers(c, Failure(Len(streamed'[c]))) /\ remote' = [remote EXCEPT ![c] = "abandoned"]
     ELSE toolCall' = [toolCall EXCEPT ![c].at = "relaying"] /\ UNCHANGED remote
  /\ UNCHANGED <<agentOut, troubles>>

(* _relay_custom_event: best effort, then the frame is one of the results.   *)
Relay(c) ==
  LET n == Len(streamed[c]) IN
  /\ toolCall[c].at = "relaying"
  /\ toolCall' = [toolCall EXCEPT ![c].at = "waiting", ![c].results = n]
  /\ \/ /\ agentOut' = IF streamed[c][n] = "event" THEN Append(agentOut, <<c, n>>) ELSE agentOut
        /\ UNCHANGED troubles
     \/ streamed[c][n] = "event" /\ Troubles /\ UNCHANGED agentOut
  /\ UNCHANGED <<streamed, remote>>

\* _find_successful_response, _extract_error_message: over all results, from the last.
Results(c, S) == {n \in 1..toolCall[c].results : streamed[c][n] \in S}
LastOf(hits) == {n \in hits : \A k \in hits : k <= n}
Sentinels == {"mark", "end", "warning", "fatal"}
Verdict(c) ==
  LET spoken == Results(c, Kinds \ Sentinels)  warned == Results(c, {"warning"}) IN
  IF spoken # {} THEN {Success(n) : n \in LastOf(spoken)}
  ELSE IF warned # {} THEN {Failure(n) : n \in LastOf(warned)} ELSE {NoAnswer}

(* call_module returns: at the end of the stream, or where its entry was     *)
(* reaped or its dial-back broke.                                            *)
Drained(c) ==
  /\ toolCall[c].at = "waiting"
  /\ IF Ended(c) THEN UNCHANGED troubles ELSE Troubles
  /\ \E answer \in Verdict(c) : Answers(c, answer)
  /\ remote' = [remote EXCEPT ![c] = "returned"]
  /\ UNCHANGED <<streamed, agentOut>>

CallRaises(c) ==
  /\ toolCall[c].at = "waiting" /\ Troubles
  /\ Answers(c, NoAnswer)
  /\ remote' = [remote EXCEPT ![c] = "raised"]
  /\ UNCHANGED <<streamed, agentOut>>

(* Cancelled at the await it is at, by its timeout, which is answered, or    *)
(* with the agent's run: in call_module, which then signals CANCEL, or in the*)
(* relay, which may have sent its event, and leaves call_module at its yield.*)
Cancelled(c) ==
  /\ toolCall[c].at \in {"waiting", "relaying"} /\ Troubles
  /\ remote' = [remote EXCEPT ![c] = IF toolCall[c].at = "waiting" THEN "cancelled" ELSE "abandoned"]
  /\ Answers(c, NoAnswer) \/ toolCall' = [toolCall EXCEPT ![c].at = "left"]
  /\ LET n == Len(streamed[c]) IN
     \/ UNCHANGED agentOut
     \/ /\ toolCall[c].at = "relaying" /\ streamed[c][n] = "event"
        /\ agentOut' = Append(agentOut, <<c, n>>)
  /\ UNCHANGED streamed

\* The event loop closes a generator that nobody holds: GeneratorExit, no signal.
Collects(c) ==
  /\ remote[c] = "abandoned"
  /\ remote' = [remote EXCEPT ![c] = "closed"]
  /\ UNCHANGED <<toolCall, streamed, agentOut, troubles>>

ToolCallNext ==
  \E c \in ToolCalls :
    \/ CallTool(c) \/ Relay(c) \/ Drained(c) \/ CallRaises(c) \/ Cancelled(c) \/ Collects(c)
    \/ \E kind \in Kinds : ToolFunction(c, kind)

(* A call is answered as successful only when everything the tool sent was   *)
(* taken and none of it was fatal, and with the last thing that was said in  *)
(* its own voice; one that failed and quotes an error quotes the last. The   *)
(* agent's stream has the events of a call in their order, each once, and    *)
(* none of a call that said no more after it was answered. A call that its   *)
(* agent is done with is over, or told to stop, unless it was let go at a    *)
(* yield.                                                                    *)
AnswersAreTrue ==
  \A c \in ToolCalls :
    /\ toolCall[c].answer.ok =>
         LET n == toolCall[c].answer.frame IN
         /\ toolCall[c].results = Len(streamed[c]) /\ ~Contains(streamed[c], "fatal")
         /\ streamed[c][n] \in {"output", "event"}
         /\ \A k \in n+1..Len(streamed[c]) : streamed[c][k] \in {"mark", "warning", "end"}
    /\ toolCall[c].at = "answered" /\ ~toolCall[c].answer.ok /\ remote[c] = "returned" =>
         ~Contains(streamed[c], "output")
    /\ \A i \in DOMAIN agentOut : agentOut[i][1] = c =>
         /\ streamed[c][agentOut[i][2]] = "event"
         /\ \A j \in 1..i - 1 : agentOut[j][1] = c => agentOut[j][2] < agentOut[i][2]
    /\ toolCall[c].at \in {"answered", "left"} => remote[c] # "running"
=============================================================================

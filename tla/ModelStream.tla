----------------------------- MODULE ModelStream -----------------------------
(***************************************************************************)
(* One call of the model: what the provider sends over its event stream    *)
(* (internal/model/http_sse.go, provider_openai_compatible.go,             *)
(* provider_anthropic.go), how it is put together to tool calls, and how   *)
(* the agent collects and runs them (streamOnceWithUsage and               *)
(* executeToolCalls in internal/v2/agent/agent.go).                        *)
(*                                                                         *)
(* A frame that arrives is handled before the next one is read, so each is *)
(* one action.  The arguments of a call are a JSON object in Parts pieces, *)
(* a list of numbers here; no piece but the first opens it and no piece    *)
(* but the last closes it.  Texts and thinking change no call, and the     *)
(* agent's requests do not ask for the provider's cache.                   *)
(***************************************************************************)
EXTENDS Naturals, Sequences, SequencesExt

CONSTANTS
  Items,        \* the tool calls that a response may hold
  Parts,        \* the pieces of their arguments
  CallTroubles  \* bound on failing store writes

ASSUME ModelStreamParameters ==
  IsFiniteSet(Items) /\ Parts \in Nat \ {0} /\ CallTroubles \in Nat

VARIABLES
  protocol,   \* the provider's: "openai" or "anthropic"
  sent,       \* per call what the provider has sent of it
  tracker,    \* per call what the reader of the stream has of it, and in which order
  sawEnd,     \* response.completed or message_stop has arrived
  collected,  \* the agent's toolCalls
  ran,        \* those that executeToolCalls has run
  reader,     \* "streaming", "running", "done", "failed"
  callTroubles

modelStreamVars ==
  <<protocol, sent, tracker, sawEnd, collected, ran, reader, callTroubles>>

Whole == [p \in 1 .. Parts |-> p]

\* What a call's arguments turn out to be.
Arguments == {"whole", "partial", "none"}

Unsent == [begun |-> FALSE, parts |-> 0, done |-> FALSE, cut |-> FALSE]
Unknown == [known |-> FALSE, deltas |-> <<>>, done |-> <<>>]

ModelStreamInit ==
  /\ protocol \in {"openai", "anthropic"}
  /\ sent = [i \in Items |-> Unsent]
  /\ tracker = [calls |-> [i \in Items |-> Unknown], order |-> <<>>]
  /\ sawEnd = FALSE
  /\ collected = <<>> /\ ran = <<>>
  /\ reader = "streaming"
  /\ callTroubles = 0

-----------------------------------------------------------------------------
(* The reader's bookkeeping *)

\* parseFunctionCallArguments: the pieces, if they are an object, or the done
\* event's copy; else what has begun well is closed, or given up, and the call is
\* made all the same; anything else is an error.
Parsed(pieces, copied) ==
  IF Whole \in {pieces, copied} \/ pieces \o copied = <<>> THEN {"whole"}
  ELSE IF \A s \in {pieces, copied} : s = <<>> \/ s[1] = 1 THEN {"partial", "none"}
  ELSE {}

\* finalizeAnthropicToolInput: an object, or the empty input of the block's start.
AnthropicInput(pieces) == IF pieces = Whole THEN "whole" ELSE "none"

EnsureCall(t, i) ==
  [t EXCEPT !.order = IF t.calls[i].known THEN @ ELSE Append(@, i), !.calls[i].known = TRUE]

\* Mutant: a call that was handed on stays registered.
FinalizeKeeps(t, i) == t

\* finalize deletes the call when it has been handed on.
Finalize(t, i) == [t EXCEPT !.calls[i] = Unknown]

Call(i, args) == [id |-> i, args |-> args]

KnownIn(t) == {i \in Items : t.calls[i].known}

\* Those calls in the order of the tracker, each where it comes first.
OrdersOf(t) ==
  LET Precedes(i, j) ==
        \E p \in DOMAIN t.order : t.order[p] = i /\ \A q \in 1 .. p : t.order[q] # j
  IN {l \in [1 .. Cardinality(KnownIn(t)) -> KnownIn(t)] :
        ToSet(l) = KnownIn(t) /\ \A j, k \in DOMAIN l : j < k => Precedes(l[j], l[k])}

ParsingsOf(t) ==
  {f \in [KnownIn(t) -> Arguments] :
     \A i \in KnownIn(t) : f[i] \in Parsed(t.calls[i].deltas, t.calls[i].done)}

\* The lists that finalizeOutstanding can hand on: none if a call cannot be parsed.
HandedOn(t) ==
  {[k \in DOMAIN l |-> Call(l[k], args[l[k]])] : l \in OrdersOf(t), args \in ParsingsOf(t)}

FailStream == reader' = "failed"

\* The agent takes the calls and stores an event for each; if it cannot, the turn
\* fails, and nothing of the response is run.
Collect(calls) ==
  \/ collected' = collected \o calls /\ UNCHANGED <<reader, callTroubles>>
  \/ /\ calls # <<>> /\ callTroubles < CallTroubles
     /\ callTroubles' = callTroubles + 1
     /\ FailStream /\ UNCHANGED collected

Frame == reader = "streaming" /\ ~ sawEnd /\ UNCHANGED <<protocol, ran>>
NoNewCall == UNCHANGED <<collected, reader, callTroubles>>

-----------------------------------------------------------------------------
(* Frames of both protocols *)

\* output_item.added, or content_block_start: Anthropic's blocks come one by one.
BeginItem(i) ==
  /\ Frame /\ ~ sent[i].begun
  /\ protocol = "anthropic" => \A j \in Items : sent[j].begun => sent[j].done
  /\ sent' = [sent EXCEPT ![i].begun = TRUE]
  /\ tracker' = EnsureCall(tracker, i)
  /\ UNCHANGED sawEnd /\ NoNewCall

\* function_call_arguments.delta, or input_json_delta.  The former may come when
\* the arguments are already done, and then the call is handed on at once, unless
\* it cannot be parsed.
ArgumentsDelta(i) ==
  LET p == sent[i].parts + 1
      late == [tracker.calls[i] EXCEPT !.known = TRUE, !.deltas = Append(@, p)]
      got == [EnsureCall(tracker, i) EXCEPT !.calls[i] = late]
  IN
  /\ Frame /\ sent[i].begun /\ p <= Parts
  /\ protocol = "anthropic" => ~ sent[i].done
  /\ sent' = [sent EXCEPT ![i].parts = p]
  /\ IF late.done = <<>> \/ Parsed(late.deltas, late.done) = {}
     THEN tracker' = got /\ NoNewCall
     ELSE /\ tracker' = Finalize(got, i)
          /\ \E args \in Parsed(late.deltas, late.done) : Collect(<<Call(i, args)>>)
  /\ UNCHANGED sawEnd

-----------------------------------------------------------------------------
(* Frames of one protocol *)

\* function_call_arguments.done, with a copy of all arguments; output_item.done is
\* not looked at.
ArgumentsDone(i) ==
  /\ protocol = "openai" /\ Frame
  /\ sent[i].begun /\ ~ sent[i].done
  /\ sent' = [sent EXCEPT ![i].done = TRUE]
  /\ tracker' = [EnsureCall(tracker, i) EXCEPT !.calls[i].done = Whole]
  /\ UNCHANGED sawEnd /\ NoNewCall

\* response.completed: a call has had all its deltas or, if none, a done event.
Completed ==
  /\ protocol = "openai" /\ Frame
  /\ \A i \in Items : sent[i].begun =>
       sent[i].parts = Parts \/ (sent[i].parts = 0 /\ sent[i].done)
  /\ IF HandedOn(tracker) = {}
     THEN FailStream /\ UNCHANGED <<sawEnd, tracker, collected, callTroubles>>
     ELSE /\ sawEnd' = TRUE
          /\ tracker' = [tracker EXCEPT !.calls = [i \in Items |-> Unknown]]
          /\ \E calls \in HandedOn(tracker) : Collect(calls)
  /\ UNCHANGED sent

\* content_block_stop; the output limit may have cut the arguments off.
BlockStop(i) ==
  /\ protocol = "anthropic" /\ Frame
  /\ sent[i].begun /\ ~ sent[i].done
  /\ sent' = [sent EXCEPT ![i].done = TRUE, ![i].cut = sent[i].parts < Parts]
  /\ tracker' = Finalize(tracker, i)
  /\ Collect(<<Call(i, AnthropicInput(tracker.calls[i].deltas))>>)
  /\ UNCHANGED sawEnd

MessageStop ==
  /\ protocol = "anthropic" /\ Frame
  /\ \A i \in Items : sent[i].begun => sent[i].done
  /\ sawEnd' = TRUE
  /\ UNCHANGED <<sent, tracker>> /\ NoNewCall

-----------------------------------------------------------------------------
(* The end *)

\* The stream ends: well, or before the response is complete, or it breaks off; the
\* request may have been refused, or the turn cancelled.
StreamEnds ==
  /\ reader = "streaming"
  /\ FailStream \/ (sawEnd /\ reader' = "running")
  /\ UNCHANGED <<protocol, sent, tracker, sawEnd, collected, ran, callTroubles>>

\* executeToolCalls runs one call after the other, whatever a tool says, and stores
\* an event for each; if it cannot, the turn fails.
RunTool ==
  /\ reader = "running"
  /\ IF Len(ran) < Len(collected)
     THEN /\ ran' = Append(ran, collected[Len(ran) + 1])
          /\ \/ UNCHANGED <<reader, callTroubles>>
             \/ callTroubles < CallTroubles /\ callTroubles' = callTroubles + 1 /\ FailStream
     ELSE reader' = "done" /\ UNCHANGED <<ran, callTroubles>>
  /\ UNCHANGED <<protocol, sent, tracker, sawEnd, collected>>

ModelStreamNext ==
  \/ \E i \in Items : BeginItem(i) \/ ArgumentsDelta(i) \/ ArgumentsDone(i) \/ BlockStop(i)
  \/ Completed \/ MessageStop
  \/ StreamEnds \/ RunTool

ModelStreamSpec == ModelStreamInit /\ [][ModelStreamNext]_modelStreamVars

-----------------------------------------------------------------------------

\* Nothing of a response is run before it is complete, and then every call that the
\* provider has made is run, once and with all its arguments, in whatever order
\* done events and deltas have come; only a call that the output limit has cut off
\* is run without arguments, and never with a part of them.
CallsRunWhole ==
  /\ ran # <<>> => sawEnd
  /\ \A k \in DOMAIN ran :
       /\ \A j \in 1 .. k - 1 : ran[j].id # ran[k].id
       /\ ran[k].args = IF sent[ran[k].id].cut THEN "none" ELSE "whole"
  /\ reader = "done" => \A i \in Items : sent[i].begun => \E k \in DOMAIN ran : ran[k].id = i
=============================================================================

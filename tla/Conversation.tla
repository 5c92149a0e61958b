----------------------------- MODULE Conversation -----------------------------
(***************************************************************************)
(* What the model is shown of a session: internal/v2/agent/context.go,     *)
(* compaction.go, microcompact.go, context_budget.go and model_adapter.go, *)
(* with the part of RunTurn (agent.go) that reads and writes the history,  *)
(* and what the two providers send of it (internal/model/transcript.go,    *)
(* provider_anthropic.go, provider_openai_compatible.go).                  *)
(*                                                                         *)
(* A session's turns run one after the other (SessionManager).  A message  *)
(* is its kind, its turn and step and its size in tokens; what it says is  *)
(* its position in the history.  A summary says what its input said, as    *)
(* far as the model was given it: `covers' are those positions.  Sizes are *)
(* what the agent's heuristic makes of a text, and the limits are the      *)
(* constants of the code.                                                  *)
(***************************************************************************)
EXTENDS Naturals, Sequences, SequencesExt, FiniteSetsExt

CONSTANTS
  MaxContextTokens,     \* the limit of the role, 0: none
  Sizes,                \* sizes of user messages and tool results
  KeepToolResults,      \* tool results that microcompaction leaves alone
  Responses,            \* what the model may say when it calls tools, in order
  MaxSteps,             \* calls of the model in a turn
  MaxTurns,             \* bound on turns
  ConversationTroubles  \* bound on failing calls of model and store

ASSUME ConversationParameters ==
  /\ MaxContextTokens \in Nat /\ KeepToolResults \in Nat
  /\ Sizes \subseteq Nat
  /\ \A response \in Responses : /\ response \in Seq({"text", "signature", "call"})
                                 /\ \E k \in DOMAIN response : response[k] = "call"
  /\ MaxSteps \in Nat \ {0} /\ MaxTurns \in Nat /\ ConversationTroubles \in Nat

VARIABLES
  messages,    \* the messages of the session in the store
  archive,    \* the position ranges of its snapshots
  turn,       \* the turn in RunTurn
  troubles

conversationVars == <<messages, archive, turn, troubles>>

-----------------------------------------------------------------------------
(* context_budget.go *)

EffectiveContextTokens(max) == IF max > 0 THEN max ELSE 180000

AutoCompactThreshold(max) ==
  IF max = 0 THEN 167000
  ELSE IF max < 13000 \/ max - 13000 < max \div 2 THEN max \div 2 ELSE max - 13000

CompactKeepRecentTokens(max) ==
  IF max = 0 \/ 40000 <= max \div 2 THEN 40000 ELSE max \div 2

SummaryInputTokens == 80000
MicrocompactThreshold == 48000
PreviewTokens == 90

-----------------------------------------------------------------------------
(* Lists of messages *)

Message(t, s, kind, size) ==
  [turn |-> t, step |-> s, call |-> 0, kind |-> kind, size |-> size, pos |-> 0, covers |-> {}]

\* A call, and the result that names it, by its number in the response.
CallId(m) == <<m.turn, m.step, m.call>>

SystemKinds == {"boundary", "summary"}

Tokens(msgs) == FoldLeft(LAMBDA sum, m : sum + m.size, 0, msgs)

\* The messages of other kinds, in their order.
WithoutKinds(kinds, msgs) ==
  LET kept[i \in 0 .. Len(msgs)] ==
        IF i = 0 THEN <<>>
        ELSE IF msgs[i].kind \in kinds THEN kept[i - 1] ELSE Append(kept[i - 1], msgs[i])
  IN kept[Len(msgs)]

\* The positions of what a list says, in summaries or by itself.
Told(msgs) == (UNION {{m.pos} \cup m.covers : m \in ToSet(msgs)}) \ {0}

\* microcompactToolResults: old tool results are replaced by a preview, in the
\* copy of the messages that the turn has loaded.
Microcompact(msgs) ==
  LET results == {i \in DOMAIN msgs : msgs[i].kind = "result" /\ msgs[i].size > PreviewTokens}
      old == {i \in results : Cardinality({j \in results : j > i}) >= KeepToolResults}
  IN IF Tokens(msgs) < MicrocompactThreshold THEN msgs
     ELSE [i \in DOMAIN msgs |->
             IF i \in old THEN [msgs[i] EXCEPT !.size = PreviewTokens] ELSE msgs[i]]

AfterBoundary(msgs) ==
  LET last == Max({0} \cup {i \in DOMAIN msgs : msgs[i].kind = "boundary"})
  IN SubSeq(msgs, last + 1, Len(msgs))

TurnStarts(msgs) == {i \in DOMAIN msgs : i = 1 \/ msgs[i].turn # msgs[i - 1].turn}

\* Mutant: the split is made at any message.
KeepStartAnywhere(msgs, keep) ==
  Min({i \in DOMAIN msgs : Tokens(SubSeq(msgs, i, Len(msgs))) <= keep} \cup {Len(msgs)})

\* splitMessagesForCompaction keeps whole turns: the latest one, and those before
\* it that fit.
KeepStart(msgs, keep) ==
  Min({i \in TurnStarts(msgs) : Tokens(SubSeq(msgs, i, Len(msgs))) <= keep}
        \cup {Max(TurnStarts(msgs))})

\* compactionTranscriptLine: what a summary's input leaves out.
Sayable(msgs) == WithoutKinds({"boundary", "signature"}, msgs)

\* compactionTranscript: the summary's input is cut off at the end, but never
\* quite empty.
Transcript(msgs) ==
  LET said == Sayable(msgs)
      fits == {n \in 1 .. Len(said) : Tokens(SubSeq(said, 1, n)) <= SummaryInputTokens}
  IN SubSeq(said, 1, Max(fits \cup {IF said = <<>> THEN 0 ELSE 1}))

\* BuildContext takes what fits, from the latest message backwards, but passes
\* over messages too large as long as it has taken none.
BuildContext(prior, own) ==
  LET active == AfterBoundary(prior)
      Fits(from, to) == Tokens(own) + Tokens(SubSeq(active, from, to))
                          <= EffectiveContextTokens(MaxContextTokens)
      last == Max({0} \cup {i \in DOMAIN active : Fits(i, i)})
      first == Min({last + 1} \cup {i \in 1 .. last : Fits(i, last)})
  IN SubSeq(active, first, last) \o own

\* toModelMessages: of the system messages only summaries are sent.
ToModelMessages(msgs) == WithoutKinds({"boundary"}, msgs)

\* The calls before a message that no result before it answers.
Pending(msgs, i) ==
  {CallId(msgs[j]) : j \in {j \in 1 .. i - 1 :
     /\ msgs[j].kind = "call"
     /\ \A k \in j + 1 .. i - 1 : msgs[k].kind = "result" => CallId(msgs[k]) # CallId(msgs[j])}}

\* ValidateConversationItems, which every provider profile asks for: a result
\* answers a call that is open, and nothing else comes while one is open.
Accepted(msgs) ==
  /\ \A i \in DOMAIN msgs :
       \/ msgs[i].kind = "call"
       \/ msgs[i].kind = "result" /\ CallId(msgs[i]) \in Pending(msgs, i)
       \/ msgs[i].kind \notin {"call", "result"} /\ Pending(msgs, i) = {}
  /\ Pending(msgs, Len(msgs) + 1) = {}

\* Summaries are sent as the user's, and results too.
WireRole(m) == IF m.kind \in {"user", "summary", "result"} THEN "user" ELSE "assistant"

\* Mutant: every item becomes a message of its own.
ToAnthropicUnmerged(items) ==
  [i \in DOMAIN items |-> [role |-> WireRole(items[i]), content |-> <<items[i]>>]]

\* toAnthropicMessages: what one side says in a row becomes one message.
ToAnthropicMessages(items) ==
  LET Block(out, m) ==
        IF out # <<>> /\ out[Len(out)].role = WireRole(m)
        THEN [out EXCEPT ![Len(out)].content = Append(@, m)]
        ELSE Append(out, [role |-> WireRole(m), content |-> <<m>>])
      sent[i \in 0 .. Len(items)] ==
        IF i = 0 THEN <<>> ELSE Block(sent[i - 1], items[i])
  IN sent[Len(items)]

\* toResponsesInput: an item each, but no thinking that is a mere signature.
ToResponsesInput(items) == WithoutKinds({"signature"}, items)

-----------------------------------------------------------------------------

\* at: where RunTurn is.  cut: the summary's input was not complete.
Idle == [at |-> "idle", no |-> 0, step |-> 0, prior |-> <<>>, own |-> <<>>, calls |-> <<>>,
         saved |-> FALSE, compacted |-> FALSE, cut |-> FALSE]

ConversationInit ==
  /\ messages = <<>> /\ archive = {}
  /\ turn = Idle
  /\ troubles = 0

\* appendMessages gives the next positions, in one transaction.
Positioned(msgs) == [i \in DOMAIN msgs |-> [msgs[i] EXCEPT !.pos = Len(messages) + i]]

Trouble == troubles < ConversationTroubles /\ troubles' = troubles + 1

\* The turn fails: nothing more is written.
FailConversation == Trouble /\ turn' = [Idle EXCEPT !.no = turn.no]

\* RunTurn loads the messages and clears old tool results.
BeginTurn ==
  /\ turn.at = "idle" /\ turn.no < MaxTurns
  /\ \E size \in Sizes :
       turn' = [Idle EXCEPT !.at = "compact", !.no = turn.no + 1,
                            !.prior = Microcompact(messages),
                            !.own = <<Message(turn.no + 1, 0, "user", size)>>]
  /\ UNCHANGED <<messages, archive, troubles>>

\* compactPriorIfNeeded.  The boundary and the summary go to the end of the
\* messages; the turn itself goes on with the summary and the messages kept.
Compact ==
  LET active == AfterBoundary(turn.prior)
      start == KeepStart(active, CompactKeepRecentTokens(MaxContextTokens))
      summarize == SubSeq(active, 1, start - 1)
      needed == /\ Tokens(active) + Tokens(turn.own) >= AutoCompactThreshold(MaxContextTokens)
                /\ Len(active) > 1 /\ start > 1
      said == Transcript(summarize)
      range == {m.pos : m \in ToSet(summarize)}
      summary == <<Message(turn.no, 0, "boundary", 1),
                   [Message(turn.no, 0, "summary", PreviewTokens) EXCEPT !.covers = Told(said)]>>
  IN
  /\ turn.at = "compact"
  /\ \/ \* not needed, or an empty summary
        /\ IF needed THEN Trouble ELSE UNCHANGED troubles
        /\ turn' = [turn EXCEPT !.at = "call", !.prior = active]
        /\ UNCHANGED <<messages, archive>>
     \/ /\ needed
        /\ messages' = messages \o Positioned(summary)
        /\ archive' = archive \cup {<<Min(range), Max(range)>>}
        /\ turn' = [turn EXCEPT !.at = "call", !.compacted = TRUE,
                                !.cut = said # Sayable(summarize) \/ Tokens(said) > SummaryInputTokens,
                                !.prior = summary \o SubSeq(active, start, Len(active))]
        /\ UNCHANGED troubles
     \/ \* the turn fails before or after the snapshot or the messages are stored
        /\ needed /\ FailConversation
        /\ archive' \in {archive, archive \cup {<<Min(range), Max(range)>>}}
        /\ messages' \in {messages} \cup {messages \o Positioned(summary) : r \in archive' \ archive}

Request == ToModelMessages(BuildContext(turn.prior, turn.own))

\* The provider refuses a request that is not well-formed, and the turn fails.
RequestRefused ==
  /\ turn.at = "call" /\ ~ Accepted(Request)
  /\ turn' = [Idle EXCEPT !.no = turn.no]
  /\ UNCHANGED <<messages, archive, troubles>>

\* The model answers: the user's message is stored with the first answer.
Persist(said) ==
  LET new == Positioned((IF turn.saved THEN <<>> ELSE turn.own) \o said)
  IN messages' = messages \o new

FinalAnswer ==
  /\ turn.at = "call" /\ Accepted(Request)
  /\ \/ /\ Persist(<<Message(turn.no, turn.step, "text", 1)>>)
        /\ turn' = [Idle EXCEPT !.no = turn.no]
        /\ UNCHANGED troubles
     \/ FailConversation /\ UNCHANGED messages
  /\ UNCHANGED archive

\* fromModelItems: the response's texts and calls, and nothing else.
FromModelItems(response) ==
  [k \in DOMAIN response |->
     [Message(turn.no, turn.step, response[k], 1) EXCEPT !.call = IF response[k] = "call" THEN k ELSE 0]]

CallTools ==
  /\ turn.at = "call" /\ Accepted(Request)
  /\ \E response \in Responses :
       LET said == FromModelItems(response) IN
       /\ Persist(said)
       /\ turn' = [turn EXCEPT !.at = "tools", !.own = @ \o said, !.saved = TRUE,
                               !.calls = WithoutKinds({"text", "signature"}, said)]
  /\ UNCHANGED <<archive, troubles>>

\* The results of all calls are stored, in one transaction, and shown to the model,
\* or the turn has had all its steps; or it ends first, and leaves calls without
\* results.
ToolResults ==
  /\ turn.at = "tools"
  /\ \/ \E size \in Sizes :
          LET results == [k \in DOMAIN turn.calls |->
                            [turn.calls[k] EXCEPT !.kind = "result", !.size = size]]
          IN
          /\ messages' = messages \o Positioned(results)
          /\ turn' = IF turn.step + 1 < MaxSteps
                     THEN [turn EXCEPT !.at = "call", !.step = @ + 1, !.own = @ \o results,
                                       !.calls = <<>>]
                     ELSE [Idle EXCEPT !.no = turn.no]
          /\ UNCHANGED troubles
     \/ FailConversation /\ UNCHANGED messages
  /\ UNCHANGED archive

ConversationNext ==
  BeginTurn \/ Compact \/ RequestRefused \/ FinalAnswer \/ CallTools \/ ToolResults

ConversationSpec == ConversationInit /\ [][ConversationNext]_conversationVars

-----------------------------------------------------------------------------

\* The request holds all of the turn's list: the limit has cut nothing off.
Untruncated == BuildContext(turn.prior, turn.own) = AfterBoundary(turn.prior) \o turn.own

\* What earlier turns have said, from a position on; a summary leaves thinking out.
EarlierMessages(from) ==
  {i \in from .. Len(messages) :
     messages[i].kind \notin SystemKinds \cup {"signature"} /\ messages[i].turn < turn.no}

LastBoundaryBefore(t) ==
  Max({0} \cup {i \in DOMAIN messages : messages[i].kind = "boundary" /\ messages[i].turn < t})

\* The messages at these positions are in a snapshot, or are of a compaction.
Archived(positions) ==
  \A p \in positions : \/ messages[p].kind \in SystemKinds
                        \/ \E r \in archive : p \in r[1] .. r[2]

\* Every result comes after the call that it answers.
ResultsFollowCalls(msgs) ==
  \A i \in DOMAIN msgs : msgs[i].kind = "result" =>
    \E j \in 1 .. i - 1 : msgs[j].kind = "call" /\ CallId(msgs[j]) = CallId(msgs[i])

\* The request of a turn that compacts tells the model everything that has been
\* said since the boundary before, in the summary or by itself, unless that did
\* not fit; what the summary replaces is in a snapshot's range; and no tool
\* result loses its call to the summary, in this turn or a later one.
CompactionIsWhole ==
  turn.at = "call" /\ Untruncated =>
    LET request == Request IN
    /\ turn.compacted /\ ~ turn.cut =>
         EarlierMessages(LastBoundaryBefore(turn.no) + 1) \subseteq Told(request)
    /\ \A i \in DOMAIN request : Archived(request[i].covers)
    /\ ResultsFollowCalls(request)

\* What both providers need: in the messages that Anthropic is sent the sides
\* alternate, and a message with calls is followed by one that begins with their
\* results, however the response was composed; and OpenAI is sent every call
\* before its output.  It takes ValidateConversationItems, the one transaction
\* of the results and the merging of neighbours together.
CallsAreAnswered ==
  LET request == Request
      wire == ToAnthropicMessages(request)
      input == ToResponsesInput(request)
      Ids(list, kind) == {CallId(list[i]) : i \in {i \in DOMAIN list : list[i].kind = kind}}
  IN turn.at = "call" /\ Accepted(request) =>
       /\ \A k \in DOMAIN wire :
            LET calls == Ids(wire[k].content, "call") IN
            /\ k > 1 => wire[k].role # wire[k - 1].role
            /\ calls # {} =>
                 /\ k < Len(wire) /\ Len(wire[k + 1].content) >= Cardinality(calls)
                 /\ Ids(SubSeq(wire[k + 1].content, 1, Cardinality(calls)), "result") = calls
       /\ ResultsFollowCalls(input)

\* A turn's request tells the model everything of the earlier turns, as far as
\* the limits of summary and request allow.
NothingIsForgotten ==
  turn.at = "call" /\ Untruncated /\ ~ turn.cut => EarlierMessages(1) \subseteq Told(Request)

\* The session goes on after a turn that failed, was interrupted or ended with
\* the daemon: the requests of later turns are well-formed.
SessionIsNotStuck ==
  turn.at = "call" /\ Untruncated => Accepted(Request)
=============================================================================

----------------------------- MODULE EventStream -----------------------------
(***************************************************************************)
(* How a client follows a session: the events that the agent appends to    *)
(* the store (agent/agent.go), the server's event stream and timeline      *)
(* (app/routes.go), the terminal client (client/client.go, tui/stream.go,  *)
(* tui/cmdqueue.go) and the web console (web/console/src/api/events.ts,    *)
(* pages/ChatPage.tsx), over connections that break at any moment.         *)
(*                                                                         *)
(* The number of an event is its position in the log, which all sessions   *)
(* share.  Of the kinds of events, deltas and the ends of turns matter: a  *)
(* delta is text that the client shows at once, the end of a turn makes    *)
(* the terminal load the timeline anew.  Of a timeline its latest number   *)
(* and the text of the stored answers matter.                              *)
(***************************************************************************)
EXTENDS Naturals, Sequences, SequencesExt, FiniteSetsExt

CONSTANTS
  PageLimit,      \* events that the server sends in one go (100)
  MaxEvents,      \* bound on the log
  StreamTroubles  \* bound on broken connections, failed requests, restarts

ASSUME StreamParameters ==
  PageLimit \in Nat \ {0} /\ MaxEvents \in Nat /\ StreamTroubles \in Nat

VARIABLES
  log,        \* the events: "delta", "end" or "foreign", another session's
  answered,   \* the deltas, by number, of the answers in the store
  turnRun,    \* the number its turn started after, and whether the answer is stored
  link,       \* per client: the connection and what it carries
  term,       \* the terminal client
  web,        \* the web console
  streamTroubles

streamVars == <<log, answered, turnRun, link, term, web, streamTroubles>>

StreamTrouble == streamTroubles < StreamTroubles /\ streamTroubles' = streamTroubles + 1

Clients == {"term", "web"}

NoLink == [up |-> FALSE, after |-> 0, pipe |-> <<>>]

StreamInit ==
  /\ log = <<>> /\ answered = {} /\ turnRun = [from |-> 0, stored |-> FALSE]
  /\ link = [c \in Clients |-> NoLink]
  /\ term = [at |-> "closed", start |-> 0, lastSeq |-> 0, buffer |-> <<>>, applied |-> <<>>,
             screen |-> {}, loads |-> {}, asked |-> 0, shows |-> 0]
  /\ web = [open |-> FALSE, start |-> 0, latestSeq |-> 0, applied |-> <<>>, claimed |-> {},
            cached |-> {}]
  /\ streamTroubles = 0

-----------------------------------------------------------------------------
(* The agent *)

\* Numbers that come in order, and once each.
Ascends(s) == \A i, j \in DOMAIN s : i < j => s[i] < s[j]

Own == {n \in DOMAIN log : log[n] # "foreign"}
LatestSeq == Max(Own \cup {0})
Streaming == {n \in DOMAIN log : n > turnRun.from /\ log[n] = "delta"}

\* eventRepo.Append gives the next number.
AppendEvent(kind) == Len(log) < MaxEvents /\ log' = Append(log, kind)

\* Text arrives from the model; or another session's event does.
EmitDelta ==
  /\ \/ ~ turnRun.stored /\ AppendEvent("delta")
     \/ AppendEvent("foreign")
  /\ UNCHANGED <<answered, turnRun, link, term, web, streamTroubles>>

\* Mutant: the end of the turn is announced before the answer is stored.
StoreAfterEnd ==
  /\ ~ turnRun.stored /\ Len(log) > 0 /\ log[Len(log)] = "end"
  /\ answered' = answered \cup {n \in DOMAIN log : log[n] = "delta"}
  /\ UNCHANGED <<log, turnRun, link, term, web, streamTroubles>>

\* The turn's answer is stored ...
StoreAnswer ==
  /\ ~ turnRun.stored /\ Streaming # {}
  /\ answered' = answered \cup Streaming
  /\ turnRun' = [turnRun EXCEPT !.stored = TRUE]
  /\ UNCHANGED <<log, link, term, web, streamTroubles>>

\* ... and its end announced: turn_completed; or the turn has failed, and only
\* that is announced.
EmitEnd ==
  /\ Streaming # {}
  /\ AppendEvent("end")
  /\ turnRun' = [from |-> Len(log) + 1, stored |-> FALSE]
  /\ UNCHANGED <<answered, link, term, web, streamTroubles>>

-----------------------------------------------------------------------------
(* The server *)

CursorOf(c) == IF c = "term" THEN term.lastSeq ELSE web.latestSeq

\* A client connects, for the first time or again: streamEvents starts after the
\* last number that it has.
Connect(c) ==
  /\ IF c = "term" THEN term.at = "open" /\ term.buffer = <<>> ELSE web.open
  /\ ~ link[c].up /\ link[c].pipe = <<>>
  /\ link' = [link EXCEPT ![c] = [up |-> TRUE, after |-> CursorOf(c), pipe |-> <<>>]]
  /\ UNCHANGED <<log, answered, turnRun, term, web, streamTroubles>>

\* writeAvailableEvents: the next events of the session, a page at most.
WriteAvailableEvents(c) ==
  LET next == {n \in Own : n > link[c].after} IN
  /\ link[c].up
  /\ \E last \in next :
       LET page == {n \in next : n <= last} IN
       /\ Cardinality(page) <= PageLimit
       /\ last = Max(next) \/ Cardinality(page) = PageLimit
       /\ \E events \in [1 .. Cardinality(page) -> page] :
            /\ Ascends(events) /\ ToSet(events) = page
            /\ link' = [link EXCEPT ![c].pipe = @ \o events, ![c].after = last]
  /\ UNCHANGED <<log, answered, turnRun, term, web, streamTroubles>>

\* What has not arrived is lost; the web console also drops what has, and reads no
\* more.
ConnectionBreaks(c) ==
  /\ link[c].up
  /\ StreamTrouble
  /\ \E n \in 0 .. (IF c = "web" THEN 0 ELSE Len(link[c].pipe)) :
       link' = [link EXCEPT ![c] = [NoLink EXCEPT !.pipe = SubSeq(link[c].pipe, 1, n)]]
  /\ UNCHANGED <<log, answered, turnRun, term, web>>

\* The daemon starts again.  The end of a turn in progress is not announced.
DaemonRestarts ==
  /\ StreamTrouble
  /\ turnRun' = [from |-> Len(log), stored |-> FALSE]
  /\ link' = [c \in Clients |-> [link[c] EXCEPT !.up = FALSE]]
  /\ UNCHANGED <<log, answered, term, web>>

-----------------------------------------------------------------------------
(* The terminal client *)

\* NewModel shows the timeline; the server's handler reads the messages first and
\* the latest number after them.
OpenTerminal ==
  /\ \/ /\ term.at = "closed"
        /\ term' = [term EXCEPT !.at = "opening", !.screen = answered]
     \/ /\ term.at = "opening"
        /\ term' = [term EXCEPT !.at = "open", !.start = LatestSeq, !.lastSeq = LatestSeq]
  /\ UNCHANGED <<log, answered, turnRun, link, web, streamTroubles>>

\* applyEvent: the deltas of a batch go to the screen, an end asks for the
\* timeline.
Applied(t, events) ==
  LET ends == \E i \in DOMAIN events : log[events[i]] = "end" IN
  [t EXCEPT !.applied = @ \o events,
            !.screen = @ \cup {n \in ToSet(events) : log[n] = "delta"},
            !.asked = IF ends THEN @ + 1 ELSE @,
            !.loads = IF ends THEN @ \cup {[no |-> t.asked + 1, text |-> {0}]} ELSE @]

\* Mutant: what is still in the buffer does not count as received.
ReceiveAndCountLater ==
  LET n == Head(link["term"].pipe) IN
  /\ link["term"].pipe # <<>>
  /\ term' = IF log[n] = "delta" THEN [term EXCEPT !.buffer = Append(@, n)]
             ELSE [Applied(term, Append(term.buffer, n)) EXCEPT !.buffer = <<>>, !.lastSeq = n]
  /\ link' = [link EXCEPT !["term"].pipe = Tail(@)]
  /\ UNCHANGED <<log, answered, turnRun, web, streamTroubles>>

\* forwardEvents collects the deltas of a turn, and sends them before any other
\* event.
Receive ==
  LET n == Head(link["term"].pipe)
      t == [term EXCEPT !.lastSeq = Max({n, term.lastSeq})]
  IN
  /\ link["term"].pipe # <<>>
  /\ term' = IF log[n] = "delta" THEN [t EXCEPT !.buffer = Append(@, n)]
             ELSE [Applied(t, Append(t.buffer, n)) EXCEPT !.buffer = <<>>]
  /\ link' = [link EXCEPT !["term"].pipe = Tail(@)]
  /\ UNCHANGED <<log, answered, turnRun, web, streamTroubles>>

\* The deltas are sent after a while, and when the connection has ended.
FlushBuffer ==
  /\ term.buffer # <<>>
  /\ term' = [Applied(term, term.buffer) EXCEPT !.buffer = <<>>]
  /\ UNCHANGED <<log, answered, turnRun, link, web, streamTroubles>>

\* The server answers a request for the timeline ...
ReadTimeline(load) ==
  /\ load.text = {0}
  /\ \/ /\ term' = [term EXCEPT !.loads = (@ \ {load}) \cup {[load EXCEPT !.text = answered]}]
        /\ UNCHANGED streamTroubles
     \/ StreamTrouble /\ term' = [term EXCEPT !.loads = @ \ {load}]
  /\ UNCHANGED <<log, answered, turnRun, link, web>>

\* ... and replaceTimeline shows it, and nothing else.
ReplaceTimeline(load) ==
  /\ load.text # {0}
  /\ term' = [term EXCEPT !.screen = load.text, !.loads = @ \ {load}, !.shows = load.no]
  /\ UNCHANGED <<log, answered, turnRun, link, web, streamTroubles>>

-----------------------------------------------------------------------------
(* The web console *)

\* The chat page starts from the timeline, which the console fetches, or still has
\* from the last time; reduceChat takes its latest number.
OpenChat ==
  /\ ~ web.open
  /\ \E n \in web.cached \cup {LatestSeq} :
       web' = [web EXCEPT !.open = TRUE, !.start = n, !.latestSeq = n, !.cached = {n}]
  /\ UNCHANGED <<log, answered, turnRun, link, term, streamTroubles>>

\* The user goes to another page.
LeaveChat ==
  /\ web.open
  /\ StreamTrouble
  /\ web' = [web EXCEPT !.open = FALSE, !.start = 0, !.latestSeq = 0, !.applied = <<>>,
                        !.claimed = {}]
  /\ link' = [link EXCEPT !["web"] = NoLink]
  /\ UNCHANGED <<log, answered, turnRun, term>>

WebEvent ==
  LET n == Head(link["web"].pipe) IN
  /\ link["web"].pipe # <<>>
  /\ web' = [web EXCEPT !.applied = Append(@, n), !.latestSeq = Max({n, @})]
  /\ link' = [link EXCEPT !["web"].pipe = Tail(@)]
  /\ UNCHANGED <<log, answered, turnRun, term, streamTroubles>>

\* handleSend shows the user's message under the next number.
WebSend ==
  /\ web.open /\ web.latestSeq < MaxEvents
  /\ StreamTrouble
  /\ web' = [web EXCEPT !.latestSeq = @ + 1, !.claimed = @ \cup {web.latestSeq + 1}]
  /\ UNCHANGED <<log, answered, turnRun, link, term>>

StreamNext ==
  \/ EmitDelta \/ StoreAnswer \/ EmitEnd
  \/ \E c \in Clients : Connect(c) \/ WriteAvailableEvents(c) \/ ConnectionBreaks(c)
  \/ DaemonRestarts
  \/ OpenTerminal \/ Receive \/ FlushBuffer
  \/ \E load \in term.loads : ReadTimeline(load) \/ ReplaceTimeline(load)
  \/ OpenChat \/ LeaveChat \/ WebEvent \/ WebSend

StreamSpec == StreamInit /\ [][StreamNext]_streamVars

-----------------------------------------------------------------------------

\* Reconnecting shows no batch of events twice and leaves none out: over broken
\* connections, pages and batches of deltas a client has applied, in order and
\* once each, the session's events from its timeline on up to the last number it
\* has.  Only the web console passes over events, those under a number that it
\* has given to a message of the user's own.
StreamsAreExact ==
  LET From(start, last) == {n \in Own : n > start /\ n <= last}
      got == term.applied \o term.buffer
  IN
  /\ Ascends(got) /\ ToSet(got) = From(term.start, term.lastSeq)
  /\ Ascends(web.applied) /\ ToSet(web.applied) \subseteq From(web.start, web.latestSeq)
  /\ From(web.start, web.latestSeq) \ ToSet(web.applied) \subseteq web.claimed

\* When a turn has ended and all is shown, the terminal's screen holds the answers
\* of the store, whatever was streamed, replaced and loaded in between; unless its
\* last load failed or an older answer came after it.
ScreenIsWhole ==
  (/\ term.asked > 0 /\ term.shows = term.asked /\ term.loads = {}
   /\ term.lastSeq = LatestSeq /\ log[LatestSeq] = "end"
   /\ term.buffer = <<>> /\ ~ turnRun.stored)
     => term.screen = answered
=============================================================================

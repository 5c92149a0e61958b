------------------------------ MODULE Knowledge ------------------------------
(***************************************************************************)
(* What turns and clients write down for later: the memories of            *)
(* internal/v2/memory with the tools of tools/namespace_memory.go, the     *)
(* context blocks of internal/v2/contextsvc, and contextasm/filter.go,     *)
(* which decides who sees which of them.  The clean-up of memories runs in *)
(* a loop of app/daemon.go beside all of it.                               *)
(*                                                                         *)
(* Every query matches every note.  A note's score is a number, and notes  *)
(* of one score rank by age.  One workspace is modelled.                   *)
(***************************************************************************)
EXTENDS Integers, FiniteSets, SequencesExt

CONSTANTS
  Scopes,      \* who reads and writes: [kind, role, task]
  Postings,    \* owners and visibilities that clients write: [owner, role, visibility]
  Scores,      \* how much a note is worth
  MaxNotes,    \* bound on the notes written
  Limits,      \* how many notes a reader asks for
  RecallLimit, \* how many Recall fetches when it is not told
  MaxCount,    \* memories the clean-up tolerates ...
  KeepCount    \* ... and how many it then keeps

ASSUME KnowledgeParameters ==
  /\ KeepCount \in Nat /\ MaxCount \in Nat \ {0} /\ MaxNotes \in Nat
  /\ RecallLimit \in Nat /\ Limits \subseteq Nat \ {0} /\ Scores \subseteq Int
  /\ Scopes \subseteq [kind : {"main", "role", "task"}, role : STRING, task : STRING]
  /\ Postings \subseteq [owner : STRING, role : STRING, visibility : STRING]

VARIABLES
  memories,    \* the rows, latest change first
  blocks,      \* the context blocks, most important first
  written,     \* notes written so far
  answer,      \* what a reader is being shown, before anything else happens
  cleaner,     \* the clean-up: where it is and what it is about to delete
  edit,        \* an update of a block between its read and its write
  erased       \* blocks that were deleted

knowledgeVars == <<memories, blocks, written, answer, cleaner, edit, erased>>

NoReader == [kind |-> "nobody", role |-> "", task |-> ""]
NoAnswer == [scope |-> NoReader, limit |-> 0, shown |-> {}, about |-> "memories"]
NothingToClean == [at |-> "idle", listed |-> {}, doomed |-> {}]
NoEdit == [id |-> 0, owner |-> "", role |-> "", visibility |-> "", score |-> 0, by |-> NoReader]

KnowledgeInit ==
  /\ memories = <<>> /\ blocks = <<>> /\ written = 0
  /\ answer = NoAnswer /\ cleaner = NothingToClean
  /\ edit = NoEdit /\ erased = {}

-----------------------------------------------------------------------------

Supported(n) ==
  n.visibility \in {"global", "workspace", "main_only", "role_shared", "role_only",
                    "task_only", "private", "session"}

SameRole(s, n) == n.owner = "role" /\ s.role # "" /\ s.role = n.role
SameTask(s, n) == n.owner = "task" /\ s.kind = "task" /\ s.task = n.role

\* IsVisibleToScope; an owner's id is in the field role, whatever owns the note.
VisibleTo(s, n) ==
  \/ n.visibility \in {"global", "workspace"}
  \/ n.visibility \in {"main_only", "role_shared"} /\ s.kind = "main"
  \/ n.visibility = "role_shared" /\ s.kind # "main" /\ n.owner \in {"user", "workspace"}
  \/ n.visibility \in {"role_shared", "role_only"} /\ s.kind # "main"
       /\ (SameRole(s, n) \/ SameTask(s, n))
  \/ n.visibility = "task_only" /\ SameTask(s, n)
  \/ /\ n.visibility = "session"
     /\ \/ s.kind = "main" /\ n.owner \in {"user", "workspace", "main_session"}
        \/ s.kind # "main" /\ SameRole(s, n)
        \/ SameTask(s, n)

\* defaultMemoryScope: what the tool memory_write gives a note of a turn.
DefaultScope(s) ==
  IF s.role # "" THEN [owner |-> "role", role |-> s.role, visibility |-> "role_shared"]
  ELSE [owner |-> "main_session", role |-> "", visibility |-> "workspace"]

Note(id, o, score, by) ==
  [id |-> id, owner |-> o.owner, role |-> o.role, visibility |-> o.visibility, score |-> score, by |-> by]

PlacesOf(notes, id) == {i \in DOMAIN notes : notes[i].id = id}

\* An id is a primary key: at most one note has it.
Without(notes, id) ==
  IF PlacesOf(notes, id) = {} THEN notes ELSE RemoveAt(notes, CHOOSE i \in PlacesOf(notes, id) : TRUE)

-----------------------------------------------------------------------------

\* A new note, or (a client may give an id) a new version of an old one.
Remember(n) ==
  /\ memories' = <<n>> \o Without(memories, n.id)
  /\ UNCHANGED <<blocks, answer, cleaner, edit, erased>>

FreshNote == written < MaxNotes /\ written' = written + 1

MemoryWrite ==
  /\ FreshNote
  /\ \E s \in Scopes, v \in Scores : Remember(Note(written', DefaultScope(s), v, s))

PostMemory ==
  \E o \in Postings, v \in Scores :
    \/ FreshNote /\ Remember(Note(written', o, v, NoReader))
    \/ \E i \in DOMAIN memories :
         Remember(Note(memories[i].id, o, v, NoReader)) /\ UNCHANGED written

Forget ==
  \E i \in DOMAIN memories :
    /\ memories' = Without(memories, memories[i].id)
    /\ UNCHANGED <<blocks, written, answer, cleaner, edit, erased>>

\* Listed by age, as stored; or by score, and of two alike the one that comes first.
Ahead(by, notes, i, j) ==
  IF by = "score" /\ notes[i].score # notes[j].score THEN notes[i].score > notes[j].score ELSE i < j

\* The places that fewer than so many of those counted are ahead of.
Leading(limit, places, counted, by, notes) ==
  {i \in places : Cardinality({j \in counted : Ahead(by, notes, j, i)}) < limit}

Visible(s, places, notes) == {i \in places : VisibleTo(s, notes[i])}

\* Mutant: the limit counts what the reader may not see.
PickAmongFirst(s, places, by, notes, limit) ==
  Leading(limit, Visible(s, places, notes), places, by, notes)

\* Every reader drops what its scope may not see before it cuts to the limit.
Pick(s, places, by, notes, limit) ==
  LET visible == Visible(s, places, notes) IN Leading(limit, visible, visible, by, notes)

Shows(s, places, by, notes, limit, about) ==
  /\ answer' = [scope |-> s, limit |-> limit, about |-> about,
                shown |-> {notes[i] : i \in Pick(s, places, by, notes, limit)}]
  /\ UNCHANGED <<memories, blocks, written, cleaner, edit, erased>>

\* A note of an unsupported kind makes a read fail that comes to it before it
\* has seen `stop' notes for its scope.
ReadsThrough(s, places, by, notes, stop) ==
  \A i \in Leading(stop, places, Visible(s, places, notes), by, notes) : Supported(notes[i])

AllSupported(notes) == \A i \in DOMAIN notes : Supported(notes[i])

\* recall_archive looks at all, by age; load_context reads one note.
RecallArchive == \E s \in Scopes, l \in Limits :
  AllSupported(memories) /\ Shows(s, DOMAIN memories, "age", memories, l, "memories")

LoadContext == \E s \in Scopes, i \in DOMAIN memories :
  Supported(memories[i]) /\ Shows(s, {i}, "age", memories, 1, "one")

\* The search of the console and the preview read as main and stop when they have
\* enough, the preview at one more.  Of memories it fetches only the latest.
SearchAsMain(s, l) ==
  /\ ReadsThrough(s, DOMAIN memories, "score", memories, l)
  /\ Shows(s, DOMAIN memories, "score", memories, l, "memories")

PreviewMemories(s, l) ==
  LET latest == Leading(RecallLimit, DOMAIN memories, DOMAIN memories, "age", memories) IN
    /\ ReadsThrough(s, latest, "score", memories, l + 1)
    /\ Shows(s, latest, "score", memories, l, "preview")

PreviewBlocks(s, l) ==
  /\ ReadsThrough(s, DOMAIN blocks, "age", blocks, l + 1)
  /\ Shows(s, DOMAIN blocks, "age", blocks, l, "blocks")

AsMain == \E s \in Scopes, l \in Limits :
  /\ s.kind = "main"
  /\ SearchAsMain(s, l) \/ PreviewMemories(s, l) \/ PreviewBlocks(s, l)

-----------------------------------------------------------------------------

Cleans(at) == cleaner.at = at /\ UNCHANGED <<blocks, written, answer, edit, erased>>

CleanupCounts ==
  /\ Cleans("idle")
  /\ Len(memories) > MaxCount
  /\ cleaner' = [cleaner EXCEPT !.at = "list"]
  /\ UNCHANGED memories

\* Mutant: the list is cut as the store returned it.
DoomedByAge(notes) ==
  {notes[i].id : i \in DOMAIN notes \ Leading(KeepCount, DOMAIN notes, DOMAIN notes, "age", notes)}

\* What does not rank among the first KeepCount goes.
Doomed(notes) ==
  {notes[i].id : i \in DOMAIN notes \ Leading(KeepCount, DOMAIN notes, DOMAIN notes, "score", notes)}

CleanupLists ==
  /\ Cleans("list")
  /\ cleaner' = [at |-> "delete", listed |-> ToSet(memories), doomed |-> Doomed(memories)]
  /\ UNCHANGED memories

\* One row at a time; the first error ends the pass.
CleanupDeletes ==
  /\ Cleans("delete")
  /\ \/ \E id \in cleaner.doomed :
          /\ memories' = Without(memories, id)
          /\ cleaner' = [cleaner EXCEPT !.doomed = @ \ {id}]
     \/ cleaner' = NothingToClean /\ UNCHANGED memories

-----------------------------------------------------------------------------

\* Blocks are listed by importance; one that has just been written goes before
\* those as important as it.
BlockOrder(b, others) ==
  InsertAt(others, Cardinality({i \in DOMAIN others : others[i].score > b.score}) + 1, b)

WriteBlock(b) ==
  /\ blocks' = BlockOrder(b, Without(blocks, b.id))
  /\ UNCHANGED <<memories, answer, cleaner, erased>>

CreateBlock ==
  /\ FreshNote
  /\ \E o \in Postings, v \in Scores : WriteBlock(Note(written', o, v, NoReader))
  /\ UNCHANGED edit

\* UpdateBlock reads the block, changes some of its fields, ...
ReadBlock ==
  /\ edit = NoEdit
  /\ \E i \in DOMAIN blocks, v \in Scores : edit' = [blocks[i] EXCEPT !.score = v]
  /\ UNCHANGED <<memories, blocks, written, answer, cleaner, erased>>

\* ... and writes all of it, which does nothing when the block has gone.
UpdateBlock ==
  /\ edit # NoEdit
  /\ IF \E i \in DOMAIN blocks : blocks[i].id = edit.id THEN WriteBlock(edit)
     ELSE UNCHANGED <<memories, blocks, answer, cleaner, erased>>
  /\ edit' = NoEdit
  /\ UNCHANGED written

DeleteBlock ==
  \E i \in DOMAIN blocks :
    /\ blocks' = Without(blocks, blocks[i].id)
    /\ erased' = erased \cup {blocks[i].id}
    /\ UNCHANGED <<memories, written, answer, cleaner, edit>>

BlockSteps == CreateBlock \/ ReadBlock \/ UpdateBlock \/ DeleteBlock

MemorySteps ==
  \/ MemoryWrite \/ PostMemory \/ Forget
  \/ CleanupCounts \/ CleanupLists \/ CleanupDeletes

ReadSteps == RecallArchive \/ LoadContext \/ AsMain

\* A read is one statement: its answer is looked at before the next step.
Answered ==
  /\ answer # NoAnswer
  /\ answer' = NoAnswer
  /\ UNCHANGED <<memories, blocks, written, cleaner, edit, erased>>

KnowledgeNext ==
  \/ answer = NoAnswer /\ (MemorySteps \/ BlockSteps \/ ReadSteps)
  \/ Answered

KnowledgeSpec == KnowledgeInit /\ [][KnowledgeNext]_knowledgeVars

-----------------------------------------------------------------------------

\* Notes with an audience of its own never reach anybody else: private ones
\* nobody, a role's another role, main's a role.  What a turn has noted with
\* memory_write is found again by main and by its own role's turns in whatever
\* task, and what is for everybody by everybody, unless as many others as were
\* asked for were shown; more are never shown.  Rules of
\* docs/context-system-design.zh-CN.md:140-198 over namespace_memory.go:227 and
\* filter.go:61.
RecallIsRight ==
  LET s == answer.scope
      for == answer.shown IN
    answer # NoAnswer =>
      /\ \A n \in for :
           /\ n.visibility # "private"
           /\ s.kind # "main" => n.visibility # "main_only"
           /\ s.kind = "main" => n.visibility \notin {"role_only", "task_only"}
           /\ n.by.role # "" => s.kind = "main" \/ s.role = n.by.role
           /\ n.owner = "role" /\ n.visibility \in {"role_only", "role_shared"} =>
                s.kind = "main" \/ s.role = n.role
      /\ Cardinality(for) <= answer.limit
      /\ Cardinality(for) < answer.limit =>
           /\ answer.about = "memories" => \A n \in ToSet(memories) :
                n.by # NoReader /\ (n.by.role = "" \/ s.kind = "main" \/ s.role = n.by.role) => n \in for
           /\ answer.about = "blocks" => \A n \in ToSet(blocks) :
                n.visibility \in {"global", "workspace"} => n \in for

Removed == {n \in ToSet(memories) : \A i \in DOMAIN memories' : memories'[i].id # n.id}

\* The clean-up (memory/service.go:82, "Keeps at least keepCount memories (highest
\* scored)") removes nothing that was not in its list, nothing of which the list
\* held fewer than KeepCount as good; and a block that was deleted does not come
\* back through an update that had read it before.
RemovalsAreRight ==
  [][ /\ cleaner'.doomed # cleaner.doomed /\ cleaner.at = "delete" =>
           \A n \in Removed :
             \E l \in cleaner.listed :
               /\ l.id = n.id
               /\ Cardinality({k \in cleaner.listed : k.score >= l.score} \ {l}) >= KeepCount
      /\ \A i \in DOMAIN blocks' : blocks'[i].id \notin erased' ]_knowledgeVars

=============================================================================

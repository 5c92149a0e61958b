------------------------------ MODULE MCServices ------------------------------
(***************************************************************************)
(* One instance of the parts of the daemon, and of its clients, that share *)
(* no state with each other.  `focus' is the part that a behaviour is      *)
(* about; the others rest.  Knowledge and EventStream are looked at from   *)
(* several sides, each of which leaves a part of the module alone.         *)
(***************************************************************************)
EXTENDS RoleFiles, Conversation, EventStream, ModelStream, FileTools,
        Knowledge, ProjectState, Launch

VARIABLE focus

MCPaths == {<<"d">>, <<"d", "f">>, <<"e">>, <<"e", "f">>, <<".git">>, <<".git", "f">>}
MCLink == <<"e">>
MCLinkTargets == {<<"d">>, <<".git">>, <<"..">>}

\* One turn may use two files, but not write one of them; the other anything
\* but one.
MCAllTools(x) == [tool \in FileToolNames |-> x]
MCRoleSpec ==
  [t1 |-> [tools |-> FileToolNames,
           allowed |-> MCAllTools({{<<"e", "f">>, <<"d", "f">>}}),
           denied |-> [MCAllTools({}) EXCEPT !["file_write"] = {<<"d", "f">>}]],
   t2 |-> [tools |-> FileToolNames,
           allowed |-> MCAllTools({}),
           denied |-> MCAllTools({<<"d", "f">>})]]

MCScopes == {[kind |-> "main", role |-> "", task |-> ""],
             [kind |-> "role", role |-> "r", task |-> ""],
             [kind |-> "role", role |-> "q", task |-> ""],
             [kind |-> "task", role |-> "r", task |-> "t"]}
MCPostings == {[owner |-> "user", role |-> "", visibility |-> "role_shared"],
               [owner |-> "role", role |-> "r", visibility |-> "role_only"],
               [owner |-> "task", role |-> "t", visibility |-> "task_only"],
               [owner |-> "main_session", role |-> "", visibility |-> "main_only"],
               [owner |-> "main_session", role |-> "", visibility |-> "unheard_of"],
               [owner |-> "workspace", role |-> "", visibility |-> "private"]}

MCResponses == {<<"text", "call", "call">>, <<"signature", "call">>}

servicesVars ==
  <<roleVars, conversationVars, streamVars, modelStreamVars, fileVars, knowledgeVars,
    summaryVars, launchVars, focus>>

-----------------------------------------------------------------------------

Services == {"roles", "conversation", "stream", "model", "files", "knowledge",
             "summary", "launch"}

Foci == (Services \ {"stream", "knowledge"})
          \cup {"terminal", "console", "recall", "cleanup", "blocks"}

ServicesInit ==
  /\ focus \in Foci
  /\ RoleInit /\ ConversationInit /\ StreamInit
  /\ ModelStreamInit /\ FilesInit /\ KnowledgeInit /\ SummaryInit /\ LaunchInit
  /\ focus = "model" \/ protocol = "openai"
  /\ focus = "files" \/ \A p \in Paths : (tree[p].kind = "dir") = (p \in LinkTargets)
                                           /\ tree[p].kind # "file"

\* All parts rest but one.
OnlyOf(part) ==
  /\ UNCHANGED focus
  /\ IF part = "roles" THEN TRUE ELSE UNCHANGED roleVars
  /\ IF part = "conversation" THEN TRUE ELSE UNCHANGED conversationVars
  /\ IF part = "stream" THEN TRUE ELSE UNCHANGED streamVars
  /\ IF part = "model" THEN TRUE ELSE UNCHANGED modelStreamVars
  /\ IF part = "files" THEN TRUE ELSE UNCHANGED fileVars
  /\ IF part = "knowledge" THEN TRUE ELSE UNCHANGED knowledgeVars
  /\ IF part = "summary" THEN TRUE ELSE UNCHANGED summaryVars
  /\ IF part = "launch" THEN TRUE ELSE UNCHANGED launchVars

\* What readers are shown of two memories, or blocks; what the clean-up takes
\* of more, which are all alike but for their scores.
Recalls == UNCHANGED <<blocks, edit, cleaner>> /\ written' <= 2
ReadsBlocks == UNCHANGED <<memories, cleaner>> /\ written' <= 2
CleansUp ==
  /\ UNCHANGED <<blocks, edit, answer>>
  /\ \A i \in DOMAIN memories' :
       memories'[i].by = NoReader /\ memories'[i].visibility = "private"

ServicesNext ==
  \/ focus = "roles" /\ RoleNext /\ OnlyOf("roles")
  \/ focus = "conversation" /\ ConversationNext /\ OnlyOf("conversation")
  \/ focus = "terminal" /\ StreamNext /\ UNCHANGED <<web, link["web"]>> /\ OnlyOf("stream")
  \/ focus = "console" /\ StreamNext /\ UNCHANGED <<term, link["term"]>> /\ OnlyOf("stream")
  \/ focus = "model" /\ ModelStreamNext /\ OnlyOf("model")
  \/ focus = "files" /\ FilesNext /\ OnlyOf("files")
  \/ focus = "recall" /\ KnowledgeNext /\ Recalls /\ OnlyOf("knowledge")
  \/ focus = "blocks" /\ KnowledgeNext /\ ReadsBlocks /\ OnlyOf("knowledge")
  \/ focus = "cleanup" /\ KnowledgeNext /\ CleansUp /\ OnlyOf("knowledge")
  \/ focus = "summary" /\ SummaryNext /\ OnlyOf("summary")
  \/ focus = "launch" /\ LaunchNext /\ OnlyOf("launch")

ServicesSpec == ServicesInit /\ [][ServicesNext]_servicesVars
=============================================================================

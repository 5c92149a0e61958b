------------------------------ MODULE FileTools ------------------------------
(***************************************************************************)
(* The file tools of internal/v2/tools (namespace_files.go) under a role's *)
(* policy (policy.go): file_read, file_write, file_edit, glob and grep, as *)
(* the turns of several sessions call them on one workspace.               *)
(*                                                                         *)
(* A path is the list of its names below the workspace.  A tool first      *)
(* checks the path it was given, as it stands and with its links resolved, *)
(* and then uses it; other turns' tools may run in between.  A glob of a   *)
(* policy is the set of paths it matches, and what a file says is left     *)
(* out.                                                                    *)
(***************************************************************************)
EXTENDS Naturals, Sequences, SequencesExt

CONSTANTS
  Turns,       \* turns that run at the same time
  RoleSpec,    \* their roles: [tools, allowed, denied], see below
  Paths,       \* the paths of the workspace
  Link,        \* the path where there may be a link
  LinkTargets  \* where it may lead, <<"..">> for outside

Outside == LinkTargets \ Paths

\* RoleSpec[t].allowed and .denied give, for a tool, the lists that a path must be
\* on, the role's and the tool's own, and the paths that are denied.
ASSUME FileParameters ==
  /\ Link \in Paths /\ LinkTargets \subseteq Paths \cup {<<"..">>}
  /\ \A t \in Turns : /\ DOMAIN RoleSpec[t] = {"tools", "allowed", "denied"}
                      /\ \A tool \in RoleSpec[t].tools :
                           /\ RoleSpec[t].allowed[tool] \subseteq SUBSET Paths
                           /\ RoleSpec[t].denied[tool] \subseteq Paths

VARIABLES
  tree,    \* what is at a path: "none", "dir", "file" or "link", and where it leads
  call,    \* what a turn's tool is doing
  touched  \* the files that the last step has read, written or told of

fileVars == <<tree, call, touched>>

FileToolNames == {"file_read", "file_write", "file_edit", "glob", "grep"}

NoCall == [at |-> "idle", tool |-> "none", path |-> <<>>, left |-> {}, file |-> <<>>]
Untouched == [turn |-> "none", tool |-> "none", files |-> {}]
Node(kind, to) == [kind |-> kind, to |-> to]

FilesInit ==
  /\ tree \in [Paths -> {Node(k, <<>>) : k \in {"none", "dir", "file"}}]
  /\ \A p \in Paths : tree[p].kind # "none" /\ Len(p) > 1 => tree[Front(p)].kind = "dir"
  /\ tree[Link].kind = "none" /\ \A p \in LinkTargets \ Outside : tree[p].kind = "dir"
  /\ call = [t \in Turns |-> NoCall]
  /\ touched = Untouched

-----------------------------------------------------------------------------
(* Paths *)

\* Where the links of the tree lead.
Leads == [q \in Paths |-> IF tree[q].kind = "link" THEN tree[q].to ELSE q]

Follow(links, q) == IF q \in Paths THEN links[q] ELSE q

\* All names of a path are followed but for the last.
Parent(links, p) ==
  LET Enter(q, name) == Append(Follow(links, q), name) IN FoldLeft(Enter, <<>>, p)

\* filepath.EvalSymlinks, and resolvePathFromNearestExistingParent for what is not
\* there: a name that is missing stays as it is.
Real(p) == Follow(Leads, Parent(Leads, p))

Within(r) == ~ (Len(r) > 0 /\ r[1] = "..")

\* What there is at a path without links; outside, there is everything.
KindAt(r) ==
  IF Len(r) = 0 \/ r \in Outside THEN "dir"
  ELSE IF ~ Within(r) THEN "file"
  ELSE IF r \in Paths THEN tree[r].kind ELSE "none"

\* A directory that is not a link to one.
IsDir(p) == KindAt(Real(p)) = "dir" /\ ~ (p \in Paths /\ tree[p].kind = "link")

ProtectedPath(p) == \E i \in DOMAIN p : p[i] \in {".git", ".env", ".sesame"}

\* explainPathPermission
Permitted(t, tool, p) ==
  /\ \A list \in RoleSpec[t].allowed[tool] : p \in list
  /\ p \notin RoleSpec[t].denied[tool]

\* explainDirectorySearchStartPermission: a directory above what is allowed.
MaySearch(t, tool, dir) ==
  /\ \A list \in RoleSpec[t].allowed[tool] : \E p \in list : IsStrictPrefix(dir, p)
  /\ dir \notin RoleSpec[t].denied[tool]

\* Mutant: only the path as it was given is looked at.
CheckAsGiven(t, tool, p, allowMissing) ==
  /\ allowMissing \/ KindAt(Real(p)) # "none"
  /\ ~ ProtectedPath(p) /\ Permitted(t, tool, p)

\* checkProtectedPathAccess, checkRolePathPermission and the checks that the path
\* stays within the workspace.
Check(t, tool, p, allowMissing) ==
  /\ allowMissing \/ KindAt(Real(p)) # "none"
  /\ Within(Real(p))
  /\ \A q \in {p, Real(p)} : ~ ProtectedPath(q) /\ Permitted(t, tool, q)

-----------------------------------------------------------------------------

Go(t, c) == call' = [call EXCEPT ![t] = c]
Touch(t, files) == touched' = [turn |-> t, tool |-> call[t].tool, files |-> files]
TouchNothing == touched' = Untouched

\* EvaluateRoleToolAccess, in the registry and again in every tool.
MayCall(t, tool) == call[t].at = "idle" /\ tool \in RoleSpec[t].tools

\* file_read, file_write and file_edit check their path.
CheckFile(t) ==
  /\ \E tool \in FileToolNames \ {"glob", "grep"}, p \in Paths :
       /\ MayCall(t, tool)
       /\ Check(t, tool, p, tool = "file_write")
       /\ Go(t, [NoCall EXCEPT !.tool = tool, !.path = p,
                               !.at = IF tool = "file_write" THEN "dirs" ELSE "read"])
  /\ UNCHANGED tree /\ TouchNothing

\* The file is read; file_edit goes on, if it finds its text there once.
ReadFile(t) ==
  LET r == Real(call[t].path) IN
  /\ call[t].at = "read"
  /\ IF KindAt(r) = "file"
     THEN /\ Touch(t, {r})
          /\ \/ Go(t, NoCall)
             \/ call[t].tool = "file_edit" /\ Go(t, [call[t] EXCEPT !.at = "write"])
     ELSE Go(t, NoCall) /\ TouchNothing
  /\ UNCHANGED tree

\* os.MkdirAll
MakeDirs(t) ==
  LET above == {Real(q) : q \in {q \in Paths : IsStrictPrefix(q, call[t].path)}} IN
  /\ call[t].at = "dirs"
  /\ IF \E r \in above : KindAt(r) = "file"
     THEN Go(t, NoCall) /\ UNCHANGED tree
     ELSE /\ tree' = [r \in Paths |-> IF r \in above THEN Node("dir", <<>>) ELSE tree[r]]
          /\ Go(t, [call[t] EXCEPT !.at = "write"])
  /\ TouchNothing

\* os.WriteFile
WriteFile(t) ==
  LET r == Real(call[t].path) IN
  /\ call[t].at = "write"
  /\ IF KindAt(r) = "dir"
     THEN UNCHANGED tree /\ TouchNothing
     ELSE /\ tree' = [q \in Paths |-> IF q = r THEN Node("file", <<>>) ELSE tree[q]]
          /\ Touch(t, {r})
  /\ Go(t, NoCall)

\* glob lists the files and then leaves out what it may not tell of.
ListMatches(t) ==
  /\ MayCall(t, "glob")
  /\ Go(t, [NoCall EXCEPT !.tool = "glob", !.at = "filter",
                          !.left = {p \in Paths : KindAt(Real(p)) # "none"}])
  /\ UNCHANGED tree /\ TouchNothing

FilterMatches(t) ==
  /\ call[t].at = "filter"
  /\ Touch(t, {Real(p) : p \in {p \in call[t].left : Check(t, "glob", p, FALSE)}})
  /\ Go(t, NoCall)
  /\ UNCHANGED tree

-----------------------------------------------------------------------------
(* grep *)

\* A search starts at the workspace, which needs no permission, at a directory
\* above what the role may read, or at a file.
StartSearch(t) ==
  /\ MayCall(t, "grep")
  /\ \E start \in Paths \cup {<<>>} :
       /\ KindAt(Real(start)) # "none" /\ Within(Real(start))
       /\ \A q \in {start, Real(start)} :
            /\ ~ ProtectedPath(q)
            /\ \/ start = <<>>
               \/ IF IsDir(start) THEN MaySearch(t, "grep", q) ELSE Permitted(t, "grep", q)
       /\ Go(t, [NoCall EXCEPT !.tool = "grep", !.at = "walk", !.path = start, !.left = Paths])
  /\ UNCHANGED tree /\ TouchNothing

\* filepath.WalkDir follows no links, and enters no protected directory.
Walked(start) ==
  {p \in Paths : /\ IsPrefix(start, p) /\ KindAt(Real(p)) # "none" /\ ~ IsDir(p)
                 /\ \A q \in Paths : IsStrictPrefix(q, p) /\ IsPrefix(start, q) =>
                      IsDir(q) /\ ~ ProtectedPath(q) /\ ~ ProtectedPath(Real(q))}

CheckNext(t) ==
  /\ call[t].at = "walk"
  /\ \E p \in call[t].left \cap Walked(call[t].path) :
       Go(t, [call[t] EXCEPT !.left = @ \ {p}, !.file = p,
                             !.at = IF Check(t, "grep", p, FALSE) THEN "scan" ELSE "walk"])
  /\ UNCHANGED tree /\ TouchNothing

ScanFile(t) ==
  LET r == Real(call[t].file) IN
  /\ call[t].at = "scan"
  /\ IF KindAt(r) = "file" THEN Touch(t, {r}) ELSE TouchNothing
  /\ Go(t, [call[t] EXCEPT !.at = "walk"])
  /\ UNCHANGED tree

\* All is searched, or enough found.
EndSearch(t) ==
  /\ call[t].at = "walk"
  /\ Go(t, NoCall)
  /\ UNCHANGED tree /\ TouchNothing

-----------------------------------------------------------------------------

\* The user puts a link where there is nothing, or takes it away.  No tool of this
\* module makes links; the user does, while no such tool runs.
Relink ==
  /\ \A t \in Turns : call[t].at = "idle"
  /\ IF tree[Link].kind = "link"
     THEN tree' = [tree EXCEPT ![Link] = Node("none", <<>>)]
     ELSE /\ tree[Link].kind = "none"
          /\ \E to \in LinkTargets : tree' = [tree EXCEPT ![Link] = Node("link", to)]
  /\ UNCHANGED call /\ TouchNothing

FilesNext ==
  \/ \E t \in Turns : \/ CheckFile(t) \/ ReadFile(t) \/ MakeDirs(t) \/ WriteFile(t)
                      \/ ListMatches(t) \/ FilterMatches(t)
                      \/ StartSearch(t) \/ CheckNext(t) \/ ScanFile(t) \/ EndSearch(t)
  \/ Relink

FilesSpec == FilesInit /\ [][FilesNext]_fileVars

-----------------------------------------------------------------------------

\* What a tool reads, writes or tells of is in the workspace, in no protected area
\* and permitted to its role, where the file really is: whatever links lead there,
\* and whatever files and directories other turns have made since its checks.
ToolsKeepToPolicy ==
  \A r \in touched.files :
    Within(r) /\ ~ ProtectedPath(r) /\ Permitted(touched.turn, touched.tool, r)
=============================================================================

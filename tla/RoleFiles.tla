------------------------------ MODULE RoleFiles ------------------------------
(***************************************************************************)
(* internal/v2/roles/service.go: a role is a directory with role.yaml,     *)
(* prompt.md and a snapshot of every version, which the handlers of        *)
(* app/routes.go and the tools of tools/namespace_roles.go write without a *)
(* lock.  Each file is replaced atomically, by a rename; the files of a    *)
(* role are not.  Any write may fail, and the daemon may die between two.  *)
(*                                                                         *)
(* One role is modelled, as roles share nothing.  What is in a file is a   *)
(* member of Texts; inputs that validateInput refuses change nothing and   *)
(* are left out.                                                           *)
(***************************************************************************)
EXTENDS Naturals, FiniteSetsExt

CONSTANTS
  Writers,     \* requests and tool calls
  Texts,       \* what role.yaml and prompt.md may say
  MaxVersion,  \* bound on the versions of the role
  RoleTroubles \* bound on failed writes, restarts and edits by hand

ASSUME RoleParameters ==
  Texts # {} /\ MaxVersion \in Nat \ {0} /\ RoleTroubles \in Nat

VARIABLES
  dir,         \* the role's directory exists
  meta,        \* role.yaml: its version (0: none is given) and text, or Absent
  prompt,      \* prompt.md, or Absent
  snapshots,   \* the snapshots of the versions, or Absent
  rewritten,   \* a snapshot was replaced by a different one
  writer,      \* where a writer is, and what it is about to write
  specialist,  \* the session row of the role's specialist exists
  overlapped,  \* two writers have been at work on the role at a time
  torn,        \* a write was given up half-way
  roleTroubles

roleVars == <<dir, meta, prompt, snapshots, rewritten, writer, specialist, overlapped, torn, roleTroubles>>

Absent == [version |-> 0, text |-> "absent"]
NoPrompt == "absent"
NoSnapshot == [text |-> "absent", prompt |-> "absent"]
Versions == 1 .. MaxVersion

Resting == [at |-> "idle", version |-> 0, text |-> "absent", prompt |-> NoPrompt]

RoleTrouble == roleTroubles < RoleTroubles /\ roleTroubles' = roleTroubles + 1

RoleInit ==
  /\ dir = FALSE /\ meta = Absent /\ prompt = NoPrompt
  /\ snapshots = [v \in Versions |-> NoSnapshot] /\ rewritten = FALSE
  /\ writer = [w \in Writers |-> Resting]
  /\ specialist = FALSE /\ overlapped = FALSE /\ torn = FALSE
  /\ roleTroubles = 0

-----------------------------------------------------------------------------

\* readRole needs both files.
Readable == meta # Absent /\ prompt # NoPrompt

Begins(w) == \A v \in Writers \ {w} : writer[v].at \in {"idle", "delegate"}

RoleGoto(w, at) == writer' = [writer EXCEPT ![w].at = at]

\* What a new role says does not matter.
First == CHOOSE x \in Texts : TRUE

\* Create makes version 1 in a directory that does not exist.
CreateRole(w) ==
  /\ writer[w].at = "idle"
  /\ ~ dir
  /\ writer' = [writer EXCEPT ![w] =
       [at |-> "meta", version |-> 1, text |-> First, prompt |-> First]]
  /\ overlapped' = (overlapped \/ ~ Begins(w))
  /\ UNCHANGED <<dir, meta, prompt, snapshots, rewritten, specialist, torn, roleTroubles>>

\* role_update reads the role and merges its arguments into what it has read;
\* the handler takes the whole role from the client.
ReadForUpdate(w) ==
  /\ writer[w].at = "idle"
  /\ Readable
  /\ \E x, y \in Texts :
       /\ \/ x # meta.text /\ y = prompt     \* the tool, with another field ...
          \/ x = meta.text /\ y # prompt     \* ... or another prompt
          \/ x = y                           \* the handler
       /\ writer' = [writer EXCEPT ![w] = [at |-> "update", version |-> 0, text |-> x, prompt |-> y]]
  /\ overlapped' = (overlapped \/ ~ Begins(w))
  /\ UNCHANGED <<dir, meta, prompt, snapshots, rewritten, specialist, torn, roleTroubles>>

\* nextSnapshotVersion
NextSnapshotVersion == 1 + Max({0} \cup {v \in Versions : snapshots[v] # NoSnapshot})

\* Mutant: a role without a version starts from one again.
NextVersionOnly == meta.version + 1

\* Update counts on from the version in role.yaml, and a role that has none from
\* its snapshots.
NextVersion == IF meta.version + 1 <= 1 THEN NextSnapshotVersion ELSE meta.version + 1

UpdateRole(w) ==
  /\ writer[w].at = "update"
  /\ \/ Readable /\ NextVersion \in Versions
          /\ writer' = [writer EXCEPT ![w].at = "meta", ![w].version = NextVersion]
     \/ ~ Readable /\ writer' = [writer EXCEPT ![w] = Resting]
  /\ UNCHANGED <<dir, meta, prompt, snapshots, rewritten, specialist, overlapped, torn, roleTroubles>>

\* A write that fails ends the request.
GivesUp(w) ==
  /\ RoleTrouble
  /\ writer' = [writer EXCEPT ![w] = Resting]

\* writeRole: the directory and role.yaml, ...
WriteMeta(w) ==
  /\ writer[w].at = "meta"
  /\ \/ /\ dir' = TRUE
        /\ meta' = [version |-> writer[w].version, text |-> writer[w].text]
        /\ RoleGoto(w, "prompt")
        /\ UNCHANGED roleTroubles
     \/ GivesUp(w) /\ dir' \in {dir, TRUE} /\ UNCHANGED meta
  /\ UNCHANGED <<prompt, snapshots, rewritten, specialist, overlapped, torn>>

\* ... prompt.md, ...
WritePrompt(w) ==
  /\ writer[w].at = "prompt"
  /\ \/ /\ prompt' = writer[w].prompt
        /\ RoleGoto(w, "snapshot")
        /\ UNCHANGED <<torn, roleTroubles>>
     \/ GivesUp(w) /\ torn' = TRUE /\ UNCHANGED prompt
  /\ UNCHANGED <<dir, meta, snapshots, rewritten, specialist, overlapped>>

Content(x, y) == [text |-> x, prompt |-> y]

\* ... and the version's snapshot.  The role is of one piece again.
WriteSnapshot(w) ==
  LET c == Content(writer[w].text, writer[w].prompt)
      v == writer[w].version
  IN
  /\ writer[w].at = "snapshot"
  /\ \/ /\ snapshots' = [snapshots EXCEPT ![v] = c]
        /\ rewritten' = (rewritten \/ snapshots[v] \notin {NoSnapshot, c})
        /\ writer' = [writer EXCEPT ![w] = Resting]
        /\ torn' = FALSE
        /\ UNCHANGED roleTroubles
     \/ GivesUp(w) /\ torn' = TRUE /\ UNCHANGED <<snapshots, rewritten>>
  /\ UNCHANGED <<dir, meta, prompt, specialist, overlapped>>

\* InstallRoleFromPath removes the role with its snapshots and copies another
\* directory into its place, here one without snapshots.
InstallRole(w) ==
  /\ writer[w].at = "idle"
  /\ dir' = TRUE /\ meta' = Absent /\ prompt' = NoPrompt
  /\ snapshots' = [v \in Versions |-> NoSnapshot] /\ rewritten' = FALSE
  /\ writer' = [writer EXCEPT ![w] =
       [at |-> "copy prompt", version |-> 0, text |-> First, prompt |-> First]]
  /\ overlapped' = ~ Begins(w)
  /\ torn' = TRUE
  /\ UNCHANGED <<specialist, roleTroubles>>

CopyPrompt(w) ==
  /\ writer[w].at = "copy prompt"
  /\ \/ prompt' = writer[w].prompt /\ RoleGoto(w, "copy meta") /\ UNCHANGED roleTroubles
     \/ GivesUp(w) /\ UNCHANGED prompt
  /\ UNCHANGED <<dir, meta, snapshots, rewritten, specialist, overlapped, torn>>

CopyMeta(w) ==
  /\ writer[w].at = "copy meta"
  /\ \/ /\ meta' = [version |-> writer[w].version, text |-> writer[w].text]
        /\ writer' = [writer EXCEPT ![w] = Resting]
        /\ UNCHANGED roleTroubles
     \/ GivesUp(w) /\ UNCHANGED meta
  /\ UNCHANGED <<dir, prompt, snapshots, rewritten, specialist, overlapped, torn>>

\* Somebody edits role.yaml and leaves the version out.
EditByHand ==
  /\ RoleTrouble
  /\ meta.version > 0
  /\ \A w \in Writers : writer[w].at \in {"idle", "delegate"}
  /\ meta' = [meta EXCEPT !.version = 0]
  /\ torn' = TRUE
  /\ UNCHANGED <<dir, prompt, snapshots, rewritten, writer, specialist, overlapped>>

RoleRestart ==
  /\ RoleTrouble
  /\ torn' = (torn \/ \E w \in Writers : writer[w].at \in {"meta", "prompt", "snapshot"})
  /\ writer' = [w \in Writers |-> Resting]
  /\ UNCHANGED <<dir, meta, prompt, snapshots, rewritten, specialist, overlapped>>

\* delegate_to_role: the role is read and its specialist's session looked up; a
\* task follows if there is one (TaskManager) ...
DelegateLooks(w) ==
  /\ writer[w].at = "idle"
  /\ Readable
  /\ ~ specialist
  /\ RoleGoto(w, "delegate")
  /\ UNCHANGED <<dir, meta, prompt, snapshots, rewritten, specialist, overlapped, torn, roleTroubles>>

\* ... or after it was stored, unless another delegation has been faster: the
\* second row is refused, and the tool's call fails.
DelegateStores(w) ==
  /\ writer[w].at = "delegate"
  /\ specialist' = TRUE
  /\ writer' = [writer EXCEPT ![w] = Resting]
  /\ UNCHANGED <<dir, meta, prompt, snapshots, rewritten, overlapped, torn, roleTroubles>>

RoleNext ==
  \/ \E w \in Writers :
       \/ CreateRole(w) \/ ReadForUpdate(w) \/ UpdateRole(w)
       \/ WriteMeta(w) \/ WritePrompt(w) \/ WriteSnapshot(w)
       \/ InstallRole(w) \/ CopyPrompt(w) \/ CopyMeta(w)
       \/ DelegateLooks(w) \/ DelegateStores(w)
  \/ EditByHand
  \/ RoleRestart

RoleFilesSpec == RoleInit /\ [][RoleNext]_roleVars

-----------------------------------------------------------------------------

Quiet == \A w \in Writers : writer[w].at \in {"idle", "delegate"}

\* As long as nobody has written the role at the same time, its history is kept:
\* no version's snapshot is ever replaced by another, over failed writes,
\* restarts and role.yaml files without a version; and a role that is at rest
\* says, file by file, what the snapshot of its version says.
RoleHistoryIsKept ==
  ~ overlapped =>
    /\ ~ rewritten
    /\ Quiet /\ ~ torn /\ Readable =>
         snapshots[meta.version] = Content(meta.text, prompt)
=============================================================================

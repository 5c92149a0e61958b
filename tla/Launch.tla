-------------------------------- MODULE Launch --------------------------------
(***************************************************************************)
(* How the daemon comes up: the clients that look for it and start it      *)
(* (cmd/sesame/main.go) and its own start (internal/v2/app/daemon.go),     *)
(* which first takes what the store says is running for the leavings of a  *)
(* dead daemon, and only then tries for the address.  Nothing else keeps   *)
(* two daemons from sharing a store.                                       *)
(*                                                                         *)
(* A piece of work is a turn, a task or a workflow run: its row says       *)
(* running from the moment its goroutine begins until its end is written.  *)
(***************************************************************************)
EXTENDS Naturals, FiniteSets

CONSTANTS
  Launchers,      \* clients
  Daemons,        \* processes that may be started
  Work,           \* turns, tasks and workflow runs
  LaunchTroubles  \* bound on slow answers of the daemon and on its deaths

ASSUME LaunchParameters == LaunchTroubles \in Nat /\ "nobody" \notin Daemons

VARIABLES
  launcher,   \* where a client is, and how often it has looked in vain
  daemon,     \* where a daemon is in Run
  found,      \* the work that a starting daemon has listed and not yet marked
  workRow,    \* the state in a piece of work's row
  atWork,     \* the daemon whose goroutine does it, or "nobody"
  sideBySide, \* a daemon was started while another one was alive
  launchTroubles

launchVars == <<launcher, daemon, found, workRow, atWork, sideBySide, launchTroubles>>

Looks == 4

LaunchTrouble == launchTroubles < LaunchTroubles /\ launchTroubles' = launchTroubles + 1

Alive(d) == daemon[d] \in {"starting", "marking", "marked", "serving"}
Serving == \E d \in Daemons : daemon[d] = "serving"

LaunchInit ==
  /\ launcher = [l \in Launchers |-> [at |-> "looking", vain |-> 0]]
  /\ daemon = [d \in Daemons |-> "none"]
  /\ found = [d \in Daemons |-> {}]
  /\ workRow = [w \in Work |-> "none"]
  /\ atWork = [w \in Work |-> "nobody"]
  /\ sideBySide = FALSE
  /\ launchTroubles = 0

-----------------------------------------------------------------------------
(* Clients *)

\* cmd.Start
StartDaemon(d) ==
  /\ daemon[d] = "none"
  /\ daemon' = [daemon EXCEPT ![d] = "starting"]
  /\ sideBySide' = (sideBySide \/ \E e \in Daemons : Alive(e))

\* daemonReady: a daemon that serves answers in half a second, or is too slow.
Answers == Serving /\ UNCHANGED launchTroubles
DoesNotAnswer ==
  \/ ~ Serving /\ UNCHANGED launchTroubles
  \/ Serving /\ LaunchTrouble

\* ensureDaemon looks once, and three times more after a while each ...
LookForDaemon(l) ==
  /\ launcher[l].at = "looking" /\ launcher[l].vain < Looks
  /\ \/ Answers /\ launcher' = [launcher EXCEPT ![l].at = "in"]
     \/ DoesNotAnswer /\ launcher' = [launcher EXCEPT ![l].vain = @ + 1]
  /\ UNCHANGED <<daemon, found, workRow, atWork, sideBySide>>

\* ... and then starts a daemon and waits for one, ...
StartItself(l) ==
  /\ launcher[l].at = "looking" /\ launcher[l].vain = Looks
  /\ \E d \in Daemons : StartDaemon(d)
  /\ launcher' = [launcher EXCEPT ![l].at = "waiting"]
  /\ UNCHANGED <<found, workRow, atWork, launchTroubles>>

\* ... for five seconds.
WaitForDaemon(l) ==
  /\ launcher[l].at = "waiting"
  /\ \/ Answers /\ launcher' = [launcher EXCEPT ![l].at = "in"]
     \/ DoesNotAnswer /\ launcher' = [launcher EXCEPT ![l].at = "gaveUp"]
  /\ UNCHANGED <<daemon, found, workRow, atWork, sideBySide>>

\* A user leaves and comes back later, or starts a daemon by hand.
ComeBack(l) ==
  /\ launcher[l].at \in {"in", "gaveUp"}
  /\ \/ launcher' = [launcher EXCEPT ![l] = [at |-> "looking", vain |-> 0]]
        /\ UNCHANGED <<daemon, sideBySide>>
     \/ (\E d \in Daemons : StartDaemon(d)) /\ UNCHANGED launcher
  /\ UNCHANGED <<found, workRow, atWork, launchTroubles>>

-----------------------------------------------------------------------------
(* Run *)

\* The lists of markInterrupted.
ListRunning(d) ==
  /\ daemon[d] = "starting"
  /\ daemon' = [daemon EXCEPT ![d] = "marking"]
  /\ found' = [found EXCEPT ![d] = {w \in Work : workRow[w] = "running"}]
  /\ UNCHANGED <<launcher, workRow, atWork, sideBySide, launchTroubles>>

\* One row after the other, whatever it says by now; an error ends the process.
MarkInterrupted(d) ==
  /\ daemon[d] = "marking"
  /\ \/ \E w \in found[d] :
          /\ workRow' = [workRow EXCEPT ![w] = "interrupted"]
          /\ found' = [found EXCEPT ![d] = @ \ {w}]
          /\ UNCHANGED daemon
     \/ /\ found[d] = {}
        /\ daemon' = [daemon EXCEPT ![d] = "marked"]
        /\ UNCHANGED <<workRow, found>>
  /\ UNCHANGED <<launcher, atWork, sideBySide, launchTroubles>>

\* Mutant: the daemon serves before it has looked at what is running.
ListenFirst(d) ==
  /\ daemon[d] = "marking" /\ ~ Serving
  /\ daemon' = [daemon EXCEPT ![d] = "serving"]
  /\ UNCHANGED <<launcher, found, workRow, atWork, sideBySide, launchTroubles>>

\* ListenAndServe: the address is free, or Run returns the error.
Listen(d) ==
  /\ daemon[d] = "marked"
  /\ daemon' = [daemon EXCEPT ![d] = IF Serving THEN "dead" ELSE "serving"]
  /\ UNCHANGED <<launcher, found, workRow, atWork, sideBySide, launchTroubles>>

\* A process dies, and its goroutines with it.
Die(d) ==
  /\ Alive(d)
  /\ LaunchTrouble
  /\ daemon' = [daemon EXCEPT ![d] = "dead"]
  /\ atWork' = [w \in Work |-> IF atWork[w] = d THEN "nobody" ELSE atWork[w]]
  /\ UNCHANGED <<launcher, found, workRow, sideBySide>>

\* A client that is in gives the daemon work; the daemon also starts some itself.
BeginWork(d, w) ==
  /\ daemon[d] = "serving" /\ workRow[w] = "none"
  /\ workRow' = [workRow EXCEPT ![w] = "running"]
  /\ atWork' = [atWork EXCEPT ![w] = d]
  /\ UNCHANGED <<launcher, daemon, found, sideBySide, launchTroubles>>

\* The end is written over whatever the row says.
EndWork(w) ==
  /\ atWork[w] # "nobody"
  /\ workRow' = [workRow EXCEPT ![w] = "ended"]
  /\ atWork' = [atWork EXCEPT ![w] = "nobody"]
  /\ UNCHANGED <<launcher, daemon, found, sideBySide, launchTroubles>>

LaunchNext ==
  \/ \E l \in Launchers : LookForDaemon(l) \/ StartItself(l) \/ WaitForDaemon(l) \/ ComeBack(l)
  \/ \E d \in Daemons :
       \/ ListRunning(d) \/ MarkInterrupted(d) \/ Listen(d) \/ Die(d)
       \/ \E w \in Work : BeginWork(d, w)
  \/ \E w \in Work : EndWork(w)

LaunchSpec == LaunchInit /\ [][LaunchNext]_launchVars

-----------------------------------------------------------------------------

\* As long as no daemon was started beside a living one, a start-up interrupts
\* the work of the dead and nothing else, and all of it: what is marked is being
\* done by nobody, and while a daemon serves, what the store says is running is
\* being done by it (app/daemon.go:199 tells the user of such a task that "the
\* daemon restarted").
OnlyTheDeadAreInterrupted ==
  ~ sideBySide =>
    \A w \in Work :
      /\ workRow[w] = "interrupted" => atWork[w] = "nobody"
      /\ workRow[w] = "running" /\ Serving => atWork[w] \in {d \in Daemons : daemon[d] = "serving"}
=============================================================================

----------------------------- MODULE AppProcesses -----------------------------
(***************************************************************************)
(* The processes of the first-screen applications, as the DIAL server sees *)
(* them: main.c's runApplication and isAppRunning over the kernel's        *)
(* process table.  A process the server forks shows the server's own       *)
(* executable until it executes the application's, and when that fails it  *)
(* goes on as a second copy of the server.  Users may start and quit       *)
(* applications themselves.                                                *)
(***************************************************************************)
EXTENDS Naturals, FiniteSets

CONSTANTS
  Pids,       \* process identifiers; none is used twice
  NoPid,      \* isAppRunning's 0: no process
  AnyChild    \* waitpid's 0: any child of the server

ASSUME PidAssumption ==
  /\ IsFiniteSet(Pids)
  /\ NoPid \notin Pids /\ AnyChild \notin Pids \cup {NoPid}

VARIABLE
  proc        \* proc[p]: the process table

ProcStates == {"free", "forked", "up", "dying", "zombie", "reaped", "clone"}

ProcInit ==
  proc = [p \in Pids |-> [st |-> "free", app |-> "", child |-> FALSE, id |-> 0,
                          early |-> {}]]

\* The processes isAppRunning can find: not a child that has not executed the
\* application yet, and not a zombie, whose /proc/<pid>/exe cannot be read.
Found(a) == {p \in Pids : proc[p].app = a /\ proc[p].st \in {"up", "dying"}}

\* What isAppRunning returns: the first of them in /proc, or 0.
IsAppRunning(a) == IF Found(a) = {} THEN {NoPid} ELSE Found(a)

\* Children forked for a that do not show as a yet.
Forked(a) == {p \in Pids : proc[p].app = a /\ proc[p].st = "forked"}

\* runApplication's fork, for request i; early is a history of the children
\* isAppRunning was too early for when the caller asked it.
Fork(p, a, i, early) ==
  /\ proc[p].st = "free"
  /\ proc' = [proc EXCEPT ![p] = [st |-> "forked", app |-> a, child |-> TRUE,
                                  id |-> i, early |-> early]]

Exec(p) ==
  /\ proc[p].st = "forked"
  /\ proc' = [proc EXCEPT ![p].st = "up"]

\* execv returns -1 and the child returns from runApplication.
ExecFails(p) ==
  /\ proc[p].st = "forked"
  /\ proc' = [proc EXCEPT ![p].st = "clone"]

\* The application ends, by itself or because it was told to: the process of
\* a child stays in the table until the server waits for it.
Exit(p) ==
  /\ proc[p].st \in {"up", "dying"}
  /\ proc' = [proc EXCEPT ![p].st = IF proc[p].child THEN "zombie" ELSE "reaped"]

\* A user starts the application.
StartByHand(p, a) ==
  /\ proc[p].st = "free"
  /\ proc' = [proc EXCEPT ![p].st = "up", ![p].app = a]

\* kill(pid, SIGTERM).
Kill(p) == proc' = [proc EXCEPT ![p].st = "dying"]

\* waitpid(run_id, NULL, WNOHANG): the zombie with this identifier or, for 0,
\* one of the zombies; nothing if there is none.
Reap(run_id) ==
  LET ended == {p \in Pids : proc[p].st = "zombie" /\ run_id \in {p, AnyChild}}
  IN  \/ ended = {} /\ UNCHANGED proc
      \/ \E p \in ended : proc' = [proc EXCEPT ![p].st = "reaped"]
===============================================================================

----------------------------- MODULE Daemonize -----------------------------
(***************************************************************************)
(* Process_Daemonize of src/ostc/signals/signalh.cpp and the use main()    *)
(* makes of its result: fork, setsid, fork again, close the standard       *)
(* descriptors, reopen them on /dev/null.  Three processes run: the one    *)
(* the user started, the first child and the second child (the daemon).    *)
(* setsid() cannot fail here, as a freshly forked child never leads a      *)
(* process group, and the three open() calls find the descriptors that the *)
(* three close() calls have just freed.                                    *)
(***************************************************************************)
EXTENDS FdTable

\* The daemon needs three descriptors; POSIX grants every process more than that.
ASSUME RoomForStdio == MaxFd >= 2

VARIABLES
    pc,         \* pc[p]: where process p is
    session,    \* session[p]: the session p belongs to
    fds,        \* fds[p]: the descriptor table of p
    status      \* status[p]: the exit status of p, or "none"

vars == <<pc, session, fds, status>>

Procs == {"parent", "child", "daemon"}

Steps == {"unborn", "fork1", "setsid", "fork2", "close0", "close1", "close2",
          "open0", "open1", "open2", "serving", "exited"}

Files == {Free, "inherited", "nullR", "nullRW"}

\* Sessions are named by the process that leads them; the user's has a terminal.
Sessions == {"login", "child"}

\* Types: the descriptors below MaxFd are closed or refer to a file.
TypeOK ==
    /\ pc \in [Procs -> Steps]
    /\ session \in [Procs -> Sessions]
    /\ fds \in [Procs -> [Fd -> Files]]
    /\ status \in [Procs -> {"none", "exit0", "exit1"}]

\* The program may be started with any of its descriptors open or closed.
Init ==
    /\ pc = [p \in Procs |-> IF p = "parent" THEN "fork1" ELSE "unborn"]
    /\ session = [p \in Procs |-> "login"]
    /\ \E t \in [Fd -> {Free, "inherited"}] : fds = [p \in Procs |-> t]
    /\ status = [p \in Procs |-> "none"]

\* p's fork() succeeds: p leaves through exit(0), c starts with a copy of p.
ForkOk(p, c, from, to) ==
    /\ pc[p] = from
    /\ pc' = [pc EXCEPT ![p] = "exited", ![c] = to]
    /\ status' = [status EXCEPT ![p] = "exit0"]
    /\ session' = [session EXCEPT ![c] = session[p]]
    /\ fds' = [fds EXCEPT ![c] = fds[p]]

\* fork() fails: Process_Daemonize returns -1 and main() returns 1.
ForkFails(p, from) ==
    /\ pc[p] = from
    /\ pc' = [pc EXCEPT ![p] = "exited"]
    /\ status' = [status EXCEPT ![p] = "exit1"]
    /\ UNCHANGED <<session, fds>>

Fork1 == ForkOk("parent", "child", "fork1", "setsid") \/ ForkFails("parent", "fork1")

\* Mutant of Fork2: if (pid >= 0) exit(0), so that the daemon leaves as well.
Fork2Both ==
    \/ /\ pc["child"] = "fork2"
       /\ pc' = [pc EXCEPT !["child"] = "exited", !["daemon"] = "exited"]
       /\ status' = [status EXCEPT !["child"] = "exit0", !["daemon"] = "exit0"]
       /\ UNCHANGED <<session, fds>>
    \/ ForkFails("child", "fork2")

Fork2 == ForkOk("child", "daemon", "fork2", "close0") \/ ForkFails("child", "fork2")

Setsid ==
    /\ pc["child"] = "setsid"
    /\ session' = [session EXCEPT !["child"] = "child"]
    /\ pc' = [pc EXCEPT !["child"] = "fork2"]
    /\ UNCHANGED <<fds, status>>

CloseStd(fd, from, to) ==
    /\ pc["daemon"] = from
    /\ fds' = [fds EXCEPT !["daemon"] = Close(@, fd)]
    /\ pc' = [pc EXCEPT !["daemon"] = to]
    /\ UNCHANGED <<session, status>>

OpenNull(file, from, to) ==
    /\ pc["daemon"] = from
    /\ \E fd \in Fd :
          /\ IsLowestFree(fds["daemon"], fd)
          /\ fds' = [fds EXCEPT !["daemon"] = Opened(@, fd, file)]
    /\ pc' = [pc EXCEPT !["daemon"] = to]
    /\ UNCHANGED <<session, status>>

\* Mutant of CloseAll: close(0) is missing.
CloseAllButStdin ==
    \/ CloseStd(1, "close0", "close2")
    \/ CloseStd(2, "close2", "open0")

CloseAll ==
    \/ CloseStd(0, "close0", "close1")
    \/ CloseStd(1, "close1", "close2")
    \/ CloseStd(2, "close2", "open0")

OpenAll ==
    \/ OpenNull("nullR",  "open0", "open1")
    \/ OpenNull("nullRW", "open1", "open2")
    \/ OpenNull("nullRW", "open2", "serving")

Next == Fork1 \/ Setsid \/ Fork2 \/ CloseAll \/ OpenAll

Spec == Init /\ [][Next]_vars

\* Each process goes on.
FairSpec == Spec /\ WF_vars(Next)

-----------------------------------------------------------------------------

Serving == pc["daemon"] = "serving"

\* The daemon that goes on to serve signals has stdin, stdout and stderr on the
\* null device, whatever descriptors the program was started with (the lowest-free
\* rule puts the three open() calls of signalh.cpp:63-69 on 0, 1 and 2 in order).
StdioTied ==
    Serving => /\ fds["daemon"][0] = "nullR"
               /\ fds["daemon"][1] = "nullRW"
               /\ fds["daemon"][2] = "nullRW"

\* The daemon has left the user's session and does not lead its own, so that it can
\* never acquire a controlling terminal: this is what the two forks around setsid()
\* (signalh.cpp:28-47) are for.
Detached == Serving => session["daemon"] \notin {"login", "daemon"}

\* When the user has been told of success, with the exit status 0 of the process that was
\* started, the daemon comes to serve; only the second fork (signalh.cpp:40-43), which
\* nobody waits for, may fail after that, and then the first child says so by its status.
DaemonServes == status["parent"] = "exit0" ~> Serving \/ status["child"] = "exit1"
=============================================================================

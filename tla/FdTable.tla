------------------------------ MODULE FdTable ------------------------------
(***************************************************************************)
(* The descriptor table of a process, as far as the programs of this       *)
(* repository rely on it: open() and pipe() return the lowest free         *)
(* descriptors, dup2() overwrites its target, close() frees.  The kernel   *)
(* is not part of src/; this is the interface its callers assume.          *)
(***************************************************************************)
EXTENDS Integers

CONSTANTS
    MaxFd       \* the highest descriptor the process may hold (RLIMIT_NOFILE - 1)

ASSUME MaxFdAssumption == MaxFd \in Nat

Fd == 0 .. MaxFd

Free == "free"

\* fd is the descriptor the kernel hands out next.
IsLowestFree(t, fd) ==
    /\ t[fd] = Free
    /\ \A g \in Fd : g < fd => t[g] # Free

\* Two descriptors r, w that pipe() may return: the two lowest free ones.
IsPipePair(t, r, w) ==
    /\ r < w
    /\ t[r] = Free /\ t[w] = Free
    /\ \A g \in Fd : g < w /\ g # r => t[g] # Free

\* The table has no room for another pipe: pipe() fails with EMFILE.
NoRoomForPipe(t) == ~ \E r, w \in Fd : IsPipePair(t, r, w)

Close(t, fd)       == [t EXCEPT ![fd] = Free]
Dup2(t, from, to)  == [t EXCEPT ![to] = t[from]]
Opened(t, fd, f)   == [t EXCEPT ![fd] = f]
=============================================================================

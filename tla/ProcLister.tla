----------------------------- MODULE ProcLister -----------------------------
(***************************************************************************)
(* The process iterators of src/ostc/os/aix/getprocs64.cpp and             *)
(* src/ostc/os/hp/procpathname.cpp (with the same loop written out in      *)
(* hp/pstat_test2.c) over a process table that changes between two calls   *)
(* of the kernel.  A call returns the next occupied slots, up to Burst of  *)
(* them, from an index on; AIX's call moves the index itself, HP-UX's      *)
(* caller computes it from the last entry it got.                          *)
(***************************************************************************)
EXTENDS Integers, Sequences, FiniteSets

CONSTANTS
    Pids,           \* the processes that may exist; a pid is not reused during a scan
    KernelProcs,    \* those with SKPROC set
    Self,           \* the lister's own process
    LastSlot,       \* the process table has the slots 0 .. LastSlot
    Burst,          \* entries read per call (10 in the code)
    Platforms       \* the programs considered: "aix", "hp"

NoPid == "none"

ASSUME PidsAssumption == Self \in Pids /\ NoPid \notin Pids /\ KernelProcs \subseteq Pids
ASSUME SizesAssumption == LastSlot \in Nat /\ Burst \in Nat \ {0}
ASSUME PlatformsAssumption == Platforms \subseteq {"aix", "hp"}

Slots == 0 .. LastSlot

VARIABLES
    platform,   \* which of the two programs runs; it never changes
    table,      \* the kernel's process table: table[slot] is a pid or NoPid
    seen,       \* every process that existed since the scan began
    steady,     \* those alive since before the scan
    pc,         \* where the program is
    index,      \* m_procIndex (AIX), m_idx (HP-UX)
    burst,      \* the entries the last call returned: <<slot, pid>>, m_burst of them
    mIndex,     \* m_index: the entries of burst already handed out
    handle,     \* the entry m_handle (AIX), pstp (HP-UX) points to, or << >>
    listed,     \* the processes the loop body has been given so far
    count       \* AIX main's count of those that are not kernel processes

kernelVars == <<platform, table, seen, steady>>
listerVars == <<pc, index, burst, mIndex, handle, listed, count>>
vars == <<kernelVars, listerVars>>

Entry == Slots \X Pids

\* Types; the index into the burst stays within it.
TypeOK ==
    /\ platform \in Platforms
    /\ table \in [Slots -> Pids \cup {NoPid}]
    /\ seen \in SUBSET Pids /\ steady \in SUBSET Pids
    /\ pc \in {"construct", "next", "body", "over", "failed"}
    /\ index \in -1 .. LastSlot + 1
    /\ burst \in Seq(Entry)
    /\ mIndex \in 0 .. Len(burst)
    /\ handle \in Entry \cup {<< >>}
    /\ listed \in SUBSET Pids
    /\ count \in Nat

\* A table holds a process at most once, and the running program.
GoodTable(t) ==
    /\ \A i, j \in Slots : t[i] = t[j] /\ t[i] # NoPid => i = j
    /\ \E i \in Slots : t[i] = Self

InTable(t) == {p \in Pids : \E i \in Slots : t[i] = p}

Init ==
    /\ platform \in Platforms
    /\ table \in [Slots -> Pids \cup {NoPid}] /\ GoodTable(table)
    /\ seen = InTable(table) /\ steady = seen
    /\ pc = "construct"
    /\ index = 0 /\ burst = << >> /\ mIndex = 0 /\ handle = << >>
    /\ listed = {} /\ count = 0

-----------------------------------------------------------------------------
(* The kernel *)

Birth ==
    /\ \E i \in Slots, p \in Pids \ seen :
          /\ table[i] = NoPid
          /\ table' = [table EXCEPT ![i] = p]
          /\ seen' = seen \cup {p}
    /\ UNCHANGED <<platform, steady, listerVars>>

Death ==
    /\ \E i \in Slots :
          /\ table[i] \notin {NoPid, Self}
          /\ table' = [table EXCEPT ![i] = NoPid]
          /\ steady' = steady \ {table[i]}
    /\ UNCHANGED <<platform, seen, listerVars>>

\* b is what one call returns: the entries of the first occupied slots from index on.
IsBurst(b) ==
    /\ Len(b) <= Burst
    /\ \A k \in 1 .. Len(b) : b[k][1] >= index /\ table[b[k][1]] = b[k][2]
    /\ \A j, k \in 1 .. Len(b) : j < k => b[j][1] < b[k][1]
    /\ \A i \in Slots :
          i >= index /\ table[i] # NoPid =>
              \/ \E k \in 1 .. Len(b) : b[k][1] = i
              \/ Len(b) = Burst /\ i > b[Burst][1]

\* Mutants of IndexAfter: one slot too far; not moved.
IndexAfterSkips(b) ==
    IF b # << >> THEN IF b[Len(b)][1] < LastSlot THEN b[Len(b)][1] + 2 ELSE b[Len(b)][1] + 1
    ELSE IF platform = "aix" THEN index ELSE -1

IndexAfterStays(b) == index

\* The index after a call that returned b.
IndexAfter(b) ==
    IF b # << >> THEN b[Len(b)][1] + 1
    ELSE IF platform = "aix" THEN index ELSE -1

-----------------------------------------------------------------------------
(* The lister *)

Bursts == UNION {[1 .. n -> Entry] : n \in 0 .. Burst}

\* readburst()
ReadBurst(b) ==
    /\ IsBurst(b)
    /\ burst' = b
    /\ index' = IndexAfter(b)

\* The constructor reads a first burst and ignores whether there was one.
Construct ==
    /\ pc = "construct"
    /\ \E b \in Bursts : ReadBurst(b)
    /\ pc' = "next"
    /\ UNCHANGED <<mIndex, handle, listed, count, kernelVars>>

\* nextProc() with entries of the burst left to hand out.
NextInBurst ==
    /\ pc = "next" /\ mIndex < Len(burst)
    /\ handle' = burst[mIndex + 1]
    /\ mIndex' = mIndex + 1
    /\ pc' = "body"
    /\ UNCHANGED <<index, burst, listed, count, kernelVars>>

\* Mutant of NextReads: m_index is not incremented past the first entry.
NextReadsStays ==
    /\ pc = "next" /\ mIndex >= Len(burst)
    /\ index # -1
    /\ \E b \in Bursts :
          /\ ReadBurst(b)
          /\ mIndex' = 0
          /\ \/ b = << >> /\ pc' = "over" /\ UNCHANGED handle
             \/ b # << >> /\ pc' = "body" /\ handle' = b[1]
    /\ UNCHANGED <<listed, count, kernelVars>>

\* nextProc() at the end of the burst: an empty one ends the scan.
NextReads ==
    /\ pc = "next" /\ mIndex >= Len(burst)
    /\ index # -1
    /\ \E b \in Bursts :
          /\ ReadBurst(b)
          /\ \/ /\ b = << >>
                /\ pc' = "over" /\ mIndex' = 0
                /\ UNCHANGED handle
             \/ /\ b # << >>
                /\ pc' = "body" /\ mIndex' = 1 /\ handle' = b[1]
    /\ UNCHANGED <<listed, count, kernelVars>>

\* The call returns -1: AIX exits with 1, HP-UX throws.
ReadFails ==
    /\ pc = "construct" \/ (pc = "next" /\ mIndex >= Len(burst))
    /\ pc' = "failed"
    /\ UNCHANGED <<index, burst, mIndex, handle, listed, count, kernelVars>>

\* The loop body of main(): AIX prints and counts a process unless it is the
\* kernel's, HP-UX prints every one.
Body ==
    /\ pc = "body"
    /\ listed' = listed \cup {handle[2]}
    /\ count' = IF platform = "hp" \/ handle[2] \in KernelProcs THEN count ELSE count + 1
    /\ pc' = "next"
    /\ UNCHANGED <<index, burst, mIndex, handle, kernelVars>>

Lister == Construct \/ NextInBurst \/ NextReads \/ ReadFails \/ Body

Next == Lister \/ Birth \/ Death

Spec == Init /\ [][Next]_vars

FairSpec == Spec /\ WF_vars(Lister)

-----------------------------------------------------------------------------

\* At the end every process that lived through the whole scan has been listed, however
\* the table changed between two bursts (a slot below the index is never read again).
Complete == pc = "over" => steady \subseteq listed

\* What is listed existed during the scan, and "Success ... found N processes"
\* (getprocs64.cpp:97) counts each user process once.
CountExact ==
    /\ listed \subseteq seen
    /\ platform = "aix" => count = Cardinality(listed \ KernelProcs)

\* No process is handed out twice, also when the table shifts under the index.
NoDuplicate == pc = "body" => handle[2] \notin listed

\* The scan ends although processes keep being created.
ScanEnds == <>(pc \in {"over", "failed"})

\* The iterator is a scan in the sense of ProcScan.
Scan == INSTANCE ProcScan WITH
    scan <- CASE pc = "over" -> "over" [] pc = "failed" -> "failed" [] OTHER -> "on"

ScanSpec == Scan!Spec
=============================================================================

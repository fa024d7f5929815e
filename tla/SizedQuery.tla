------------------------------ MODULE SizedQuery ------------------------------
(***************************************************************************)
(* The programs that ask the system for a table of network interfaces by   *)
(* two calls: one that says how large the table is, and after a buffer of  *)
(* that size has been allocated one that fills it.                         *)
(*   "long", "short"  src/ostc/os/windows/getadaptersinfo (with and        *)
(*                    without LONG_VERSION)                                *)
(*   "counters"       src/ostc/os/aix/netcounters.cpp                      *)
(*   "perfstat"       src/ostc/os/aix/perfstat_network.cpp                 *)
(*   "kern"           src/ostc/os/aix/bind_test.c, invokeKern()            *)
(* Interfaces come and go between the two calls.  Windows refuses a buffer *)
(* that has become too small; AIX fills what there is.  An adapter with a  *)
(* second address takes more than one entry's room on Windows.             *)
(***************************************************************************)
EXTENDS Integers, FiniteSets

CONSTANTS
    Adapters,       \* the interfaces that may exist
    Loopback,       \* the one AIX always reports
    TwoAddresses,   \* those with a second address
    EntrySize       \* the size of an entry, in the room that a second address takes

Sensible ==
    /\ IsFiniteSet(Adapters) /\ TwoAddresses \subseteq Adapters /\ Loopback \in Adapters
    /\ EntrySize \in Nat \ {0}

VARIABLES
    program,    \* which program runs; it never changes
    present,    \* the interfaces there are
    seen,       \* every interface there was since the program began
    steady,     \* those there all the time
    pc,
    told,       \* the size the program will ask for: bytes, AIX entries; -1 if the call failed
    room,       \* bytes (AIX: entries) allocated
    filled,     \* the interfaces whose entries the second call has written
    cut,        \* the second call has left out interfaces for want of room
    listed,     \* the interfaces printed
    blank       \* entries printed that the call has not written

table == <<program, present, seen, steady>>
vars == <<table, pc, told, room, filled, cut, listed, blank>>

Windows == {"long", "short"}
Perfstat == {"counters", "perfstat"}
Programs == Windows \cup Perfstat \cup {"kern"}

\* Interfaces a program is told of: only libperfstat reports the loopback interface.
Reported(p) == IF p \in Perfstat THEN Adapters ELSE Adapters \ {Loopback}
Fixed(p) == Reported(p) \cap {Loopback}

\* What GetAdaptersInfo() needs to report the set s; the others count entries.
Needed(s) ==
    IF program \in Windows
    THEN EntrySize * Cardinality(s) + Cardinality(s \cap TwoAddresses)
    ELSE Cardinality(s)

TypeOK ==
    /\ program \in Programs
    /\ steady \subseteq present /\ present \subseteq seen /\ seen \subseteq Adapters
    /\ pc \in {"ask", "allocate", "fetch", "print", "listed", "nothing", "exit1", "aborted"}
    /\ told \in Int /\ room \in Nat
    /\ filled \subseteq Adapters /\ listed \subseteq Adapters
    /\ cut \in BOOLEAN /\ blank \in Nat

Init ==
    /\ program \in Programs
    /\ present \in {s \in SUBSET Reported(program) : Fixed(program) \subseteq s}
    /\ seen = present /\ steady = present
    /\ pc = "ask"
    /\ told = 0 /\ room = IF program = "long" THEN EntrySize ELSE 0
    /\ filled = {} /\ cut = FALSE /\ listed = {} /\ blank = 0

-----------------------------------------------------------------------------
(* The system *)

Appear ==
    /\ \E a \in Reported(program) \ seen :
          present' = present \cup {a} /\ seen' = seen \cup {a}
    /\ UNCHANGED <<program, steady, pc, told, room, filled, cut, listed, blank>>

Vanish ==
    /\ \E a \in present \ Fixed(program) :
          present' = present \ {a} /\ steady' = steady \ {a}
    /\ UNCHANGED <<program, seen, pc, told, room, filled, cut, listed, blank>>

-----------------------------------------------------------------------------
(* The program *)

\* The first call answers with the size.  With LONG_VERSION it has a buffer for one
\* entry, and a call that succeeds, or fails in another way, leaves that as it is.
Ask ==
    /\ pc = "ask"
    /\ told' = IF program = "long" /\ Needed(present) <= room THEN room ELSE Needed(present)
    /\ pc' = IF program \in {"short", "kern"} /\ present = {} THEN "exit1" ELSE "allocate"
    /\ UNCHANGED <<table, room, filled, cut, listed, blank>>

\* The first call fails.  netcounters goes on with the -1.
AskFails ==
    /\ pc = "ask"
    /\ told' = IF program = "long" THEN room ELSE -1
    /\ pc' = IF program \in {"long", "counters"} THEN "allocate" ELSE "exit1"
    /\ UNCHANGED <<table, room, filled, cut, listed, blank>>

\* Mutant of Allocate: LONG_VERSION keeps the buffer for one entry.
AllocateNot ==
    /\ pc = "allocate"
    /\ room' = IF program = "long" THEN room ELSE IF told < 0 THEN 0 ELSE told
    /\ pc' = "fetch"
    /\ UNCHANGED <<table, told, filled, cut, listed, blank>>

\* malloc() of what was told; the vector of "short" has as many entries as fit in that,
\* and calloc() of -1 entries gives nothing.
Allocate ==
    /\ pc = "allocate"
    /\ room' = IF program = "short" THEN EntrySize * (told \div EntrySize)
               ELSE IF told < 0 THEN 0 ELSE told
    /\ pc' = "fetch"
    /\ UNCHANGED <<table, told, filled, cut, listed, blank>>

\* LONG_VERSION checks its allocations, of one entry and of what was told; nobody catches
\* what a vector throws.  The others pass the NULL on: netcounters is refused, and
\* invokeKern() too, or is told the size once more and ends as usual.
AllocateFails ==
    /\ pc = "allocate" \/ (pc = "ask" /\ program = "long")
    /\ pc = "allocate" /\ program = "long" => told > room
    /\ pc' \in CASE program = "long"                    -> {"exit1"}
                 [] program \in {"short", "perfstat"}    -> {"aborted"}
                 [] program = "counters"                -> {"nothing"}
                 [] program = "kern"                    -> {"nothing", "exit1"}
    /\ UNCHANGED <<table, told, room, filled, cut, listed, blank>>

\* The second call is told the size again.  Windows fills all or nothing, AIX as many
\* entries as there is room for.
Fetch ==
    /\ pc = "fetch" /\ told >= 0
    /\ program \in Windows => present # {} /\ Needed(present) <= told
    /\ \E s \in SUBSET present :
          /\ Needed(s) <= told
          /\ s # present => program \notin Windows /\ Cardinality(s) = told
          /\ filled' = s
          /\ cut' = (s # present)
    /\ pc' = IF program = "kern" THEN "nothing" ELSE "print"
    /\ UNCHANGED <<table, told, room, listed, blank>>

\* It fails, on Windows also since the table has grown or become empty: the failure is
\* printed and the exit status is 0; the AIX programs exit, netcounters prints no entry.
FetchFails ==
    /\ pc = "fetch"
    /\ pc' = IF program \in {"perfstat", "kern"} THEN "exit1" ELSE "nothing"
    /\ UNCHANGED <<table, told, room, filled, cut, listed, blank>>

PrintEntry ==
    /\ pc = "print"
    /\ \E a \in filled \ listed : listed' = listed \cup {a}
    /\ UNCHANGED <<table, pc, told, room, filled, cut, blank>>

\* Mutant of PrintEnds: the AIX programs print tot entries in the place of ret.
PrintEndsAtTold ==
    /\ pc = "print" /\ listed = filled
    /\ blank' = CASE program = "short"     -> room \div EntrySize - Cardinality(filled)
                  [] program \in Perfstat  -> told - Cardinality(filled)
                  [] OTHER                 -> 0
    /\ pc' = "listed"
    /\ UNCHANGED <<table, told, room, filled, cut, listed>>

\* Mutant of PrintEnds: the loops end one entry early.
PrintEndsEarly ==
    /\ pc = "print" /\ Cardinality(filled \ listed) <= 1
    /\ blank' = 0
    /\ pc' = "listed"
    /\ UNCHANGED <<table, told, room, filled, cut, listed>>

\* The loop of "short" is over its vector, the others' over what the call returned.
PrintEnds ==
    /\ pc = "print" /\ listed = filled
    /\ blank' = IF program = "short" THEN room \div EntrySize - Cardinality(filled) ELSE 0
    /\ pc' = "listed"
    /\ UNCHANGED <<table, told, room, filled, cut, listed>>

Query == Ask \/ AskFails \/ Allocate \/ AllocateFails \/ Fetch \/ FetchFails \/ PrintEntry \/ PrintEnds

Next == Query \/ Appear \/ Vanish

Spec == Init /\ [][Next]_vars

-----------------------------------------------------------------------------

\* The second call never writes beyond what was allocated, whatever appeared since the
\* first (getadaptersinfo.cpp:59, netcounters.cpp:42): the table may have grown, not the
\* room.  The vector of the short version is smaller than the size it passes on when an
\* adapter has a second address, so that there the entries must leave none of it.
RoomIsReal ==
    filled # {} =>
        \/ Needed(filled) <= room
        \/ program = "short" /\ room < told /\ filled \cap TwoAddresses # {}

\* Each entry printed is one that the second call has written.  Only the short version,
\* whose loop is over its vector, prints more, and no more than one for each interface
\* that is not in the answer and one for each whole entry's room of second addresses
\* (getadaptersinfo.cpp:173-176).
EntriesWritten ==
    blank > 0 =>
        /\ program = "short"
        /\ blank <= Cardinality(seen \ filled) + Cardinality(seen \cap TwoAddresses) \div EntrySize

\* A listing that ends and was not cut short is a scan in the sense of ProcScan: nothing
\* that never existed, and each interface that was there all the time.  What failed, and
\* what was cut short, is no listing.
Scan == INSTANCE ProcScan WITH
    Pids <- Adapters,
    scan <- IF pc \notin {"listed", "nothing", "exit1", "aborted"} THEN "on"
            ELSE IF pc = "listed" /\ ~ cut THEN "over" ELSE "failed"

SnapshotListed == Scan!Spec
=============================================================================

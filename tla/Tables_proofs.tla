---------------------------- MODULE Tables_proofs ----------------------------
(***************************************************************************)
(* The process iterators are right for every table size, burst size and    *)
(* set of processes.  The argument: what has been printed or is waiting in *)
(* the burst came from slots below the index, a living process never moves *)
(* and a new one has a new pid; so a process alive since the start is      *)
(* either above the index or already reported, and a process above the     *)
(* index has not been.                                                     *)
(*                                                                         *)
(* And the programs that size and fetch a table in two calls are right for *)
(* every set of interfaces and every size of an entry.  The argument: the  *)
(* room is what was told, or for whole entries less than one below it; and *)
(* the entries that fit in what was told are never more than the           *)
(* interfaces seen, with what their second addresses take.                 *)
(***************************************************************************)
EXTENDS Tables, FiniteSetTheorems, TLAPS

\* Division by the size of an entry.
LEMMA DivLe ==
    ASSUME NEW n \in Nat, NEW e \in Nat \ {0}, NEW c \in Nat, e * c <= n
    PROVE  c <= n \div e
OBVIOUS

LEMMA DivMonotonic ==
    ASSUME NEW n \in Nat, NEW m \in Nat, NEW e \in Nat \ {0}, n <= m
    PROVE  n \div e <= m \div e
OBVIOUS

LEMMA DivSplit ==
    ASSUME NEW c \in Nat, NEW t \in Nat, NEW e \in Nat \ {0}
    PROVE  (e * c + t) \div e = c + t \div e
OBVIOUS

LEMMA DivBack ==
    ASSUME NEW q \in Nat, NEW e \in Nat \ {0}
    PROVE  (e * q) \div e = q
OBVIOUS

LEMMA DivNat == ASSUME NEW n \in Nat, NEW e \in Nat \ {0} PROVE n \div e \in Nat
OBVIOUS

LEMMA Monotonic ==
    ASSUME NEW a \in Nat, NEW b \in Nat, NEW e \in Nat, a <= b
    PROVE  e * a \in Nat /\ e * a <= e * b
OBVIOUS

\* The names that SizedQuery has from FiniteSets mean the same.
LEMMA SameCardinality == \A S : Sized!Cardinality(S) = Cardinality(S)
BY DEF Sized!Cardinality, Cardinality

LEMMA SameFinite == \A S : Sized!IsFiniteSet(S) <=> IsFiniteSet(S)
BY DEF Sized!IsFiniteSet, IsFiniteSet

\* Sets of interfaces are finite, and what a smaller one needs is no more.
LEMMA InterfaceFacts ==
    ASSUME Sized!Sensible, NEW S \in SUBSET Adapters
    PROVE  /\ IsFiniteSet(S) /\ Cardinality(S) \in Nat
           /\ Cardinality(S \cap TwoAddresses) \in Nat
           /\ EntrySize \in Nat \ {0}
           /\ EntrySize * Cardinality(S) \in Nat
           /\ Sized!Needed(S) \in Nat
           /\ \A T \in SUBSET S : Cardinality(T) <= Cardinality(S)
<1>1. IsFiniteSet(Adapters) /\ TwoAddresses \subseteq Adapters /\ EntrySize \in Nat \ {0}
  BY SameFinite DEF Sized!Sensible
<1>2. IsFiniteSet(S) /\ IsFiniteSet(S \cap TwoAddresses)
  BY <1>1, FS_Subset
<1>4. Cardinality(S) \in Nat /\ Cardinality(S \cap TwoAddresses) \in Nat
  BY <1>2, FS_CardinalityType
<1>6. EntrySize * Cardinality(S) \in Nat
  BY <1>1, <1>4
<1>7. Sized!Needed(S) \in Nat
  BY <1>4, <1>6, SameCardinality DEF Sized!Needed
<1>8. \A T \in SUBSET S : Cardinality(T) <= Cardinality(S)
  BY <1>2, FS_Subset
<1>9. QED
  BY <1>1, <1>2, <1>4, <1>6, <1>7, <1>8

\* The whole entries that fit in n.
Entries(n) == n \div EntrySize

\* The whole entries whose room the second addresses of S take.
Extra(S) == Cardinality(S \cap TwoAddresses) \div EntrySize

LEMMA ExtraGrows ==
    ASSUME Sized!Sensible, NEW T \in SUBSET Adapters, NEW S \in SUBSET T
    PROVE  Extra(S) \in Nat /\ Extra(T) \in Nat /\ Extra(S) <= Extra(T)
<1> DEFINE s == Cardinality(S \cap TwoAddresses)
           t == Cardinality(T \cap TwoAddresses)
<1>1. IsFiniteSet(T \cap TwoAddresses)
  BY InterfaceFacts, FS_Subset
<1>2. s \in Nat /\ t \in Nat /\ EntrySize \in Nat \ {0}
  BY InterfaceFacts
<1>3. s <= t
  BY <1>1, FS_Subset
<1> HIDE DEF s, t
<1>4. s \div EntrySize \in Nat /\ t \div EntrySize \in Nat
  BY <1>2, DivNat
<1>5. s \div EntrySize <= t \div EntrySize
  BY <1>2, <1>3, DivMonotonic
<1> QED
  BY <1>4, <1>5 DEF Extra, s, t

\* What was allocated when told was the answer.
Allocated == IF program = "short" THEN EntrySize * Entries(told) ELSE IF told < 0 THEN 0 ELSE told

\* What is still as it was at the start.
FreshInv ==
    /\ ifPc \notin {"print", "listed", "nothing"} => filled = {}
    /\ ifPc \notin {"print", "listed"} => ifListed = {}
    /\ ifPc # "listed" => blank = 0

\* The size the program was told, the room it has made, and what has been written to it.
RoomInv ==
    /\ program = "short" /\ ifPc \notin {"ask", "exit1"} => told >= 0
    /\ ifPc \in {"fetch", "print", "listed"} \/ filled # {} => room = Allocated
    /\ filled # {} => told >= 0 /\ Sized!Needed(filled) <= told

\* In what was told fit no more entries than interfaces have been seen, and their second
\* addresses make.
BlankInv ==
    program = "short" =>
        /\ ifPc \notin {"ask", "exit1"} => Entries(told) <= Cardinality(ifSeen) + Extra(ifSeen)
        /\ ifPc = "print" => Cardinality(filled) <= Entries(told)
        /\ ifPc = "listed" => blank = Entries(told) - Cardinality(filled)

\* The second call's answer is a snapshot, unless it was cut short.
SnapshotInv ==
    /\ filled \subseteq ifSeen /\ ifListed \subseteq filled
    /\ ifPc = "print" /\ ~ cut => ifSteady \subseteq filled
    /\ program # "short" => blank = 0

IfInv == Sized!TypeOK /\ FreshInv /\ RoomInv /\ BlankInv /\ SnapshotInv

-----------------------------------------------------------------------------

LEMMA IfInitInv == ASSUME Sized!Sensible, Sized!Init PROVE IfInv
<1>1. /\ EntrySize \in Nat /\ Sized!Reported(program) \subseteq Adapters
      /\ present \subseteq Adapters
  BY DEF Sized!Sensible, Sized!Reported, Sized!Init
<1>2. Sized!TypeOK
  <2>1. room \in Nat /\ told \in Int /\ blank \in Nat
    BY <1>1 DEF Sized!Init
  <2>2. ifSeen = present /\ ifSteady = present /\ filled = {} /\ ifListed = {} /\ ifPc = "ask"
        /\ cut = FALSE /\ program \in Sized!Programs
    BY DEF Sized!Init
  <2>3. QED
    BY <1>1, <2>1, <2>2 DEF Sized!TypeOK
<1>3. FreshInv /\ RoomInv /\ BlankInv /\ SnapshotInv
  BY DEF Sized!Init, FreshInv, RoomInv, BlankInv, SnapshotInv
<1>4. QED
  BY <1>2, <1>3 DEF IfInv

LEMMA AppearInv == ASSUME Sized!Sensible, IfInv, Sized!Appear PROVE IfInv'
<1>1. PICK a \in Sized!Reported(program) \ ifSeen :
          present' = present \cup {a} /\ ifSeen' = ifSeen \cup {a}
  BY DEF Sized!Appear
<1>2. a \in Adapters /\ a \notin present
  BY <1>1 DEF Sized!Reported, IfInv, Sized!TypeOK
<1>3. UNCHANGED <<program, ifSteady, ifPc, told, room, filled, cut, ifListed, blank>>
  BY DEF Sized!Appear
<1>4. Sized!TypeOK'
  BY <1>1, <1>2, <1>3 DEF IfInv, Sized!TypeOK
<1>5. (FreshInv /\ RoomInv)'
  BY <1>3 DEF IfInv, FreshInv, RoomInv, Allocated, Entries, Sized!Needed
<1>6. ifSeen \subseteq ifSeen' /\ ifSeen' \in SUBSET Adapters /\ told \in Int
  BY <1>1, <1>2 DEF IfInv, Sized!TypeOK
<1>7. Cardinality(ifSeen) + Extra(ifSeen) <= Cardinality(ifSeen') + Extra(ifSeen')
      /\ Cardinality(ifSeen) + Extra(ifSeen) \in Nat /\ Cardinality(ifSeen') + Extra(ifSeen') \in Nat
  <2>1. Extra(ifSeen) \in Nat /\ Extra(ifSeen') \in Nat /\ Extra(ifSeen) <= Extra(ifSeen')
    BY <1>6, ExtraGrows
  <2>2. Cardinality(ifSeen) \in Nat /\ Cardinality(ifSeen') \in Nat
        /\ Cardinality(ifSeen) <= Cardinality(ifSeen')
    BY <1>6, InterfaceFacts
  <2>3. QED
    BY <2>1, <2>2
<1>8. program = "short" /\ ifPc \notin {"ask", "exit1"} =>
          Entries(told) <= Cardinality(ifSeen') + Extra(ifSeen')
  <2> SUFFICES ASSUME program = "short", ifPc \notin {"ask", "exit1"}
               PROVE  Entries(told) <= Cardinality(ifSeen') + Extra(ifSeen')
    OBVIOUS
  <2>1. Entries(told) \in Nat
    <3>1. told \in Nat
      BY <1>6 DEF IfInv, RoomInv
    <3>2. EntrySize \in Nat \ {0}
      BY <1>6, InterfaceFacts
    <3>3. QED
      BY <3>1, <3>2, DivNat DEF Entries
  <2>2. Entries(told) <= Cardinality(ifSeen) + Extra(ifSeen)
    BY DEF IfInv, BlankInv
  <2>3. QED
    BY <1>7, <2>1, <2>2
<1>10. BlankInv'
  BY <1>3, <1>8 DEF IfInv, BlankInv, Entries, Extra
<1>11. SnapshotInv'
  BY <1>3, <1>6 DEF IfInv, SnapshotInv
<1>12. QED
  BY <1>4, <1>5, <1>10, <1>11 DEF IfInv

LEMMA VanishInv == ASSUME Sized!Sensible, IfInv, Sized!Vanish PROVE IfInv'
<1>1. PICK a \in present \ Sized!Fixed(program) :
          present' = present \ {a} /\ ifSteady' = ifSteady \ {a}
  BY DEF Sized!Vanish
<1>2. UNCHANGED <<program, ifSeen, ifPc, told, room, filled, cut, ifListed, blank>>
  BY DEF Sized!Vanish
<1>3. Sized!TypeOK'
  BY <1>1, <1>2 DEF IfInv, Sized!TypeOK
<1>4. (FreshInv /\ RoomInv)'
  BY <1>2 DEF IfInv, FreshInv, RoomInv, Allocated, Entries, Sized!Needed
<1>6. BlankInv'
  BY <1>2 DEF IfInv, BlankInv, Entries, Extra
<1>7. SnapshotInv'
  BY <1>1, <1>2 DEF IfInv, SnapshotInv
<1>8. QED
  BY <1>3, <1>4, <1>6, <1>7 DEF IfInv

LEMMA AskInv == ASSUME Sized!Sensible, IfInv, Sized!Ask \/ Sized!AskFails PROVE IfInv'
<1>1. UNCHANGED <<Sized!table, room, filled, cut, ifListed, blank>> /\ ifPc = "ask"
  BY DEF Sized!Ask, Sized!AskFails
<1>2. filled = {} /\ ifListed = {} /\ blank = 0
  BY <1>1 DEF IfInv, FreshInv
<1>3. /\ Sized!Needed(present) \in Nat /\ present \in SUBSET Adapters
      /\ ifSeen \in SUBSET Adapters
      /\ room \in Nat /\ program \in Sized!Programs
  <2>1. /\ present \in SUBSET Adapters /\ ifSeen \in SUBSET Adapters /\ room \in Nat
        /\ program \in Sized!Programs
    BY DEF IfInv, Sized!TypeOK
  <2>2. QED
    BY <2>1, InterfaceFacts
<1>4. ifPc' \in {"allocate", "exit1"} /\ told' \in Int
  BY <1>3 DEF Sized!Ask, Sized!AskFails
<1>5. program = "short" /\ ifPc' = "allocate" => told' = Sized!Needed(present)
  BY DEF Sized!Ask, Sized!AskFails
<1>6. Sized!TypeOK'
  BY <1>1, <1>4 DEF IfInv, Sized!TypeOK, Sized!table
<1>7. FreshInv' /\ SnapshotInv'
  BY <1>1, <1>2, <1>4 DEF IfInv, FreshInv, SnapshotInv, Sized!table
<1>8. RoomInv'
  BY <1>1, <1>2, <1>3, <1>4, <1>5 DEF RoomInv, Sized!table
<1>9. program = "short" => Entries(Sized!Needed(present)) <= Cardinality(ifSeen) + Extra(ifSeen)
  <2> SUFFICES ASSUME program = "short"
               PROVE  Entries(Sized!Needed(present)) <= Cardinality(ifSeen) + Extra(ifSeen)
    OBVIOUS
  <2> DEFINE t == Cardinality(present \cap TwoAddresses)
             c == Cardinality(present)
             n == Cardinality(ifSeen)
             E == EntrySize
  <2>1. t \in Nat /\ c \in Nat /\ E \in Nat \ {0}
    BY <1>3, InterfaceFacts
  <2>2. present \in SUBSET ifSeen
    BY DEF IfInv, Sized!TypeOK
  <2>3. n \in Nat /\ c <= n
    BY <1>3, <2>2, InterfaceFacts
  <2>4. Extra(present) \in Nat /\ Extra(ifSeen) \in Nat /\ Extra(present) <= Extra(ifSeen)
    BY <1>3, <2>2, ExtraGrows
  <2>5. Sized!Needed(present) = E * c + t
    BY SameCardinality DEF Sized!Needed, Sized!Windows
  <2> HIDE DEF t, c, n, E
  <2>6. Entries(Sized!Needed(present)) = c + t \div E
    <3>1. (E * c + t) \div E = c + t \div E
      BY <2>1, DivSplit
    <3>2. Entries(Sized!Needed(present)) = Sized!Needed(present) \div E
      BY DEF Entries, E
    <3>3. QED
      BY <2>5, <3>1, <3>2
  <2>7. t \div E = Extra(present)
    BY DEF Extra, t, E
  <2>8. Entries(Sized!Needed(present)) <= n + Extra(ifSeen)
    BY <2>1, <2>3, <2>4, <2>6, <2>7
  <2>9. QED
    BY <2>8 DEF n
<1>10. BlankInv'
  BY <1>1, <1>4, <1>5, <1>9 DEF BlankInv, Entries, Extra, Sized!table
<1>11. QED
  BY <1>6, <1>7, <1>8, <1>10 DEF IfInv

LEMMA AllocateInv ==
    ASSUME Sized!Sensible, IfInv, Sized!Allocate \/ Sized!AllocateFails
    PROVE  IfInv'
<1>1. /\ UNCHANGED <<Sized!table, told, filled, cut, ifListed, blank>>
      /\ ifPc \in {"ask", "allocate"} /\ ifPc' \in {"fetch", "exit1", "aborted", "nothing"}
      /\ ifPc' = "fetch" => ifPc = "allocate" /\ room' = Allocated
      /\ ifPc' # "fetch" => room' = room
      /\ ifPc = "ask" => program # "short"
  <2>1. program \in Sized!Programs
    BY DEF IfInv, Sized!TypeOK
  <2>2. QED
    BY <2>1 DEF Sized!Allocate, Sized!AllocateFails, Allocated, Entries, Sized!Programs,
                Sized!Windows, Sized!Perfstat
<1>2. room \in Nat /\ told \in Int /\ EntrySize \in Nat \ {0}
  BY InterfaceFacts DEF IfInv, Sized!TypeOK
<1>3. ifPc' = "fetch" => Allocated \in Nat
  <2>1. CASE program = "short" /\ ifPc = "allocate"
    <3>1. told \in Nat
      BY <1>2, <2>1 DEF IfInv, RoomInv
    <3>2. Entries(told) \in Nat
      BY <1>2, <3>1, DivNat DEF Entries
    <3>3. QED
      BY <1>2, <2>1, <3>2, Monotonic DEF Allocated
  <2>2. CASE program # "short"
    BY <1>2, <2>2 DEF Allocated
  <2>3. QED
    BY <1>1, <2>1, <2>2
<1>4. Sized!TypeOK'
  BY <1>1, <1>2, <1>3 DEF IfInv, Sized!TypeOK, Sized!table
<1>5. filled = {} /\ ifListed = {} /\ blank = 0
  BY <1>1 DEF IfInv, FreshInv
<1>6. FreshInv' /\ SnapshotInv'
  BY <1>1, <1>5 DEF IfInv, FreshInv, SnapshotInv, Sized!table
<1>7. RoomInv'
  BY <1>1, <1>5 DEF IfInv, RoomInv, Allocated, Entries, Sized!table
<1>8. BlankInv'
  BY <1>1 DEF IfInv, BlankInv, Entries, Extra, Sized!table
<1>9. QED
  BY <1>4, <1>6, <1>7, <1>8 DEF IfInv

LEMMA FetchInv == ASSUME Sized!Sensible, IfInv, Sized!Fetch PROVE IfInv'
<1>1. PICK s \in SUBSET present :
          /\ Sized!Needed(s) <= told
          /\ s # present => program \notin Sized!Windows /\ Cardinality(s) = told
          /\ filled' = s /\ cut' = (s # present)
  BY SameCardinality DEF Sized!Fetch
<1>2. /\ UNCHANGED <<Sized!table, told, room, ifListed, blank>> /\ ifPc = "fetch" /\ told >= 0
      /\ ifPc' \in {"print", "nothing"}
  BY DEF Sized!Fetch
<1>3. ifListed = {} /\ blank = 0
  BY <1>2 DEF IfInv, FreshInv
<1>4. present \in SUBSET Adapters /\ ifSeen \in SUBSET Adapters /\ ifSteady \subseteq present
      /\ present \subseteq ifSeen /\ told \in Int
  BY DEF IfInv, Sized!TypeOK
<1>5. Sized!TypeOK'
  BY <1>1, <1>2, <1>4 DEF IfInv, Sized!TypeOK, Sized!table
<1>6. FreshInv'
  BY <1>2, <1>3 DEF FreshInv
<1>7. RoomInv'
  BY <1>1, <1>2 DEF IfInv, RoomInv, Allocated, Entries, Sized!Needed, Sized!table
<1>8. SnapshotInv'
  BY <1>1, <1>2, <1>3, <1>4 DEF SnapshotInv, Sized!table
<1>9. BlankInv'
  <2> SUFFICES ASSUME program = "short" PROVE BlankInv'
    BY <1>2 DEF BlankInv, Sized!table
  <2> DEFINE c == Cardinality(present)
             t == Cardinality(present \cap TwoAddresses)
  <2>1. s = present
    BY <1>1 DEF Sized!Windows
  <2>2. told \in Nat /\ EntrySize \in Nat \ {0} /\ c \in Nat /\ t \in Nat /\ EntrySize * c \in Nat
    <3>1. told \in Nat
      BY <1>2, <1>4
    <3>2. QED
      BY <1>4, <3>1, InterfaceFacts
  <2>3. EntrySize * c + t <= told
    BY <1>1, <2>1, SameCardinality DEF Sized!Needed, Sized!Windows
  <2> HIDE DEF c, t
  <2>4. EntrySize * c <= told
    BY <2>2, <2>3
  <2>5. c <= Entries(told)
    BY <2>2, <2>4, DivLe DEF Entries
  <2>6. filled' = present /\ UNCHANGED <<program, present, ifSeen, told, blank>>
    BY <1>1, <1>2, <2>1 DEF Sized!table
  <2>7. Entries(told) <= Cardinality(ifSeen) + Extra(ifSeen)
    BY <1>2 DEF IfInv, BlankInv
  <2>8. QED
    BY <1>2, <2>5, <2>6, <2>7 DEF BlankInv, Entries, Extra, c
<1>10. QED
  BY <1>5, <1>6, <1>7, <1>8, <1>9 DEF IfInv

LEMMA FetchFailsInv == ASSUME IfInv, Sized!FetchFails PROVE IfInv'
<1>1. /\ ifPc = "fetch" /\ ifPc' \in {"nothing", "exit1"}
      /\ UNCHANGED <<Sized!table, told, room, filled, cut, ifListed, blank>>
  BY DEF Sized!FetchFails
<1>2. Sized!TypeOK' /\ FreshInv' /\ RoomInv' /\ SnapshotInv'
  BY <1>1 DEF IfInv, Sized!TypeOK, FreshInv, RoomInv, SnapshotInv, Allocated, Entries,
              Sized!Needed, Sized!table
<1>3. BlankInv'
  BY <1>1 DEF IfInv, BlankInv, Entries, Extra, Sized!table
<1>4. QED
  BY <1>2, <1>3 DEF IfInv

LEMMA PrintEntryInv == ASSUME IfInv, Sized!PrintEntry PROVE IfInv'
<1>1. PICK a \in filled \ ifListed : ifListed' = ifListed \cup {a}
  BY DEF Sized!PrintEntry
<1>2. ifPc = "print" /\ UNCHANGED <<Sized!table, ifPc, told, room, filled, cut, blank>>
  BY DEF Sized!PrintEntry
<1>3. Sized!TypeOK' /\ FreshInv' /\ RoomInv' /\ SnapshotInv'
  BY <1>1, <1>2 DEF IfInv, Sized!TypeOK, FreshInv, RoomInv, SnapshotInv, Allocated, Entries,
                    Sized!Needed, Sized!table
<1>4. BlankInv'
  BY <1>2 DEF IfInv, BlankInv, Entries, Extra, Sized!table
<1>5. QED
  BY <1>3, <1>4 DEF IfInv

LEMMA PrintEndsInv == ASSUME Sized!Sensible, IfInv, Sized!PrintEnds PROVE IfInv'
<1>1. /\ ifPc = "print" /\ ifListed = filled /\ ifPc' = "listed"
      /\ UNCHANGED <<Sized!table, told, room, filled, cut, ifListed>>
      /\ blank' = IF program = "short" THEN room \div EntrySize - Cardinality(filled) ELSE 0
  BY SameCardinality DEF Sized!PrintEnds
<1>2. ASSUME program = "short"
      PROVE  blank' = Entries(told) - Cardinality(filled) /\ blank' \in Nat
  <2>1. told \in Nat /\ filled \in SUBSET Adapters
    BY <1>1, <1>2 DEF IfInv, Sized!TypeOK, RoomInv
  <2>2. EntrySize \in Nat \ {0} /\ Cardinality(filled) \in Nat
    BY <2>1, InterfaceFacts
  <2>3. Entries(told) \in Nat
    BY <2>1, <2>2, DivNat DEF Entries
  <2>4. room = EntrySize * Entries(told)
    BY <1>1, <1>2 DEF IfInv, RoomInv, Allocated
  <2>5. room \div EntrySize = Entries(told)
    BY <2>2, <2>3, <2>4, DivBack
  <2>6. Cardinality(filled) <= Entries(told)
    BY <1>1, <1>2 DEF IfInv, BlankInv
  <2>7. QED
    BY <1>1, <1>2, <2>2, <2>3, <2>5, <2>6
<1>3. blank' \in Nat /\ (program # "short" => blank' = 0)
  BY <1>1, <1>2
<1>4. Sized!TypeOK' /\ FreshInv'
  BY <1>1, <1>3 DEF IfInv, Sized!TypeOK, FreshInv, Sized!table
<1>5. RoomInv' /\ SnapshotInv'
  BY <1>1, <1>3 DEF IfInv, RoomInv, SnapshotInv, Allocated, Entries, Sized!Needed, Sized!table
<1>6. BlankInv'
  BY <1>1, <1>2 DEF IfInv, BlankInv, Entries, Extra, Sized!table
<1>7. QED
  BY <1>4, <1>5, <1>6 DEF IfInv

LEMMA IfStepInv == ASSUME Sized!Sensible, IfInv, [Sized!Next]_(Sized!vars) PROVE IfInv'
<1>1. CASE UNCHANGED Sized!vars
  BY <1>1 DEF Sized!vars, Sized!table, IfInv, Sized!TypeOK, FreshInv, RoomInv, BlankInv,
              SnapshotInv, Allocated, Entries, Extra, Sized!Needed
<1>2. QED
  BY <1>1, AppearInv, VanishInv, AskInv, AllocateInv, FetchInv, FetchFailsInv, PrintEntryInv,
     PrintEndsInv DEF Sized!Next, Sized!Query

-----------------------------------------------------------------------------

LEMMA RoomFollows == ASSUME Sized!Sensible, IfInv PROVE Sized!RoomIsReal
<1> SUFFICES ASSUME filled # {}
             PROVE  \/ Sized!Needed(filled) <= room
                    \/ program = "short" /\ room < told /\ filled \cap TwoAddresses # {}
  BY DEF Sized!RoomIsReal
<1>1. /\ told \in Nat /\ Sized!Needed(filled) <= told /\ room = Allocated
      /\ filled \in SUBSET Adapters
  BY DEF IfInv, Sized!TypeOK, FreshInv, RoomInv
<1>2. Sized!Needed(filled) \in Nat /\ room \in Nat
  BY <1>1, InterfaceFacts DEF IfInv, Sized!TypeOK
<1>3. CASE program # "short"
  BY <1>1, <1>3 DEF Allocated
<1>4. CASE program = "short" /\ room >= told
  BY <1>1, <1>2, <1>4
<1>5. CASE program = "short" /\ filled \cap TwoAddresses = {}
  <2>1. EntrySize \in Nat \ {0} /\ Cardinality(filled) \in Nat /\ Entries(told) \in Nat
    BY <1>1, InterfaceFacts, DivNat DEF Entries
  <2>2. Sized!Needed(filled) = EntrySize * Cardinality(filled)
    <3>1. Cardinality(filled \cap TwoAddresses) = 0
      BY <1>5, FS_EmptySet
    <3>2. EntrySize * Cardinality(filled) \in Nat
      BY <2>1
    <3>3. QED
      BY <1>5, <3>1, <3>2, SameCardinality DEF Sized!Needed, Sized!Windows
  <2>3. Cardinality(filled) <= Entries(told)
    BY <1>1, <2>1, <2>2, DivLe DEF Entries
  <2>4. EntrySize * Cardinality(filled) <= EntrySize * Entries(told)
    BY <2>1, <2>3, Monotonic
  <2>5. QED
    BY <1>1, <1>5, <2>2, <2>4 DEF Allocated
<1>6. QED
  BY <1>1, <1>2, <1>3, <1>4, <1>5

LEMMA EntriesFollow == ASSUME Sized!Sensible, IfInv PROVE Sized!EntriesWritten
<1> SUFFICES ASSUME blank > 0
             PROVE  /\ program = "short"
                    /\ blank <= Cardinality(ifSeen \ filled) + Extra(ifSeen)
  BY SameCardinality DEF Sized!EntriesWritten, Extra
<1>1. program = "short" /\ ifPc = "listed"
  BY DEF IfInv, SnapshotInv, FreshInv
<1>2. told \in Nat /\ filled \in SUBSET ifSeen /\ ifSeen \in SUBSET Adapters
  BY <1>1 DEF IfInv, Sized!TypeOK, RoomInv, SnapshotInv
<1>3. EntrySize \in Nat \ {0} /\ Cardinality(filled) \in Nat /\ Cardinality(ifSeen) \in Nat
  BY <1>2, InterfaceFacts
<1>4. Entries(told) \in Nat /\ Extra(ifSeen) \in Nat
  BY <1>2, <1>3, DivNat, ExtraGrows DEF Entries
<1>5. Cardinality(ifSeen \ filled) = Cardinality(ifSeen) - Cardinality(filled)
  <2>1. IsFiniteSet(ifSeen) /\ IsFiniteSet(filled) /\ ifSeen \cap filled = filled
    BY <1>2, InterfaceFacts
  <2>2. QED
    BY <2>1, FS_Difference
<1>6. blank = Entries(told) - Cardinality(filled)
      /\ Entries(told) <= Cardinality(ifSeen) + Extra(ifSeen)
  BY <1>1 DEF IfInv, BlankInv
<1>7. QED
  BY <1>1, <1>3, <1>4, <1>5, <1>6

LEMMA ScanInit == ASSUME Sized!Sensible, Sized!Init PROVE Sized!Scan!Init
<1>1. present \in SUBSET Adapters
  BY DEF Sized!Init, Sized!Reported
<1>2. QED
  BY <1>1 DEF Sized!Init, Sized!Scan!Init

LEMMA ScanStep ==
    ASSUME Sized!Sensible, IfInv, [Sized!Next]_(Sized!vars)
    PROVE  [Sized!Scan!Next]_(Sized!Scan!vars)
<1> USE DEF Sized!Scan!Next, Sized!Scan!vars
<1>1. CASE Sized!Appear
  <2>1. PICK a \in Sized!Reported(program) \ ifSeen : ifSeen' = ifSeen \cup {a}
    BY <1>1 DEF Sized!Appear
  <2>2. {a} \in SUBSET (Adapters \ ifSeen)
    BY <2>1 DEF Sized!Reported
  <2>3. Sized!Scan!Churn
    BY <1>1, <2>1, <2>2 DEF Sized!Appear, Sized!Scan!Churn
  <2>4. QED
    BY <2>3
<1>2. CASE Sized!Vanish
  <2>1. ifSeen' = ifSeen \cup {} /\ ifSteady' \in SUBSET ifSteady
    BY <1>2 DEF Sized!Vanish
  <2>2. Sized!Scan!Churn
    BY <1>2, <2>1 DEF Sized!Vanish, Sized!Scan!Churn
  <2>3. QED
    BY <2>2
<1>3. CASE Sized!Ask \/ Sized!AskFails \/ Sized!Allocate \/ Sized!AllocateFails
  <2>1. /\ ifPc \in {"ask", "allocate"}
        /\ ifPc' \in {"allocate", "fetch", "exit1", "nothing", "aborted"}
        /\ UNCHANGED <<ifSeen, ifSteady, ifListed, cut>>
    <3>1. CASE Sized!Ask \/ Sized!AskFails \/ Sized!Allocate
      BY <3>1 DEF Sized!Ask, Sized!AskFails, Sized!Allocate, Sized!table
    <3>2. CASE Sized!AllocateFails
      <4>1. program \in Sized!Programs
        BY DEF IfInv, Sized!TypeOK
      <4>2. QED
        BY <3>2, <4>1 DEF Sized!AllocateFails, Sized!Programs, Sized!Windows, Sized!Perfstat,
                          Sized!table
    <3>3. QED
      BY <1>3, <3>1, <3>2
  <2>2. QED
    BY <2>1 DEF Sized!Scan!Fail
<1>4. CASE Sized!Fetch \/ Sized!FetchFails
  BY <1>4 DEF Sized!Fetch, Sized!FetchFails, Sized!Scan!Fail, Sized!table
<1>5. CASE Sized!PrintEntry
  <2>1. PICK a \in filled \ ifListed : ifListed' = ifListed \cup {a}
    BY <1>5 DEF Sized!PrintEntry
  <2>2. a \in ifSeen \ ifListed
    BY <2>1 DEF IfInv, SnapshotInv
  <2>3. Sized!Scan!Report
    BY <1>5, <2>1, <2>2 DEF Sized!PrintEntry, Sized!Scan!Report, Sized!table
  <2>4. QED
    BY <2>3
<1>6. CASE Sized!PrintEnds
  <2>1. ~ cut => ifSteady \subseteq ifListed
    BY <1>6 DEF Sized!PrintEnds, IfInv, SnapshotInv
  <2>2. cut \in BOOLEAN
    BY DEF IfInv, Sized!TypeOK
  <2>3. Sized!Scan!Finish \/ Sized!Scan!Fail
    BY <1>6, <2>1, <2>2 DEF Sized!PrintEnds, Sized!Scan!Finish, Sized!Scan!Fail, Sized!table
  <2>4. QED
    BY <2>3
<1>7. CASE UNCHANGED Sized!vars
  BY <1>7 DEF Sized!vars, Sized!table
<1>8. QED
  BY <1>1, <1>2, <1>3, <1>4, <1>5, <1>6, <1>7 DEF Sized!Next, Sized!Query

\* The programs that size and fetch a table are type correct and never have more written
\* than they made room for, whatever appears between the two calls.
THEOREM RoomSuffices == Sized!Spec => []RoomIsReal
<1>1. IfInv /\ [Sized!Next]_(Sized!vars) => IfInv'
  BY IfStepInv, InterfacesAssumption
<1>2. Sized!Init => IfInv
  BY IfInitInv, InterfacesAssumption
<1>3. IfInv => RoomIsReal
  BY RoomFollows, InterfacesAssumption DEF RoomIsReal, IfInv
<1>4. QED
  BY <1>1, <1>2, <1>3, PTL DEF Sized!Spec

\* Each entry printed has been written, for every set of interfaces and every size of an
\* entry, except in the short Windows version: one for each interface that is not in the
\* answer, and one for each whole entry's room of second addresses.
THEOREM NothingBlank == Sized!Spec => []EntriesWritten
<1>1. IfInv /\ [Sized!Next]_(Sized!vars) => IfInv'
  BY IfStepInv, InterfacesAssumption
<1>2. Sized!Init => IfInv
  BY IfInitInv, InterfacesAssumption
<1>3. IfInv => EntriesWritten
  BY EntriesFollow, InterfacesAssumption DEF EntriesWritten
<1>4. QED
  BY <1>1, <1>2, <1>3, PTL DEF Sized!Spec

\* The five programs implement the abstract scan: a listing that ends and was not cut
\* short has each interface that was there all the time.
THEOREM ImplementsSnapshot == Sized!Spec => SnapshotListed
<1>1. IfInv /\ [Sized!Next]_(Sized!vars) => IfInv'
  BY IfStepInv, InterfacesAssumption
<1>2. Sized!Init => IfInv /\ Sized!Scan!Init
  BY IfInitInv, ScanInit, InterfacesAssumption
<1>3. IfInv /\ [Sized!Next]_(Sized!vars) => [Sized!Scan!Next]_(Sized!Scan!vars)
  BY ScanStep, InterfacesAssumption
<1>4. QED
  BY <1>1, <1>2, <1>3, PTL DEF Sized!Spec, SnapshotListed, Sized!SnapshotListed, Sized!Scan!Spec

-----------------------------------------------------------------------------

\* The entries of the last burst that have not been printed yet.
Waiting == {k \in 1 .. Len(burst) : k > mIndex \/ (pc = "body" /\ k = mIndex)}

\* The table as the kernel keeps it, and what the scan knows of it.
TableInv ==
    /\ GoodTable(table)
    /\ InTable(table) \subseteq seen
    /\ steady \subseteq InTable(table)
    /\ listed \subseteq seen
    /\ \A k \in 1 .. Len(burst) : burst[k][2] \in seen

\* Where the program is between two bursts.
ControlInv ==
    /\ pc = "construct" => index = 0 /\ burst = << >> /\ mIndex = 0 /\ listed = {}
    /\ pc = "body" => mIndex >= 1 /\ handle = burst[mIndex]

\* A process that has lived through the scan so far is above the index, or reported.
BelowReported ==
    pc # "over" =>
        \A i \in Slots :
            i < index /\ table[i] \in steady =>
                \/ table[i] \in listed
                \/ \E k \in Waiting : burst[k][2] = table[i]

\* No process above the index has been reported or is about to be.
AboveUnreported ==
    \A i \in Slots :
        index >= 0 /\ i >= index /\ table[i] # NoPid =>
            /\ table[i] \notin listed
            /\ \A k \in 1 .. Len(burst) : burst[k][2] # table[i]

\* The entries that wait are different processes, none of them printed.
WaitingNew ==
    /\ \A j, k \in 1 .. Len(burst) : burst[j][2] = burst[k][2] => j = k
    /\ \A k \in Waiting : burst[k][2] \notin listed

IInv ==
    /\ TypeOK
    /\ TableInv
    /\ ControlInv
    /\ BelowReported
    /\ AboveUnreported
    /\ WaitingNew
    /\ Complete

-----------------------------------------------------------------------------

USE PidsAssumption, SizesAssumption, PlatformsAssumption DEF Slots, Entry

\* Every list the kernel can return is a sequence of entries.
LEMMA BurstsAreSequences == ASSUME NEW b \in Bursts PROVE b \in Seq(Entry) /\ Len(b) \in Nat
<1>1. PICK n \in 0 .. Burst : b \in [1 .. n -> Entry]
  BY DEF Bursts
<1>2. QED
  BY <1>1

\* The next index is inside the table or just behind it, or the end mark of HP-UX.
LEMMA IndexAfterType ==
    ASSUME NEW b \in Bursts, index \in -1 .. LastSlot + 1
    PROVE  IndexAfter(b) \in -1 .. LastSlot + 1
<1>1. b \in Seq(Entry)
  BY BurstsAreSequences
<1>2. CASE b = << >>
  BY <1>2 DEF IndexAfter
<1>3. CASE b # << >>
  <2>1. Len(b) \in Nat /\ Len(b) >= 1 /\ b[Len(b)] \in Entry
    BY <1>1, <1>3
  <2>2. b[Len(b)][1] \in 0 .. LastSlot
    BY <2>1
  <2>3. QED
    BY <2>2, <1>3 DEF IndexAfter
<1>4. QED
  BY <1>2, <1>3

\* The initial states satisfy the invariant.
LEMMA InitInv == Init => IInv
<1> SUFFICES ASSUME Init PROVE IInv
  OBVIOUS
<1> USE DEF Init
<1>1. TypeOK
  BY DEF TypeOK, InTable
<1>2. TableInv
  BY DEF TableInv, InTable
<1>3. ControlInv /\ BelowReported /\ AboveUnreported /\ WaitingNew /\ Complete
  BY DEF ControlInv, BelowReported, AboveUnreported, WaitingNew, Waiting, Complete
<1>4. QED
  BY <1>1, <1>2, <1>3 DEF IInv

\* A birth fills a free slot with a pid nobody has seen.
LEMMA BirthInv == IInv /\ Birth => IInv'
<1> SUFFICES ASSUME IInv, Birth PROVE IInv'
  OBVIOUS
<1> USE DEF IInv
<1>1. PICK s \in Slots, p \in Pids \ seen :
          /\ table[s] = NoPid
          /\ table' = [table EXCEPT ![s] = p]
          /\ seen' = seen \cup {p}
  BY DEF Birth
<1>2. /\ UNCHANGED <<platform, steady, listerVars>>
      /\ UNCHANGED <<platform, pc, index, burst, mIndex, handle, listed, count>>
  BY DEF Birth, listerVars
<1>3. /\ table' \in [Slots -> Pids \cup {NoPid}] /\ table'[s] = p /\ table[s] = NoPid
      /\ \A i \in Slots : i # s => table'[i] = table[i]
  BY <1>1 DEF TypeOK
<1>4. TypeOK'
  BY <1>1, <1>2, <1>3 DEF TypeOK
<1>5. \A i \in Slots : table[i] # p
  BY <1>1 DEF TableInv, InTable
<1>6. TableInv'
  <2>1. GoodTable(table)'
    BY <1>3, <1>5 DEF TableInv, GoodTable
  <2>2. InTable(table)' \subseteq seen'
    BY <1>1, <1>3 DEF TableInv, InTable
  <2>3. steady' \subseteq InTable(table)'
    BY <1>1, <1>2, <1>3 DEF TableInv, InTable
  <2>4. QED
    BY <2>1, <2>2, <2>3, <1>1, <1>2 DEF TableInv
<1>7. ControlInv'
  BY <1>2 DEF ControlInv
<1>8. Waiting' = Waiting
  BY <1>2 DEF Waiting
<1>9. BelowReported'
  <2>1. p \notin steady
    BY <1>1 DEF TableInv
  <2>2. QED
    BY <1>2, <1>3, <1>8, <2>1 DEF BelowReported
<1>10. AboveUnreported'
  <2>1. p \notin listed /\ \A k \in 1 .. Len(burst) : burst[k][2] # p
    BY <1>1 DEF TableInv
  <2>2. QED
    BY <1>2, <1>3, <2>1 DEF AboveUnreported
<1>11. WaitingNew' /\ Complete'
  BY <1>2, <1>8 DEF WaitingNew, Complete
<1>12. QED
  BY <1>4, <1>6, <1>7, <1>9, <1>10, <1>11

\* A death empties a slot; the process is no longer steady.
LEMMA DeathInv == IInv /\ Death => IInv'
<1> SUFFICES ASSUME IInv, Death PROVE IInv'
  OBVIOUS
<1> USE DEF IInv
<1>1. PICK s \in Slots :
          /\ table[s] \notin {NoPid, Self}
          /\ table' = [table EXCEPT ![s] = NoPid]
          /\ steady' = steady \ {table[s]}
  BY DEF Death
<1>2. UNCHANGED <<platform, seen, pc, index, burst, mIndex, handle, listed, count>>
  BY DEF Death, listerVars
<1>3. /\ table' \in [Slots -> Pids \cup {NoPid}] /\ table'[s] = NoPid
      /\ \A i \in Slots : i # s => table'[i] = table[i]
  BY <1>1 DEF TypeOK
<1>4. TypeOK'
  BY <1>1, <1>2, <1>3 DEF TypeOK
<1>5. TableInv'
  <2>1. GoodTable(table)'
    BY <1>1, <1>3 DEF TableInv, GoodTable
  <2>2. InTable(table)' \subseteq seen'
    BY <1>2, <1>3 DEF TableInv, InTable
  <2>3. steady' \subseteq InTable(table)'
    BY <1>1, <1>3 DEF TableInv, InTable
  <2>4. QED
    BY <2>1, <2>2, <2>3, <1>2 DEF TableInv
<1>6. Waiting' = Waiting
  BY <1>2 DEF Waiting
<1>7. ControlInv' /\ WaitingNew' /\ Complete'
  BY <1>1, <1>2, <1>6 DEF ControlInv, WaitingNew, Complete
<1>8. BelowReported'
  <2>1. NoPid \notin steady'
    BY <1>4 DEF TypeOK
  <2>2. QED
    BY <1>1, <1>2, <1>3, <1>6, <2>1 DEF BelowReported
<1>9. AboveUnreported'
  BY <1>2, <1>3 DEF AboveUnreported
<1>10. QED
  BY <1>4, <1>5, <1>7, <1>8, <1>9

-----------------------------------------------------------------------------

\* What one kernel call returns when nothing waits in the burst: together with the index
\* after it, it keeps the two halves of the table apart.
LEMMA ReadFacts ==
    ASSUME IInv, Waiting = {}, pc # "over", index >= 0, NEW b \in Bursts, IsBurst(b)
    PROVE  /\ \A i \in Slots : i < IndexAfter(b) /\ table[i] \in steady =>
                  table[i] \in listed \/ \E k \in 1 .. Len(b) : b[k][2] = table[i]
           /\ \A i \in Slots : IndexAfter(b) >= 0 /\ i >= IndexAfter(b) /\ table[i] # NoPid =>
                  /\ table[i] \notin listed
                  /\ \A k \in 1 .. Len(b) : b[k][2] # table[i]
           /\ \A j, k \in 1 .. Len(b) : b[j][2] = b[k][2] => j = k
           /\ \A k \in 1 .. Len(b) : b[k][2] \in seen \ listed
           /\ b = << >> => \A i \in Slots : i >= index => table[i] = NoPid
<1> USE DEF IInv
<1>1. b \in Seq(Entry) /\ Len(b) \in 0 .. Burst
  <2>1. b \in Seq(Entry) /\ Len(b) \in Nat
    BY BurstsAreSequences
  <2>2. QED
    BY <2>1 DEF IsBurst
<1>2. \A k \in 1 .. Len(b) : /\ b[k] \in Entry /\ b[k][1] \in Slots /\ b[k][2] \in Pids
                             /\ b[k][1] >= index /\ table[b[k][1]] = b[k][2]
  BY <1>1 DEF IsBurst
<1>3. \A j, k \in 1 .. Len(b) : j < k => b[j][1] < b[k][1]
  BY DEF IsBurst
<1>4. \A i \in Slots : i >= index /\ table[i] # NoPid =>
          \/ \E k \in 1 .. Len(b) : b[k][1] = i
          \/ Len(b) = Burst /\ i > b[Burst][1]
  BY DEF IsBurst
<1>5. \A i \in Slots : i < index /\ table[i] \in steady => table[i] \in listed
  BY DEF BelowReported
<1>6. NoPid \notin steady
  BY DEF TypeOK
<1>7. \A k \in 1 .. Len(b) : b # << >> /\ b[k][1] < IndexAfter(b)
  <2>1. TAKE k \in 1 .. Len(b)
  <2>2. Len(b) \in 1 .. Len(b) /\ b[Len(b)][1] \in Int /\ b[k][1] \in Int
    BY <1>1, <1>2
  <2>3. b[k][1] <= b[Len(b)][1]
    BY <1>1, <1>3, <2>2
  <2>4. QED
    BY <2>2, <2>3, <1>1 DEF IndexAfter
<1>8. b = << >> => \A i \in Slots : i >= index => table[i] = NoPid
  BY <1>4
<1>9. ASSUME NEW i \in Slots, i < IndexAfter(b), table[i] \in steady
      PROVE  table[i] \in listed \/ \E k \in 1 .. Len(b) : b[k][2] = table[i]
  <2>1. CASE i < index
    BY <1>5, <1>9, <2>1
  <2>2. CASE i >= index /\ b = << >>
    BY <1>6, <1>8, <1>9, <2>2
  <2>3. CASE i >= index /\ b # << >>
    <3>1. Len(b) \in 1 .. Len(b) /\ b[Len(b)][1] \in Int /\ i <= b[Len(b)][1]
      BY <1>1, <1>2, <1>9, <2>3 DEF IndexAfter
    <3>2. ~ (Len(b) = Burst /\ i > b[Burst][1])
      BY <3>1
    <3>3. PICK k \in 1 .. Len(b) : b[k][1] = i
      BY <1>4, <1>6, <1>9, <2>3, <3>2
    <3>4. QED
      BY <1>2, <3>3
  <2>4. QED
    BY <2>1, <2>2, <2>3 DEF TypeOK
<1>10. ASSUME NEW i \in Slots, IndexAfter(b) >= 0, i >= IndexAfter(b), table[i] # NoPid
       PROVE  /\ table[i] \notin listed
              /\ \A k \in 1 .. Len(b) : b[k][2] # table[i]
  <2>1. b # << >> => i >= index
    <3>1. SUFFICES ASSUME b # << >> PROVE i >= index
      OBVIOUS
    <3>2. Len(b) \in 1 .. Len(b) /\ b[Len(b)][1] \in Int
      BY <1>1, <1>2, <3>1
    <3>3. QED
      BY <1>2, <1>10, <3>1, <3>2 DEF IndexAfter, TypeOK
  <2>2. b = << >> => i >= index
    BY <1>10 DEF IndexAfter
  <2>3. table[i] \notin listed
    BY <1>10, <2>1, <2>2 DEF AboveUnreported
  <2>4. ASSUME NEW k \in 1 .. Len(b) PROVE b[k][2] # table[i]
    <3>1. b[k][1] # i
      <4>1. b[k][1] \in Int /\ IndexAfter(b) \in Int /\ i \in Int
        BY <1>2, IndexAfterType DEF TypeOK
      <4>2. QED
        BY <1>7, <1>10, <4>1
    <3>2. QED
      BY <1>2, <1>10, <3>1 DEF TableInv, GoodTable
  <2>5. QED
    BY <2>3, <2>4
<1>11. \A j, k \in 1 .. Len(b) : b[j][2] = b[k][2] => j = k
  <2>1. TAKE j, k \in 1 .. Len(b)
  <2>2. HAVE b[j][2] = b[k][2]
  <2>3. b[j][1] = b[k][1]
    <3>1. \A x, y \in Slots : table[x] = table[y] /\ table[x] # NoPid => x = y
      BY DEF TableInv, GoodTable
    <3>2. table[b[j][1]] = table[b[k][1]] /\ table[b[j][1]] # NoPid
      BY <1>2, <2>2
    <3>3. b[j][1] \in Slots /\ b[k][1] \in Slots
      BY <1>2
    <3>4. QED
      BY <3>1, <3>2, <3>3
  <2>4. b[j][1] \in Int /\ b[k][1] \in Int /\ j \in Int /\ k \in Int
    BY <1>1, <1>2
  <2>5. QED
    BY <1>3, <2>3, <2>4
<1>12. ASSUME NEW k \in 1 .. Len(b) PROVE b[k][2] \in seen \ listed
  <2>1. table[b[k][1]] # NoPid /\ table[b[k][1]] \in seen
    BY <1>2 DEF TableInv, InTable
  <2>2. QED
    BY <1>2, <2>1 DEF AboveUnreported
<1>13. QED
  BY <1>8, <1>9, <1>10, <1>11, <1>12

\* The constructor's burst.
LEMMA ConstructInv == IInv /\ Construct => IInv'
<1> SUFFICES ASSUME IInv, Construct PROVE IInv'
  OBVIOUS
<1> USE DEF IInv
<1>1. PICK b \in Bursts : ReadBurst(b)
  BY DEF Construct
<1>2. /\ pc = "construct" /\ pc' = "next" /\ IsBurst(b) /\ burst' = b /\ index' = IndexAfter(b)
      /\ UNCHANGED <<platform, table, seen, steady, mIndex, handle, listed, count>>
  BY <1>1 DEF Construct, ReadBurst, kernelVars
<1>3. index = 0 /\ burst = << >> /\ mIndex = 0 /\ listed = {}
  BY <1>2 DEF ControlInv
<1>4. Waiting = {}
  BY <1>2, <1>3 DEF Waiting
<1>5. b \in Seq(Entry) /\ Len(b) \in Nat
  BY BurstsAreSequences
<1>6. Waiting' = 1 .. Len(b)
  BY <1>2, <1>3, <1>5 DEF Waiting
<1>7. TypeOK'
  BY <1>2, <1>3, <1>5, IndexAfterType DEF TypeOK
<1>8. TableInv' /\ BelowReported' /\ AboveUnreported' /\ WaitingNew'
  BY <1>2, <1>3, <1>4, <1>6, ReadFacts
     DEF TableInv, GoodTable, InTable, BelowReported, AboveUnreported, WaitingNew
<1>9. ControlInv' /\ Complete'
  BY <1>2 DEF ControlInv, Complete
<1>10. QED
  BY <1>7, <1>8, <1>9

\* The next entry of the burst.
LEMMA NextInBurstInv == IInv /\ NextInBurst => IInv'
<1> SUFFICES ASSUME IInv, NextInBurst PROVE IInv'
  OBVIOUS
<1> USE DEF IInv
<1>1. /\ pc = "next" /\ pc' = "body" /\ mIndex < Len(burst)
      /\ mIndex' = mIndex + 1 /\ handle' = burst[mIndex + 1]
      /\ UNCHANGED <<platform, table, seen, steady, index, burst, listed, count>>
  BY DEF NextInBurst, kernelVars
<1>2. Len(burst) \in Nat /\ mIndex \in Nat /\ mIndex + 1 \in 1 .. Len(burst)
  BY <1>1 DEF TypeOK
<1>3. TypeOK'
  BY <1>1, <1>2 DEF TypeOK
<1>4. Waiting' = Waiting
  BY <1>1, <1>2 DEF Waiting
<1>5. TableInv' /\ ControlInv' /\ Complete'
  BY <1>1, <1>2 DEF TableInv, GoodTable, InTable, ControlInv, Complete
<1>6. BelowReported' /\ AboveUnreported' /\ WaitingNew'
  BY <1>1, <1>4 DEF BelowReported, AboveUnreported, WaitingNew
<1>7. QED
  BY <1>3, <1>5, <1>6

\* A new burst; an empty one ends the scan.
LEMMA NextReadsInv == IInv /\ NextReads => IInv'
<1> SUFFICES ASSUME IInv, NextReads PROVE IInv'
  OBVIOUS
<1> USE DEF IInv
<1>1. PICK b \in Bursts :
          /\ ReadBurst(b)
          /\ \/ b = << >> /\ pc' = "over" /\ mIndex' = 0 /\ handle' = handle
             \/ b # << >> /\ pc' = "body" /\ mIndex' = 1 /\ handle' = b[1]
  BY DEF NextReads
<1>2. /\ pc = "next" /\ mIndex >= Len(burst) /\ index # -1
      /\ IsBurst(b) /\ burst' = b /\ index' = IndexAfter(b)
      /\ UNCHANGED <<platform, table, seen, steady, listed, count>>
  BY <1>1 DEF NextReads, ReadBurst, kernelVars
<1>3. b \in Seq(Entry) /\ Len(b) \in Nat
  BY BurstsAreSequences
<1>4. Waiting = {} /\ index >= 0
  BY <1>2 DEF Waiting, TypeOK
<1>5. TypeOK'
  <2>1. b # << >> => b[1] \in Entry /\ 1 \in 0 .. Len(b)
    BY <1>3
  <2>2. QED
    BY <1>1, <1>2, <1>3, <2>1, IndexAfterType DEF TypeOK
<1>6. b # << >> => Waiting' = 1 .. Len(b)
  BY <1>1, <1>2, <1>3 DEF Waiting
<1>7. TableInv'
  BY <1>2, <1>4, ReadFacts DEF TableInv, GoodTable, InTable
<1>8. ControlInv'
  BY <1>1, <1>2 DEF ControlInv
<1>9. BelowReported'
  BY <1>1, <1>2, <1>4, <1>6, ReadFacts DEF BelowReported
<1>10. AboveUnreported'
  BY <1>2, <1>4, ReadFacts DEF AboveUnreported
<1>11. WaitingNew'
  <2>1. CASE b = << >>
    <3>1. Waiting' = {}
      BY <1>1, <1>2, <2>1 DEF Waiting
    <3>2. QED
      BY <1>2, <1>4, <3>1, ReadFacts DEF WaitingNew
  <2>2. CASE b # << >>
    BY <1>2, <1>4, <1>6, <2>2, ReadFacts DEF WaitingNew
  <2>3. QED
    BY <2>1, <2>2
<1>12. Complete'
  <2>1. CASE b = << >>
    <3>1. SUFFICES ASSUME NEW p \in steady PROVE p \in listed
      BY <1>2 DEF Complete
    <3>2. PICK i \in Slots : table[i] = p
      BY DEF TableInv, InTable
    <3>3. p # NoPid
      BY DEF TypeOK
    <3>4. i < index
      BY <1>2, <1>4, <2>1, <3>2, <3>3, ReadFacts DEF TypeOK
    <3>5. QED
      BY <1>2, <1>4, <3>2, <3>4 DEF BelowReported
  <2>2. CASE b # << >>
    BY <1>1, <2>2 DEF Complete
  <2>3. QED
    BY <2>1, <2>2
<1>13. QED
  BY <1>5, <1>7, <1>8, <1>9, <1>10, <1>11, <1>12

\* A failed call changes nothing but where the program is.
LEMMA ReadFailsInv == IInv /\ ReadFails => IInv'
<1> SUFFICES ASSUME IInv, ReadFails PROVE IInv'
  OBVIOUS
<1> USE DEF IInv
<1>1. /\ pc \in {"construct", "next"} /\ pc' = "failed"
      /\ UNCHANGED <<platform, table, seen, steady, index, burst, mIndex, handle, listed, count>>
  BY DEF ReadFails, kernelVars
<1>2. Waiting' = Waiting
  BY <1>1 DEF Waiting
<1>3. QED
  BY <1>1, <1>2 DEF TypeOK, TableInv, GoodTable, InTable, ControlInv, BelowReported,
                    AboveUnreported, WaitingNew, Complete

\* The loop body prints the entry the handle points to.
LEMMA BodyInv == IInv /\ Body => IInv'
<1> SUFFICES ASSUME IInv, Body PROVE IInv'
  OBVIOUS
<1> USE DEF IInv
<1>1. /\ pc = "body" /\ pc' = "next" /\ listed' = listed \cup {handle[2]}
      /\ count' \in {count, count + 1}
      /\ UNCHANGED <<platform, table, seen, steady, index, burst, mIndex, handle>>
  BY DEF Body, kernelVars
<1>2. /\ Len(burst) \in Nat /\ mIndex \in 1 .. Len(burst) /\ handle = burst[mIndex]
      /\ handle[2] \in Pids /\ handle[2] \in seen
  BY <1>1 DEF TypeOK, ControlInv, TableInv
<1>3. Waiting' = Waiting \ {mIndex}
  BY <1>1, <1>2 DEF Waiting
<1>4. TypeOK'
  BY <1>1, <1>2 DEF TypeOK
<1>5. TableInv' /\ ControlInv' /\ Complete'
  BY <1>1, <1>2 DEF TableInv, GoodTable, InTable, ControlInv, Complete
<1>6. BelowReported'
  BY <1>1, <1>2, <1>3 DEF BelowReported
<1>7. AboveUnreported'
  BY <1>1, <1>2 DEF AboveUnreported
<1>8. WaitingNew'
  <2>1. \A k \in Waiting' : k \in 1 .. Len(burst) /\ k # mIndex /\ k \in Waiting
    BY <1>3 DEF Waiting
  <2>2. QED
    BY <1>1, <1>2, <2>1 DEF WaitingNew
<1>9. QED
  BY <1>4, <1>5, <1>6, <1>7, <1>8

-----------------------------------------------------------------------------

LEMMA StepInv == IInv /\ [Next]_vars => IInv'
<1> SUFFICES ASSUME IInv, [Next]_vars PROVE IInv'
  OBVIOUS
<1>1. CASE Next
  BY <1>1, ConstructInv, NextInBurstInv, NextReadsInv, ReadFailsInv, BodyInv, BirthInv, DeathInv
     DEF Next, Lister
<1>2. CASE UNCHANGED vars
  BY <1>2 DEF vars, kernelVars, listerVars, IInv, TypeOK, TableInv, GoodTable, InTable,
              ControlInv, BelowReported, AboveUnreported, WaitingNew, Waiting, Complete
<1>3. QED
  BY <1>1, <1>2

LEMMA Invariance == Spec => []IInv
BY InitInv, StepInv, PTL DEF Spec

\* Type correctness of the iterator, for every table and burst size.
THEOREM TypeCorrect == Spec => []TypeOK
<1>1. IInv => TypeOK
  BY DEF IInv
<1>2. QED
  BY <1>1, Invariance, PTL

\* Every process that lives through the scan is printed, whatever is born or dies between
\* two bursts, on AIX and on HP-UX.
THEOREM Completeness == Spec => []Complete
<1>1. IInv => Complete
  BY DEF IInv
<1>2. QED
  BY <1>1, Invariance, PTL

\* No process is printed twice.
THEOREM Uniqueness == Spec => []NoDuplicate
<1>1. IInv => NoDuplicate
  <2>1. SUFFICES ASSUME IInv, pc = "body" PROVE handle[2] \notin listed
    BY DEF NoDuplicate
  <2>2. mIndex \in Waiting /\ handle = burst[mIndex]
    BY <2>1 DEF IInv, TypeOK, ControlInv, Waiting
  <2>3. QED
    BY <2>1, <2>2 DEF IInv, WaitingNew
<1>2. QED
  BY <1>1, Invariance, PTL

\* The count main() reports is the number of processes listed that are not the kernel's.
THEOREM CountIsExact == Spec => []CountExact
<1> DEFINE CInv == IsFiniteSet(listed) /\ CountExact
<1>1. Init => CInv
  BY FS_EmptySet DEF Init, CountExact
<1>2. IInv /\ CInv /\ [Next]_vars => CInv'
  <2>1. SUFFICES ASSUME IInv, CInv, [Next]_vars PROVE CInv'
    OBVIOUS
  <2>2. CASE Body
    <3>1. /\ pc = "body" /\ listed' = listed \cup {handle[2]} /\ seen' = seen
          /\ platform' = platform
          /\ platform = "aix" => count' = IF handle[2] \in KernelProcs THEN count ELSE count + 1
      BY <2>2, PlatformsAssumption DEF Body, kernelVars
    <3>2. mIndex \in Waiting /\ handle = burst[mIndex]
      BY <2>1, <3>1 DEF IInv, TypeOK, ControlInv, Waiting
    <3>3. handle[2] \notin listed /\ handle[2] \in seen
      BY <2>1, <3>2 DEF IInv, WaitingNew, TableInv, Waiting
    <3>4. IsFiniteSet(listed')
      BY <2>1, <3>1, FS_AddElement
    <3>5. IsFiniteSet(listed \ KernelProcs)
      BY <2>1, FS_Difference
    <3>6. platform = "aix" => count' = Cardinality(listed' \ KernelProcs)
      <4>1. CASE handle[2] \in KernelProcs
        <5>1. listed' \ KernelProcs = listed \ KernelProcs
          BY <3>1, <4>1
        <5>2. QED
          BY <2>1, <3>1, <4>1, <5>1 DEF CountExact
      <4>2. CASE handle[2] \notin KernelProcs
        <5>1. listed' \ KernelProcs = (listed \ KernelProcs) \cup {handle[2]}
          BY <3>1, <4>2
        <5>2. Cardinality(listed' \ KernelProcs) = Cardinality(listed \ KernelProcs) + 1
          BY <3>3, <3>5, <5>1, FS_AddElement
        <5>3. QED
          BY <2>1, <3>1, <4>2, <5>2 DEF CountExact
      <4>3. QED
        BY <4>1, <4>2
    <3>7. QED
      BY <2>1, <3>1, <3>3, <3>4, <3>6 DEF CountExact
  <2>3. CASE ~ Body
    <3>1. UNCHANGED <<platform, listed, count>> /\ seen \subseteq seen'
      BY <2>1, <2>3 DEF Next, Lister, Construct, NextInBurst, NextReads, ReadFails, Birth, Death,
                        vars, listerVars, kernelVars
    <3>2. QED
      BY <2>1, <3>1 DEF CountExact
  <2>4. QED
    BY <2>2, <2>3
<1>3. QED
  BY <1>1, <1>2, Invariance, PTL DEF Spec

\* The iterator implements the abstract scan: each of its steps reports a new process,
\* ends the scan with nothing steady left out, gives up, or is invisible.
THEOREM ImplementsScan == Spec => ScanSpec
<1>1. Init => Scan!Init
  BY DEF Init, Scan!Init, InTable
<1>2. IInv /\ IInv' /\ [Next]_vars => [Scan!Next]_(Scan!vars)
  <2>1. SUFFICES ASSUME IInv, IInv', [Next]_vars PROVE [Scan!Next]_(Scan!vars)
    OBVIOUS
  <2> USE DEF Scan!Next, Scan!vars, kernelVars, listerVars
  <2>2. CASE Construct
    BY <2>2 DEF Construct
  <2>3. CASE NextInBurst
    BY <2>3 DEF NextInBurst
  <2>4. CASE NextReads
    <3>1. pc = "next" /\ pc' \in {"over", "body"} /\ UNCHANGED <<seen, steady, listed>>
      BY <2>4 DEF NextReads
    <3>2. pc' = "over" => steady \subseteq listed
      BY <2>1, <3>1 DEF IInv, Complete
    <3>3. QED
      BY <3>1, <3>2 DEF Scan!Finish
  <2>5. CASE ReadFails
    BY <2>5 DEF ReadFails, Scan!Fail
  <2>6. CASE Body
    <3>1. pc = "body" /\ pc' = "next" /\ listed' = listed \cup {handle[2]}
          /\ UNCHANGED <<seen, steady>>
      BY <2>6 DEF Body
    <3>2. mIndex \in Waiting /\ handle = burst[mIndex]
      BY <2>1, <3>1 DEF IInv, TypeOK, ControlInv, Waiting
    <3>3. handle[2] \in seen \ listed
      BY <2>1, <3>2 DEF IInv, WaitingNew, TableInv, Waiting
    <3>4. QED
      BY <3>1, <3>3 DEF Scan!Report
  <2>7. CASE Birth
    <3>1. PICK p \in Pids \ seen : seen' = seen \cup {p}
      BY <2>7 DEF Birth
    <3>2. UNCHANGED <<steady, listed, pc>>
      BY <2>7 DEF Birth
    <3>3. QED
      BY <3>1, <3>2 DEF Scan!Churn
  <2>8. CASE Death
    <3>1. steady' \subseteq steady /\ UNCHANGED <<seen, listed, pc>>
      BY <2>8 DEF Death
    <3>2. {} \in SUBSET (Pids \ seen) /\ seen' = seen \cup {}
      BY <3>1
    <3>3. QED
      BY <3>1, <3>2 DEF Scan!Churn
  <2>9. CASE UNCHANGED vars
    BY <2>9 DEF vars
  <2>10. QED
    BY <2>1, <2>2, <2>3, <2>4, <2>5, <2>6, <2>7, <2>8, <2>9 DEF Next, Lister
<1>3. QED
  BY <1>1, <1>2, Invariance, PTL DEF Spec, ScanSpec, Scan!Spec
=============================================================================

-------------------------------- MODULE Tables --------------------------------
(* The two components that list a table of the system while it changes:      *)
(* ProcLister, and beside it, with variables of its own, SizedQuery.         *)
EXTENDS ProcLister

CONSTANTS Adapters, Loopback, TwoAddresses, EntrySize

VARIABLES program, present, ifSeen, ifSteady, ifPc, told, room, filled, cut, ifListed, blank

ifVars == <<program, present, ifSeen, ifSteady, ifPc, told, room, filled, cut, ifListed, blank>>

Sized == INSTANCE SizedQuery WITH
    seen <- ifSeen, steady <- ifSteady, pc <- ifPc, listed <- ifListed

\* There are finitely many interfaces, one of them the loopback one, and an entry has a size.
ASSUME InterfacesAssumption == Sized!Sensible

\* SizedQuery!RoomIsReal: what the second call writes has room, and the sizes the program
\* keeps of it are of their types.
RoomIsReal == Sized!TypeOK /\ Sized!RoomIsReal

\* SizedQuery!EntriesWritten: what is printed was written.
EntriesWritten == Sized!EntriesWritten

\* SizedQuery!SnapshotListed: a listing that ends is a scan.
SnapshotListed == Sized!SnapshotListed
=============================================================================

----------------------------- MODULE MCReaders -----------------------------
(* Small instance of Readers: DepStats on the files of MCDepStats, or Vpd on *)
(* records of up to three items of different lengths.  One of them runs, the *)
(* other rests.                                                              *)
EXTENDS Readers, MCDepStats

VARIABLE reader

allVars == <<reader, vars, odmVars>>

MF == <<77, 70>>
SN == <<83, 78>>

Items == {[key |-> MF, data |-> << >>], [key |-> MF, data |-> <<66, 67, 68, 69>>],
          [key |-> SN, data |-> <<65>>], [key |-> SN, data |-> <<66, 0, 65>>],
          [key |-> SN, data |-> <<66, 65>>]}

MCSize == 28

\* The bytes of an item, and a record of items.
Encoded(item) ==
    LET padded == IF Len(item.data) % 2 = 0 THEN item.data ELSE Append(item.data, 0)
    IN  <<42>> \o item.key \o <<(4 + Len(padded)) \div 2>> \o padded

MCRecord(items, form) ==
    LET encoded == [k \in DOMAIN items |-> Encoded(items[k])]
        end     == [star |-> << >>, damaged |-> <<42, 83, 78>>, large |-> <<130>>]
        used    == FlattenSeq(encoded) \o end[form]
    IN  [items |-> items, form |-> form,
         at    |-> [k \in 1 .. Len(items) + 1 |-> Len(FlattenSeq(SubSeq(encoded, 1, k - 1)))],
         bytes |-> [i \in 0 .. MCSize - 1 |-> IF i < Len(used) THEN used[i + 1] ELSE 0]]

MCRecords ==
    {MCRecord(r[1], r[2]) : r \in SeqOf(Items, 3) \X {"star", "damaged"} \cup {<<<< >>, "large">>}}

NoItems == MCRecord(<< >>, "star")

MCInit ==
    /\ \/ reader = "deps" /\ program = "procs" /\ record = NoItems
       \/ reader = "odm" /\ files = <<NoFile, NoFile>>
    /\ Odm!Init /\ Init

DepsNext == reader = "deps" /\ Next /\ UNCHANGED <<reader, odmVars>>
OdmNext  == reader = "odm" /\ Odm!Next /\ UNCHANGED <<reader, vars>>

\* Vpd!FairSpec for the program that runs.
MCSpec ==
    /\ MCInit /\ [][DepsNext \/ OdmNext]_allVars
    /\ WF_allVars(OdmNext)

\* Vpd!OdmEnds of this instance: the program ends, or the ODM fails for ever.
OdmEnds == reader = "odm" => Odm!OdmEnds
=============================================================================

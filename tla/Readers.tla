------------------------------ MODULE Readers ------------------------------
(* The programs that walk over data others have written, with a pointer and  *)
(* lengths: DepStats over depend files, and Vpd over a record of the ODM.    *)
EXTENDS DepStats

CONSTANTS Records, Size, MaxDevices

VARIABLES program, record, odmPc, open, p, value, printed, devices, error, asked

odmVars == <<program, record, odmPc, open, p, value, printed, devices, error, asked>>

Odm == INSTANCE Vpd WITH pc <- odmPc

ASSUME RecordsAssumption == Odm!Sensible

\* Vpd!AllPrinted: each item and each device once, its value cut right.
AllPrinted == Odm!AllPrinted

\* The types of both components: neither pointer runs past the end of what it is in.
TypesOK == TypeOK /\ Odm!TypeOK
=============================================================================

------------------------------- MODULE MCTables -------------------------------
(* Small instances of ProcLister, with the lister and p1 .. p3, of which p3  *)
(* is in the kernel, and of SizedQuery, with the loopback interface lo and   *)
(* e1 .. e3, of which e2 and e3 have a second address.  One of the two       *)
(* components runs, the other rests.                                         *)
EXTENDS Tables

CONSTANTS self, p1, p2, p3, lo, e1, e2, e3

MCPids == {self, p1, p2, p3}
MCKernelProcs == {p3}

VARIABLE lists

allVars == <<lists, vars, ifVars>>

MCInit ==
    /\ \/ lists = "processes" /\ program = "long" /\ present = {}
       \/ lists = "interfaces" /\ table = [i \in Slots |-> IF i = 0 THEN Self ELSE NoPid]
    /\ Init /\ Sized!Init
    /\ lists = "interfaces" => platform = "aix"

KernelNext == lists = "processes" /\ (Birth \/ Death) /\ UNCHANGED <<lists, ifVars>>
ListerNext == lists = "processes" /\ Lister /\ UNCHANGED <<lists, ifVars>>
IfNext     == lists = "interfaces" /\ Sized!Next /\ UNCHANGED <<lists, vars>>

MCSpec == MCInit /\ [][KernelNext \/ ListerNext \/ IfNext]_allVars /\ WF_allVars(ListerNext)

\* ProcLister!ScanEnds: the scan ends although processes keep being created.
ListingEnds == lists = "processes" => ScanEnds
=============================================================================

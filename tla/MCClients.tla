------------------------------ MODULE MCClients ------------------------------
(* The clients of a server that may fail at every call: SshRequest, two runs *)
(* r1, r2 of the programs of MySqlQuery on one database, or PamAuth with an  *)
(* int of at most 3 and up to three messages.  One of them runs, the others  *)
(* rest.                                                                     *)
EXTENDS Clients, SequencesExt

CONSTANTS r1, r2

MCRuns == {r1, r2}
MCPrograms == {"realQuery", "api", "prepare"}
MCTimes == -1 .. 2
MCMessages == SeqOf({"echoOff", "echoOn", "info"}, 3)

VARIABLE serves     \* which server there is

allVars == <<serves, vars, sqlVars, pamVars>>

MCInit ==
    /\ Init /\ Sql!Init /\ Pam!Init
    /\ serves \in {"sshd", "mysqld", "pam"}
    /\ serves # "sshd" => variant = "exec"
    /\ serves # "mysqld" => ~ proc /\ program = [r \in Runs |-> "api"]
    /\ serves # "pam" => pamProgram = "linux"

Requests(A) == serves = "sshd" /\ A /\ UNCHANGED <<serves, sqlVars, pamVars>>
SqlNext == serves = "mysqld" /\ Sql!Next /\ UNCHANGED <<serves, vars, pamVars>>
PamNext == serves = "pam" /\ Pam!Next /\ UNCHANGED <<serves, vars, sqlVars>>

\* SshRequest!FairSpec for the client that runs; the others wait for nothing.
MCSpec ==
    /\ MCInit /\ [][Requests(Next) \/ SqlNext \/ PamNext]_allVars
    /\ WF_allVars(Requests(SetUpCalls)) /\ WF_allVars(Requests(WriteSome))
    /\ WF_allVars(Requests(Read)) /\ WF_allVars(Requests(Ending))

\* SshRequest!ClientEnds: the client ends although the server never answers.
RequestEnds == serves = "sshd" => ClientEnds
=============================================================================

------------------------------- MODULE Clients -------------------------------
(***************************************************************************)
(* The three kinds of clients of src/ostc side by side: the libssh2        *)
(* clients (SshRequest), the MySQL test programs (MySqlQuery) and the      *)
(* clients of PAM (PamAuth).                                               *)
(***************************************************************************)
EXTENDS SshRequest

CONSTANTS
    Runs, Programs, UserRows,       \* the constants of MySqlQuery
    PamPrograms, IntMax, Default, Rounds, Times, Messages   \* those of PamAuth

VARIABLES program, proc, sqlPc, conn, stmt, results, numRows, numFields, found, fault, clash

sqlVars == <<program, proc, sqlPc, conn, stmt, results, numRows, numFields, found, fault, clash>>

Sql == INSTANCE MySqlQuery WITH pc <- sqlPc

VARIABLES pamProgram, pamPc, limit, round, authCount, authFail, res, caller, msgs, reply,
          verdict, live, letIn, scarce

pamVars == <<pamProgram, pamPc, limit, round, authCount, authFail, res, caller, msgs, reply,
             verdict, live, letIn, scarce>>

Pam == INSTANCE PamAuth WITH
    Programs <- PamPrograms, program <- pamProgram, pc <- pamPc, i <- round

ASSUME ClientsAssumption ==
    /\ Programs \subseteq {"realQuery", "api", "prepare"}
    /\ UserRows \subseteq Nat

ASSUME PamAssumption == Pam!Sensible

\* The types of the three: no client waits longer than its counter allows, no run goes past
\* its last statement, no round past the limit.
TypesOK == TypeOK /\ Sql!TypeOK /\ Pam!TypeOK

\* MySqlQuery!InSync of this instance: no statement before all results are read.
InSync == Sql!InSync

\* MySqlQuery!FailsOnlyIfDisturbed of this instance.
FailsOnlyIfDisturbed == Sql!FailsOnlyIfDisturbed

\* PamAuth!HandlesEnded of this instance: each handle of pam_start() is ended, once.
HandlesEnded == Pam!HandlesEnded

\* PamAuth!RoundsCounted of this instance: the counts printed are those of PAM's answers.
RoundsCounted == Pam!RoundsCounted

\* PamAuth!PromptsAnswered of this instance: who reports success has answered the prompts.
PromptsAnswered == Pam!PromptsAnswered
=============================================================================

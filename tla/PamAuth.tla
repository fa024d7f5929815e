------------------------------ MODULE PamAuth ------------------------------
(***************************************************************************)
(* src/ostc/pam_auth.c and src/ostc/os/hp/pam_auth.c as programs of their  *)
(* own (STANDALONE): main() calls authorize() again and again, which asks  *)
(* PAM; PAM calls back pwd_conv() with its messages.  PAM, its modules and *)
(* malloc() are not part of src/: each call of theirs may succeed or fail. *)
(***************************************************************************)
EXTENDS Integers, Sequences

CONSTANTS
    Programs,   \* "linux": pam_auth.c; "hp": os/hp/pam_auth.c
    IntMax,     \* the largest int: 2147483647
    Default,    \* the rounds of pam_auth.c without an argument: 5000
    Rounds,     \* those of os/hp/pam_auth.c: 5
    Times,      \* what atoi(argv[3]) may return
    Messages    \* the sequences of messages a module may send at once

\* What the programs' numbers and messages are; assumed where the module is used.
Sensible ==
    /\ IntMax \in Nat /\ Default \in 0 .. IntMax /\ Rounds \in 0 .. IntMax
    /\ Times \subseteq Int /\ \A t \in Times : t <= IntMax
    /\ Messages \subseteq Seq({"echoOff", "echoOn", "info"})

VARIABLES
    program,    \* which of the two it is
    pc,         \* where main(), authorize() or pwd_conv() is
    limit,      \* authLimit; the bound of the loop of os/hp/pam_auth.c
    i, authCount, authFail,
    res,        \* what authorize() will return
    caller,     \* the PAM call that pwd_conv() was called from
    msgs,       \* its messages
    reply,      \* the replies written so far
    verdict,    \* what pwd_conv() has returned: "success", "error", or "none" yet
    live,       \* history: handles pam_start() gave that were not ended
    letIn,      \* history: rounds in which PAM accepted user and account
    scarce      \* history: a malloc() or strdup() of this conversation failed

counters == <<i, authCount, authFail>>
conv     == <<caller, msgs, reply, verdict, scarce>>
vars     == <<program, pc, limit, counters, res, conv, live, letIn>>

InPam == {"authenticate", "acct"}

\* Types; the loop never goes past its limit, and no counter past the rounds.
TypeOK ==
    /\ program \in Programs
    /\ pc \in InPam \cup {"args", "loop", "conv", "end", "exit0", "exit1", "crashed"}
    /\ limit \in Int /\ limit <= IntMax
    /\ i \in 0 .. IntMax /\ (i > 0 => i <= limit)
    /\ authCount \in 0 .. i /\ authFail \in 0 .. i
    /\ res \in {0, 1}
    /\ caller \in InPam /\ msgs \in Messages \cup {<< >>}
    /\ reply \in Seq({"password", "null"}) /\ verdict \in {"none", "success", "error"}
    /\ live \in Nat /\ letIn \in Nat /\ scarce \in BOOLEAN

Init ==
    /\ program \in Programs
    /\ pc = "args" /\ limit = 0
    /\ i = 0 /\ authCount = 0 /\ authFail = 0 /\ res = 0
    /\ caller = "authenticate" /\ msgs = << >> /\ reply = << >> /\ verdict = "none" /\ scarce = FALSE
    /\ live = 0 /\ letIn = 0

-----------------------------------------------------------------------------
(* main() *)

\* Wrong arguments.
Usage ==
    /\ pc = "args"
    /\ pc' = "exit1"
    /\ UNCHANGED <<program, limit, counters, res, conv, live, letIn>>

\* A third argument of pam_auth.c is the number of rounds, 0 for as many as an int
\* counts; that of os/hp/pam_auth.c names the service.
Limits ==
    IF program = "linux" THEN {IF t = 0 THEN IntMax ELSE t : t \in Times} \cup {Default}
    ELSE {Rounds}

Args ==
    /\ pc = "args"
    /\ limit' \in Limits
    /\ pc' = "loop"
    /\ UNCHANGED <<program, counters, res, conv, live, letIn>>

\* authorize() returns r to the loop; os/hp/pam_auth.c only prints a failure.
Counted(r) ==
    /\ authCount' = authCount + r
    /\ authFail' = IF program = "linux" THEN authFail + (1 - r) ELSE authFail
    /\ i' = i + 1
    /\ pc' = "loop"

LoopEnds ==
    /\ pc = "loop" /\ i >= limit
    /\ pc' = "exit0"
    /\ UNCHANGED <<program, limit, counters, res, conv, live, letIn>>

-----------------------------------------------------------------------------
(* authorize() *)

Start ==
    /\ pc = "loop" /\ i < limit
    /\ res' = 0
    /\ live' = live + 1
    /\ pc' = "authenticate"
    /\ UNCHANGED <<program, limit, counters, conv, letIn>>

StartFails ==
    /\ pc = "loop" /\ i < limit
    /\ res' = 0
    /\ Counted(0)
    /\ UNCHANGED <<program, limit, conv, live, letIn>>

\* PAM has done with the conversation.
Forget ==
    /\ msgs' = << >> /\ reply' = << >> /\ verdict' = "none" /\ scarce' = FALSE
    /\ UNCHANGED caller

Authenticated ==
    /\ pc = "authenticate"
    /\ pc' = "acct"
    /\ Forget
    /\ UNCHANGED <<program, limit, counters, res, live, letIn>>

\* Mutants of Refused: authorize() returns at once; res is set before the account is asked
\* for.
RefusedReturns ==
    /\ pc \in InPam
    /\ Counted(0)
    /\ Forget
    /\ UNCHANGED <<program, limit, res, live, letIn>>

RefusedCounts ==
    /\ pc \in InPam
    /\ pc' = "end"
    /\ res' = IF pc = "acct" THEN 1 ELSE res
    /\ Forget
    /\ UNCHANGED <<program, limit, counters, live, letIn>>

\* pam_authenticate() or pam_acct_mgmt() fails: goto DONE.
Refused ==
    /\ pc \in InPam
    /\ pc' = "end"
    /\ Forget
    /\ UNCHANGED <<program, limit, counters, res, live, letIn>>

Accepted ==
    /\ pc = "acct"
    /\ res' = 1
    /\ letIn' = letIn + 1
    /\ pc' = "end"
    /\ Forget
    /\ UNCHANGED <<program, limit, counters, live>>

\* DONE: an error of pam_end() is printed.
End ==
    /\ pc = "end"
    /\ live' = live - 1
    /\ Counted(res)
    /\ UNCHANGED <<program, limit, res, conv, letIn>>

-----------------------------------------------------------------------------
(* pwd_conv() *)

\* PAM calls back, as often as its modules like.
Ask ==
    /\ pc \in InPam
    /\ msgs' \in Messages
    /\ reply' = << >> /\ verdict' = "none" /\ scarce' = FALSE
    /\ caller' = pc
    /\ pc' = "conv"
    /\ UNCHANGED <<program, limit, counters, res, live, letIn>>

ConvReturns(what) ==
    /\ verdict' = what
    /\ pc' = caller
    /\ UNCHANGED <<program, limit, counters, res, caller, msgs, reply, live, letIn>>

\* calloc() returns NULL, or pam_auth.c is called without a message.
NoReplies ==
    /\ pc = "conv" /\ reply = << >>
    /\ scarce' = (msgs # << >>)
    /\ ConvReturns("error")

\* The message the loop of pwd_conv() is at.
Message == msgs[Len(reply) + 1]
InLoop == pc = "conv" /\ Len(reply) < Len(msgs)

Reply(text) ==
    /\ reply' = Append(reply, text)
    /\ UNCHANGED <<program, pc, limit, counters, res, caller, msgs, verdict, live, letIn>>

Answers(style) == style = "echoOff" \/ (program = "hp" /\ style = "echoOn")

\* pam_auth.c reaches its replies as resp[i]->resp: resp[0] points to the first, and what
\* lies behind that pointer is anything.
Answer ==
    /\ InLoop /\ Answers(Message)
    /\ program = "linux" => reply = << >>
    /\ Reply("password")
    /\ UNCHANGED scarce

\* Behind the pointer: the password goes elsewhere.
AnswerStray ==
    /\ InLoop /\ Answers(Message)
    /\ program = "linux" /\ reply # << >>
    /\ Reply("null")
    /\ UNCHANGED scarce

\* strncpy() through a stray pointer, or to the NULL of malloc().
AnswerCrashes ==
    /\ InLoop /\ Answers(Message)
    /\ program = "linux"
    /\ pc' = "crashed"
    /\ scarce' \in {TRUE, scarce \/ reply = << >>}
    /\ UNCHANGED <<program, limit, counters, res, caller, msgs, reply, verdict, live, letIn>>

\* strdup() returns NULL.
AnswerMissing ==
    /\ InLoop /\ Answers(Message)
    /\ program = "hp"
    /\ Reply("null")
    /\ scarce' = TRUE

\* os/hp/pam_auth.c leaves other messages without a reply.
PassOver ==
    /\ InLoop /\ ~ Answers(Message) /\ program = "hp"
    /\ Reply("null")
    /\ UNCHANGED scarce

\* Mutant of Reject: another message ends the conversation with success.
RejectSucceeds ==
    /\ InLoop /\ ~ Answers(Message) /\ program = "linux"
    /\ ConvReturns("success")
    /\ UNCHANGED scarce

\* pam_auth.c gives up at another message; its replies stay behind.
Reject ==
    /\ InLoop /\ ~ Answers(Message) /\ program = "linux"
    /\ ConvReturns("error")
    /\ UNCHANGED scarce

\* All messages are done; pam_auth.c had one at least.
ConvSucceeds ==
    /\ pc = "conv" /\ Len(reply) = Len(msgs)
    /\ program = "linux" => msgs # << >>
    /\ ConvReturns("success")
    /\ UNCHANGED scarce

PwdConv ==
    \/ NoReplies \/ Answer \/ AnswerStray \/ AnswerCrashes \/ AnswerMissing
    \/ PassOver \/ Reject \/ ConvSucceeds

Authorize == Start \/ StartFails \/ Authenticated \/ Refused \/ Accepted \/ End

Next == Usage \/ Args \/ LoopEnds \/ Authorize \/ Ask \/ PwdConv

Spec == Init /\ [][Next]_vars

-----------------------------------------------------------------------------

\* On each of its ways, authorize() ends the handle pam_start() gave it, once: a program
\* that runs for days must not collect them (pam_auth.c:268-293).
HandlesEnded == live = IF pc \in InPam \cup {"conv", "end", "crashed"} THEN 1 ELSE 0

\* "Successfully authenticated %d times" (pam_auth.c:341) is the number of rounds in which
\* PAM accepted both the user and the account, and pam_auth.c counts every round once.
RoundsCounted ==
    pc \in {"loop", "exit0"} =>
        /\ authCount = letIn
        /\ program = "linux" => authCount + authFail = i

\* When pwd_conv() reports success, PAM has the password in reply to each of its prompts and
\* to nothing else; except, for pam_auth.c, to those after the first message, and for
\* os/hp/pam_auth.c if there was no memory (pam_auth.c:233-250, hp/pam_auth.c:187-197).
PromptsAnswered ==
    verdict = "success" =>
        /\ Len(reply) = Len(msgs)
        /\ \A k \in 1 .. Len(msgs) :
              /\ reply[k] = "password" => Answers(msgs[k])
              /\ Answers(msgs[k]) => reply[k] = "password" \/ scarce \/ (program = "linux" /\ k > 1)
=============================================================================

----------------------------- MODULE SshRequest -----------------------------
(***************************************************************************)
(* The two libssh2 clients, src/ostc/ssh/ssh-sample-exec.c and             *)
(* src/ostc/ssh/ssh-sample.c: set up a session and a channel, write one    *)
(* request, read one answer, shut down.  libssh2 and the server behind the *)
(* channel are not part of src/.                                           *)
(*                                                                         *)
(* A call that returns LIBSSH2_ERROR_EAGAIN and is simply repeated changes *)
(* nothing: it is a stuttering step, and the fairness of the actions says  *)
(* that it is not repeated for ever.  A read that returns it does count.   *)
(***************************************************************************)
EXTENDS Integers, Sequences

CONSTANTS
    Variants,   \* the clients considered: "exec" (ssh-sample-exec.c), "tunnel" (ssh-sample.c)
    ReqLen,     \* length of the request, in the units libssh2_channel_write may split it
    AnsLen,     \* length of the server's answer, text without a NUL
    WBuffer,    \* what wbuffer holds, with the NUL behind the text (1024 in the code)
    MaxReads    \* how often the answer is asked for (5 in the code)

ASSUME VariantsAssumption == Variants \subseteq {"exec", "tunnel"}
ASSUME SizesAssumption == ReqLen \in Nat \ {0} /\ AnsLen \in Nat /\ MaxReads \in Nat \ {0}
                          /\ WBuffer \in Nat \ {0}

VARIABLES
    variant,    \* which of the two clients runs; it never changes
    pc,         \* the client's next call, or how it ended
    lib, sock, session, channel,    \* what the client holds
    wr,         \* how much of the request libssh2 has taken
    counter,    \* how often it has tried to read
    printed,    \* what it has printed of the answer
    recv,       \* what the server has received: positions of the request
    out,        \* how much of the answer the server has sent
    inbox,      \* what libssh2 holds of it, unread
    eof         \* the server has closed its side of the channel

resources == <<variant, lib, sock, session, channel>>
exchange  == <<wr, counter, printed, inbox>>
server    == <<recv, out, eof>>
vars      == <<pc, resources, exchange, server>>

SetUp == IF variant = "exec"
         THEN <<"init", "connect", "session", "handshake", "knownhosts", "hostkey", "auth", "open", "exec">>
         ELSE <<"init", "connect", "session", "handshake", "auth", "open">>

SetUpSteps == {SetUp[i] : i \in 1 .. Len(SetUp)}
Endings    == {"exit0", "exit1", "exit2", "exit3", "exit255", "crashed"}

\* Types; no client waits longer than its counter allows.
TypeOK ==
    /\ variant \in Variants
    /\ pc \in SetUpSteps \cup Endings
              \cup {"write", "read", "close", "free", "disconnect", "freeSession", "closeSock", "libExit"}
    /\ lib \in {"off", "on", "exited"} /\ sock \in {"none", "open", "closed"}
    /\ session \in {"none", "live", "disconnected", "freed"}
    /\ channel \in {"none", "open", "freed"}
    /\ wr \in 0 .. ReqLen /\ counter \in 0 .. MaxReads
    /\ printed \in Seq(1 .. AnsLen) /\ inbox \in Seq(1 .. AnsLen)
    /\ recv \in Seq(1 .. ReqLen) /\ out \in 0 .. AnsLen
    /\ eof \in BOOLEAN

Init ==
    /\ variant \in Variants
    /\ pc = "init"
    /\ lib = "off" /\ sock = "none" /\ session = "none" /\ channel = "none"
    /\ wr = 0 /\ counter = 0 /\ printed = << >> /\ inbox = << >>
    /\ recv = << >> /\ out = 0 /\ eof = FALSE

-----------------------------------------------------------------------------
(* The calls that set up session and channel, each with its error exit. *)

\* Where the shutdown: label leads.
Shutdown == IF variant = "tunnel" /\ channel' = "open" THEN "free" ELSE "disconnect"

SetUpOk(i) ==
    /\ pc = SetUp[i]
    /\ pc' = IF i < Len(SetUp) THEN SetUp[i + 1] ELSE "write"
    /\ lib' = IF pc = "init" THEN "on" ELSE lib
    /\ sock' = IF pc = "connect" THEN "open" ELSE sock
    /\ session' = IF pc = "session" THEN "live" ELSE session
    /\ channel' = IF pc = "open" THEN "open" ELSE channel
    /\ UNCHANGED <<variant, exchange, server>>

\* Mutant of SetUpFails: the goto after the failure to open the channel is missing.
SetUpFailsGoesOn ==
    /\ pc \in SetUpSteps
    /\ sock' = sock
    /\ UNCHANGED <<variant, lib, session, channel, exchange, server>>
    /\ pc' = CASE pc = "init"                                   -> "exit1"
               [] pc \in {"connect", "session", "handshake"}    -> "exit255"
               [] pc = "knownhosts"                             -> "exit2"
               [] pc = "hostkey"                                -> "exit3"
               [] pc = "auth"                                   -> Shutdown
               [] pc = "open"                                   -> "write"
               [] pc = "exec"                                   -> "exit1"

\* Only a failed authentication, and in the tunnel a failed channel, takes the way of
\* the shutdown: label; the other failures return or exit at once.  ssh-sample.c looks
\* at neither the fingerprint nor the list of methods before it reads them: either may
\* be NULL.
SetUpFails ==
    /\ pc \in SetUpSteps
    /\ sock' \in IF pc = "connect" THEN {"none", "open"} ELSE {sock}
    /\ UNCHANGED <<variant, lib, session, channel, exchange, server>>
    /\ \/ pc' = CASE pc = "init"                                   -> "exit1"
                  [] pc \in {"connect", "session", "handshake"}    -> "exit255"
                  [] pc = "knownhosts"                             -> "exit2"
                  [] pc = "hostkey"                                -> "exit3"
                  [] pc = "auth"                                   -> Shutdown
                  [] pc = "open"   -> IF variant = "exec" THEN "exit1" ELSE Shutdown
                  [] pc = "exec"                                   -> "exit1"
       \/ pc = "auth" /\ variant = "tunnel" /\ pc' = "crashed"

-----------------------------------------------------------------------------
(* The exchange *)

Positions(from, n) == [k \in 1 .. n |-> from + k]

\* Mutant of WriteSome: buf is written from its start at each call.
WriteFromStart ==
    /\ pc = "write"
    /\ \E n \in 1 .. ReqLen - wr :
          /\ wr' = wr + n
          /\ recv' = recv \o Positions(0, n)
    /\ pc' = IF wr' < ReqLen THEN "write" ELSE "read"
    /\ UNCHANGED <<resources, counter, printed, inbox, out, eof>>

\* libssh2_channel_write() takes n units of what is left.
WriteSome ==
    /\ pc = "write"
    /\ \E n \in 1 .. ReqLen - wr :
          /\ wr' = wr + n
          /\ recv' = recv \o Positions(wr, n)
    /\ pc' = IF wr' < ReqLen THEN "write" ELSE "read"
    /\ UNCHANGED <<resources, counter, printed, inbox, out, eof>>

WriteFails ==
    /\ pc = "write"
    /\ UNCHANGED <<resources, exchange, server>>
    /\ pc' = Shutdown

\* Where the client goes when it is done reading.
AfterReading == IF variant = "exec" THEN "close" ELSE Shutdown

\* Mutant of ReadNothing: one attempt too many.
ReadNothingOnceMore ==
    /\ pc = "read" /\ inbox = << >> /\ ~ eof
    /\ counter' = counter + 1
    /\ UNCHANGED <<resources, wr, printed, inbox, server>>
    /\ pc' = IF counter' <= MaxReads THEN "read" ELSE AfterReading

\* Nothing to read yet: EAGAIN.
ReadNothing ==
    /\ pc = "read" /\ inbox = << >> /\ ~ eof
    /\ counter' = counter + 1
    /\ UNCHANGED <<resources, wr, printed, inbox, server>>
    /\ pc' = IF counter' < MaxReads THEN "read" ELSE AfterReading

\* All that has arrived is read, copied to wbuffer and printed; the end of the channel
\* ends the client, and so does the first answer.
ReadSome ==
    /\ pc = "read" /\ (inbox # << >> \/ eof) /\ Len(inbox) < WBuffer
    /\ counter' = counter + 1
    /\ printed' = printed \o inbox
    /\ inbox' = << >>
    /\ UNCHANGED <<resources, wr, server>>
    /\ pc' = IF eof THEN Shutdown ELSE AfterReading

\* What has arrived, up to sizeof(buf) = 0x4000 bytes, is copied to wbuffer, however long
\* it is, and a NUL behind it: past the end of wbuffer this is undefined.  Some of it is
\* printed, or nothing; the client goes on, or crashes, here or in one of its last calls.
ReadOverflows ==
    /\ pc = "read" /\ Len(inbox) >= WBuffer
    /\ counter' = counter + 1
    /\ \E n \in 0 .. Len(inbox) : printed' = printed \o SubSeq(inbox, 1, n)
    /\ inbox' = << >>
    /\ UNCHANGED <<resources, wr, server>>
    /\ pc' \in {IF eof THEN Shutdown ELSE AfterReading, "crashed"}

\* Mutants of Read: EAGAIN is not counted; the end of the channel is looked for first.
ReadUncounted ==
    \/ /\ pc = "read" /\ inbox = << >> /\ ~ eof
       /\ UNCHANGED vars
    \/ ReadSome
    \/ ReadOverflows

ReadEofFirst ==
    \/ ReadNothing
    \/ (ReadSome \/ ReadOverflows) /\ ~ eof
    \/ /\ pc = "read" /\ eof
       /\ counter' = counter + 1
       /\ UNCHANGED <<resources, wr, printed, inbox, server>>
       /\ pc' = Shutdown

Read == ReadNothing \/ ReadSome \/ ReadOverflows

\* In ssh-sample-exec.c the result goes into a size_t: len < 0 is never true and
\* memcpy() is called with that length.
ReadFails ==
    /\ pc = "read"
    /\ counter' = counter + 1
    /\ UNCHANGED <<resources, wr, printed, inbox, server>>
    /\ pc' = IF variant = "exec" THEN "crashed" ELSE Shutdown

-----------------------------------------------------------------------------
(* The end *)

\* libssh2_channel_close() succeeds or fails: the client goes on.
CloseChannel ==
    /\ pc = "close"
    /\ pc' = "free"
    /\ UNCHANGED <<resources, exchange, server>>

\* From here on nobody looks at the results of the calls, and the session does not
\* block: each may have returned EAGAIN with its work undone.
FreeChannel ==
    /\ pc = "free"
    /\ channel' \in {"open", "freed"}
    /\ pc' = "disconnect"
    /\ UNCHANGED <<variant, lib, sock, session, exchange, server>>

Disconnect ==
    /\ pc = "disconnect"
    /\ session' \in {"live", "disconnected"}
    /\ pc' = "freeSession"
    /\ UNCHANGED <<variant, lib, sock, channel, exchange, server>>

FreeSession ==
    /\ pc = "freeSession"
    /\ session' \in {session, "freed"}
    /\ pc' = "closeSock"
    /\ UNCHANGED <<variant, lib, sock, channel, exchange, server>>

CloseSock ==
    /\ pc = "closeSock"
    /\ sock' = "closed"
    /\ pc' = "libExit"
    /\ UNCHANGED <<variant, lib, session, channel, exchange, server>>

LibExit ==
    /\ pc = "libExit"
    /\ lib' = "exited"
    /\ pc' = "exit0"
    /\ UNCHANGED <<variant, sock, session, channel, exchange, server>>

Ending == CloseChannel \/ FreeChannel \/ Disconnect \/ FreeSession \/ CloseSock \/ LibExit

-----------------------------------------------------------------------------
(* The server *)

ServerAnswers ==
    /\ Len(recv) = ReqLen /\ ~ eof
    /\ \E n \in 1 .. AnsLen - out :
          /\ out' = out + n
          /\ inbox' = inbox \o Positions(out, n)
    /\ UNCHANGED <<pc, resources, wr, counter, printed, recv, eof>>

\* It may close the channel when it has answered, or end before.
ServerCloses ==
    /\ ~ eof /\ channel = "open"
    /\ eof' = TRUE
    /\ UNCHANGED <<pc, resources, exchange, recv, out>>

SetUpCalls == \E i \in 1 .. Len(SetUp) : SetUpOk(i)

Next == SetUpCalls \/ SetUpFails \/ WriteSome \/ WriteFails \/ Read \/ ReadFails \/ Ending
        \/ ServerAnswers \/ ServerCloses

Spec == Init /\ [][Next]_vars

\* Each call is eventually made and does not return EAGAIN for ever; nothing is asked of
\* the server, whose answer may never come.
FairSpec == Spec /\ WF_vars(SetUpCalls) /\ WF_vars(WriteSome) /\ WF_vars(Read) /\ WF_vars(Ending)

-----------------------------------------------------------------------------

\* However the request was split over the calls of libssh2_channel_write() and however
\* often it returned EAGAIN, the server has it in order, without gaps and repetitions,
\* and all of it before the client reads (ssh-sample-exec.c:256-271).
RequestIntact ==
    /\ recv = Positions(0, wr)
    /\ pc \in {"read", "close"} => wr = ReqLen

\* The client uses its channel, its session and its socket only while it has them, on
\* every way the gotos to shutdown: take.
CallsValid ==
    /\ pc \in {"write", "read", "close", "free"} =>
           channel = "open" /\ session = "live" /\ sock = "open" /\ lib = "on"
    /\ pc \in {"disconnect", "freeSession"} =>
           session \in {"live", "disconnected"} /\ sock = "open" /\ lib = "on"

\* A client that stops reading, other than by a failing call, has printed all that the
\* server had sent by then, from its first unit on, in order and once, also when the
\* server closed the channel behind it, as the sample server of the README does
\* (ssh/README.md:28).  What wbuffer does not hold is excepted: it may be lost.
AnswerPrinted ==
    [][pc = "read" /\ pc' \in {"close", "free", "disconnect"} =>
           printed' = Positions(0, out) \/ Len(inbox) >= WBuffer \/ ReadFails]_vars

\* The client ends although the server never answers: it asks MaxReads times.
ClientEnds == <>(pc \in Endings)

\* "else if (len < 0) { ... goto shutdown; }" (ssh-sample-exec.c:290-293): a client whose
\* read fails shuts down, like one whose write fails.
ReadErrorShutsDown == [][ReadFails => pc' = Shutdown]_vars
=============================================================================

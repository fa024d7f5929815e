---------------------------- MODULE Clients_proofs ----------------------------
(***************************************************************************)
(* Proofs about the clients, for every length of request and answer, every *)
(* number of attempts to read, every number of database clients, and every *)
(* number of rounds, messages and conversations of pam_auth.               *)
(***************************************************************************)
EXTENDS Clients, SequenceTheorems, TLAPS

-----------------------------------------------------------------------------
(* SshRequest: the sequences of positions *)

\* n positions are a sequence of length n.
LEMMA PositionsType ==
    ASSUME NEW from \in Nat, NEW n \in Nat, NEW bound \in Nat, from + n <= bound
    PROVE  /\ Positions(from, n) \in Seq(1 .. bound)
           /\ Len(Positions(from, n)) = n
<1>1. \A k \in 1 .. n : from + k \in 1 .. bound
    OBVIOUS
<1>2. Positions(from, n) \in [1 .. n -> 1 .. bound]
    BY <1>1 DEF Positions
<1> QED  BY <1>2

\* The members of a concatenation.
LEMMA ConcatAt ==
    ASSUME NEW S, NEW s \in Seq(S), NEW t \in Seq(S), NEW k \in 1 .. Len(s) + Len(t)
    PROVE  (s \o t)[k] = IF k <= Len(s) THEN s[k] ELSE t[k - Len(s)]
OBVIOUS

\* Sequences are equal when their lengths and members are.
LEMMA SameSequence ==
    ASSUME NEW S, NEW s \in Seq(S), NEW t \in Seq(S), Len(s) = Len(t),
           \A k \in 1 .. Len(s) : s[k] = t[k]
    PROVE  s = t
<1>1. DOMAIN s = 1 .. Len(s) /\ DOMAIN t = 1 .. Len(s)
    OBVIOUS
<1>2. s = [k \in 1 .. Len(s) |-> s[k]] /\ t = [k \in 1 .. Len(s) |-> t[k]]
    BY <1>1
<1> QED  BY <1>2

\* What comes after the first wr positions continues them.
LEMMA PositionsContinue ==
    ASSUME NEW done \in Nat, NEW n \in Nat
    PROVE  Positions(0, done) \o Positions(done, n) = Positions(0, done + n)
<1> DEFINE left == Positions(0, done)
           right == Positions(done, n)
           both == Positions(0, done + n)
<1>1. left \in Seq(1 .. done + n) /\ Len(left) = done
      /\ right \in Seq(1 .. done + n) /\ Len(right) = n
      /\ both \in Seq(1 .. done + n) /\ Len(both) = done + n
    BY PositionsType
<1>2. \A k \in 1 .. done : left[k] = k
    BY DEF Positions
<1>3. \A k \in 1 .. n : right[k] = done + k
    BY DEF Positions
<1>4. \A k \in 1 .. done + n : both[k] = k
    BY DEF Positions
<1> HIDE DEF left, right, both
<1>5. left \o right \in Seq(1 .. done + n) /\ Len(left \o right) = done + n
    BY <1>1
<1>6. ASSUME NEW k \in 1 .. done + n
      PROVE  (left \o right)[k] = both[k]
  <2>1. CASE k <= done
    <3>1. k \in 1 .. Len(left)
        BY <1>1, <2>1
    <3>2. (left \o right)[k] = left[k]
        BY <1>1, <3>1, ConcatAt
    <3> QED  BY <1>1, <1>2, <1>4, <3>1, <3>2
  <2>2. CASE k > done
    <3>1. k - done \in 1 .. n /\ done + (k - done) = k
        BY <2>2
    <3>2. k \in 1 .. Len(left) + Len(right) /\ ~ (k <= Len(left))
        BY <1>1, <2>2
    <3>3. (left \o right)[k] = right[k - Len(left)]
        BY <1>1, <3>2, ConcatAt
    <3>4. right[k - done] = done + (k - done)
        BY <1>3, <3>1
    <3>5. both[k] = k
        BY <1>4
    <3>6. right[k - Len(left)] = right[k - done]
        BY <1>1
    <3>7. right[k - done] = k
        BY <3>1, <3>4
    <3> QED  BY <3>3, <3>5, <3>6, <3>7
  <2>3. k <= done \/ k > done
      OBVIOUS
  <2> QED  BY <2>1, <2>2, <2>3
<1>7. left \o right = both
    BY <1>1, <1>5, <1>6, SameSequence
<1> QED  BY <1>7 DEF left, right, both

-----------------------------------------------------------------------------
(* SshRequest: the order of the calls that set up session and channel *)

NextCall(i) == IF i < Len(SetUp) THEN SetUp[i + 1] ELSE "write"

\* The order of the calls, in both clients.
LEMMA SetUpOrder ==
    ASSUME variant \in {"exec", "tunnel"}, NEW i \in 1 .. Len(SetUp)
    PROVE  /\ NextCall(i) \in SetUpSteps \cup {"write"}
           /\ \/ SetUp[i] = "init" /\ NextCall(i) = "connect"
              \/ SetUp[i] = "connect" /\ NextCall(i) = "session"
              \/ SetUp[i] = "session" /\ NextCall(i) = "handshake"
              \/ SetUp[i] = "handshake" /\ NextCall(i) \in {"knownhosts", "auth"}
              \/ SetUp[i] = "knownhosts" /\ NextCall(i) = "hostkey"
              \/ SetUp[i] = "hostkey" /\ NextCall(i) = "auth"
              \/ SetUp[i] = "auth" /\ NextCall(i) = "open"
              \/ SetUp[i] = "open" /\ NextCall(i) \in {"exec", "write"}
              \/ SetUp[i] = "exec" /\ NextCall(i) = "write"
<1>1. NextCall(i) \in SetUpSteps \cup {"write"}
  <2>1. CASE i < Len(SetUp)
    <3>1. Len(SetUp) \in Nat
        BY DEF SetUp
    <3>2. i + 1 \in 1 .. Len(SetUp)
        BY <3>1, <2>1
    <3> QED  BY <3>2, <2>1 DEF NextCall, SetUpSteps
  <2> QED  BY <2>1 DEF NextCall
<1>2. CASE variant = "exec"
  <2>1. Len(SetUp) = 9
      BY <1>2 DEF SetUp
  <2>2. /\ SetUp[1] = "init" /\ SetUp[2] = "connect" /\ SetUp[3] = "session"
        /\ SetUp[4] = "handshake" /\ SetUp[5] = "knownhosts" /\ SetUp[6] = "hostkey"
        /\ SetUp[7] = "auth" /\ SetUp[8] = "open" /\ SetUp[9] = "exec"
      BY <1>2 DEF SetUp
  <2>3. i \in 1 .. 9
      BY <2>1
  <2> QED  BY <1>1, <2>1, <2>2, <2>3 DEF NextCall
<1>3. CASE variant = "tunnel"
  <2>1. Len(SetUp) = 6
      BY <1>3 DEF SetUp
  <2>2. /\ SetUp[1] = "init" /\ SetUp[2] = "connect" /\ SetUp[3] = "session"
        /\ SetUp[4] = "handshake" /\ SetUp[5] = "auth" /\ SetUp[6] = "open"
      BY <1>3 DEF SetUp
  <2>3. i \in 1 .. 6
      BY <2>1
  <2> QED  BY <1>1, <2>1, <2>2, <2>3 DEF NextCall
<1> QED  BY <1>2, <1>3

\* Every client makes the calls "auth" and "open" and starts with "init".
LEMMA SetUpMembers ==
    ASSUME variant \in {"exec", "tunnel"}
    PROVE  /\ "init" \in SetUpSteps
           /\ SetUpSteps \subseteq {"init", "connect", "session", "handshake", "knownhosts",
                                    "hostkey", "auth", "open", "exec"}
<1>1. Len(SetUp) \in Nat /\ Len(SetUp) >= 1 /\ SetUp[1] = "init"
    BY DEF SetUp
<1>2. "init" \in SetUpSteps
    BY <1>1 DEF SetUpSteps
<1>3. \A i \in 1 .. Len(SetUp) : SetUp[i] \in {"init", "connect", "session", "handshake",
          "knownhosts", "hostkey", "auth", "open", "exec"}
    BY SetUpOrder
<1> QED  BY <1>2, <1>3 DEF SetUpSteps

-----------------------------------------------------------------------------
(* SshRequest: the inductive invariant *)

\* What the client holds at each of its calls.
Holds ==
    /\ pc \in {"connect", "session", "handshake", "knownhosts", "hostkey", "auth", "open",
               "exec", "write", "read", "close", "free", "disconnect", "freeSession"} => lib = "on"
    /\ pc \in {"session", "handshake", "knownhosts", "hostkey", "auth", "open", "exec",
               "write", "read", "close", "free", "disconnect", "freeSession"} => sock = "open"
    /\ pc \in {"handshake", "knownhosts", "hostkey", "auth", "open", "exec", "write", "read",
               "close", "free", "disconnect"} => session = "live"
    /\ pc = "freeSession" => session \in {"live", "disconnected"}
    /\ pc \in {"exec", "write", "read", "close", "free"} => channel = "open"

\* How far the exchange is.
Progress ==
    /\ RequestIntact
    /\ pc \in {"init", "connect", "session", "handshake", "knownhosts", "hostkey", "auth",
               "open", "exec", "write", "read"} => counter < MaxReads

RequestInv == TypeOK /\ Holds /\ Progress

\* Where the way of the shutdown: label leads.
LEMMA ShutdownLeads ==
    /\ Shutdown \in {"free", "disconnect"}
    /\ Shutdown = "free" => channel' = "open"
BY DEF Shutdown

LEMMA RequestInit == Init => RequestInv
<1> SUFFICES ASSUME Init PROVE RequestInv
    OBVIOUS
<1>1. variant \in {"exec", "tunnel"}
    BY VariantsAssumption DEF Init
<1>2. "init" \in SetUpSteps
    BY <1>1, SetUpMembers
<1>3. ReqLen \in Nat /\ AnsLen \in Nat /\ MaxReads \in Nat
    BY SizesAssumption
<1>4. << >> \in Seq(1 .. AnsLen) /\ << >> \in Seq(1 .. ReqLen)
    OBVIOUS
<1>5. TypeOK
  <2>1. wr \in 0 .. ReqLen /\ counter \in 0 .. MaxReads /\ out \in 0 .. AnsLen
      BY <1>3 DEF Init
  <2>2. printed \in Seq(1 .. AnsLen) /\ inbox \in Seq(1 .. AnsLen) /\ recv \in Seq(1 .. ReqLen)
      BY <1>4 DEF Init
  <2> QED  BY <1>2, <2>1, <2>2 DEF Init, TypeOK
<1>6. Holds
    BY DEF Init, Holds
<1>7. Positions(0, 0) \in Seq(1 .. 0) /\ Len(Positions(0, 0)) = 0
    BY PositionsType
<1>8. recv = Positions(0, wr)
    BY <1>7 DEF Init
<1>9. counter < MaxReads
    BY SizesAssumption DEF Init
<1> QED  BY <1>5, <1>6, <1>8, <1>9 DEF Init, RequestInv, Progress, RequestIntact

LEMMA RequestStep == RequestInv /\ [Next]_vars => RequestInv'
<1> SUFFICES ASSUME RequestInv, [Next]_vars PROVE RequestInv'
    OBVIOUS
<1>0. ReqLen \in Nat /\ AnsLen \in Nat /\ MaxReads \in Nat /\ MaxReads > 0
    BY SizesAssumption
<1>v. variant \in {"exec", "tunnel"}
    BY VariantsAssumption DEF RequestInv, TypeOK
<1>1. ASSUME NEW i \in 1 .. Len(SetUp), SetUpOk(i) PROVE RequestInv'
  <2>1. pc = SetUp[i] /\ pc' = NextCall(i)
      BY <1>1 DEF SetUpOk, NextCall
  <2>2. variant' = variant /\ SetUpSteps' = SetUpSteps
      BY <1>1 DEF SetUpOk, SetUpSteps, SetUp
  <2>3. pc' \in SetUpSteps' \cup {"write"}
      BY <1>v, <2>1, <2>2, SetUpOrder
  <2>4. TypeOK'
      BY <1>1, <2>2, <2>3 DEF RequestInv, TypeOK, SetUpOk, exchange, server
  <2>5. Holds'
      BY <1>1, <1>v, <2>1, SetUpOrder DEF RequestInv, Holds, SetUpOk
  <2>6. pc' \notin {"read", "close"}
      BY <1>v, <2>1, SetUpOrder
  <2>7. Progress'
      BY <1>1, <1>v, <2>1, <2>6, SetUpOrder DEF RequestInv, Progress, RequestIntact, SetUpOk, exchange, server
  <2> QED  BY <2>4, <2>5, <2>7 DEF RequestInv
<1>2. CASE SetUpFails
  <2>1. variant' = variant /\ SetUpSteps' = SetUpSteps
      BY <1>2 DEF SetUpFails, SetUpSteps, SetUp
  <2>2. pc \in {"init", "connect", "session", "handshake", "knownhosts", "hostkey", "auth",
                "open", "exec"}
      BY <1>2, <1>v, SetUpMembers DEF SetUpFails
  <2>3. /\ pc' \in {"exit1", "exit255", "exit2", "exit3", "free", "disconnect", "crashed"}
        /\ pc' = "free" => channel' = "open" /\ pc \in {"auth", "open"}
        /\ pc' = "disconnect" => pc \in {"auth", "open"}
      BY <1>2, <2>2, ShutdownLeads DEF SetUpFails
  <2>4. TypeOK'
      BY <1>2, <2>1, <2>3 DEF RequestInv, TypeOK, SetUpFails, exchange, server, Endings
  <2>5. Holds'
      BY <1>2, <2>3 DEF RequestInv, Holds, SetUpFails
  <2>6. Progress'
      BY <1>2, <2>3 DEF RequestInv, Progress, RequestIntact, SetUpFails, exchange, server
  <2> QED  BY <2>4, <2>5, <2>6 DEF RequestInv
<1>3. CASE WriteSome
  <2>1. PICK n \in 1 .. ReqLen - wr : wr' = wr + n /\ recv' = recv \o Positions(wr, n)
      BY <1>3 DEF WriteSome
  <2>2. wr \in Nat /\ n \in Nat /\ wr + n <= ReqLen /\ wr + n \in 0 .. ReqLen
      BY <1>0, <2>1 DEF RequestInv, TypeOK
  <2>3. recv' = Positions(0, wr')
      BY <2>1, <2>2, PositionsContinue DEF RequestInv, Progress, RequestIntact
  <2>4. recv' \in Seq(1 .. ReqLen)
      BY <1>0, <2>1, <2>2, <2>3, PositionsType
  <2>5. pc' \in {"write", "read"} /\ (pc' = "read" => wr' = ReqLen)
      BY <1>3, <1>0, <2>1, <2>2 DEF WriteSome
  <2>6. SetUpSteps' = SetUpSteps
      BY <1>3 DEF WriteSome, resources, SetUpSteps, SetUp
  <2>7. TypeOK'
      BY <1>3, <2>1, <2>2, <2>4, <2>5, <2>6 DEF RequestInv, TypeOK, WriteSome, resources
  <2>8. Holds'
      BY <1>3, <2>5 DEF RequestInv, Holds, WriteSome, resources
  <2>9. Progress'
    <3>1. counter' < MaxReads
        BY <1>3 DEF RequestInv, Progress, WriteSome
    <3> QED  BY <2>3, <2>5, <3>1 DEF Progress, RequestIntact
  <2> QED  BY <2>7, <2>8, <2>9 DEF RequestInv
<1>4. CASE WriteFails \/ ReadFails
  <2>1. UNCHANGED <<variant, lib, sock, session, channel, wr, printed, inbox, recv, out, eof>>
      BY <1>4 DEF WriteFails, ReadFails, resources, exchange, server
  <2>a. counter' \in 0 .. MaxReads
    <3>1. CASE WriteFails
        BY <3>1 DEF RequestInv, TypeOK, WriteFails, exchange
    <3>2. CASE ReadFails
      <4>1. counter' = counter + 1 /\ counter < MaxReads /\ counter \in 0 .. MaxReads
          BY <3>2 DEF RequestInv, TypeOK, Progress, ReadFails
      <4> QED  BY <4>1, <1>0
    <3> QED  BY <1>4, <3>1, <3>2
  <2>2. pc \in {"write", "read"} /\ pc' \in {"crashed", "free", "disconnect"}
      BY <1>4, ShutdownLeads DEF WriteFails, ReadFails
  <2>3. SetUpSteps' = SetUpSteps
      BY <2>1 DEF SetUpSteps, SetUp
  <2>4. TypeOK'
      BY <2>1, <2>a, <2>2, <2>3 DEF RequestInv, TypeOK, Endings
  <2>5. Holds'
      BY <2>1, <2>2 DEF RequestInv, Holds
  <2>6. Progress'
      BY <2>1, <2>2 DEF RequestInv, Progress, RequestIntact
  <2> QED  BY <2>4, <2>5, <2>6 DEF RequestInv
<1>5. CASE Read
  <2>1. UNCHANGED <<variant, lib, sock, session, channel, wr, recv, out, eof>>
      BY <1>5 DEF Read, ReadNothing, ReadSome, ReadOverflows, resources, server
  <2>2. pc = "read" /\ counter' = counter + 1
      BY <1>5 DEF Read, ReadNothing, ReadSome, ReadOverflows
  <2>3. counter < MaxReads /\ counter \in 0 .. MaxReads /\ wr = ReqLen
      BY <2>2 DEF RequestInv, TypeOK, Progress, RequestIntact
  <2>4. counter' \in 0 .. MaxReads
      BY <1>0, <2>2, <2>3
  <2>5. /\ pc' \in {"read", "close", "free", "disconnect", "crashed"}
        /\ pc' = "read" => counter' < MaxReads
      BY <1>5, ShutdownLeads DEF Read, ReadNothing, ReadSome, ReadOverflows, AfterReading
  <2>6. printed' \in Seq(1 .. AnsLen) /\ inbox' \in Seq(1 .. AnsLen)
    <3>1. << >> \in Seq(1 .. AnsLen)
        OBVIOUS
    <3>2. printed \in Seq(1 .. AnsLen) /\ inbox \in Seq(1 .. AnsLen)
        BY DEF RequestInv, TypeOK
    <3>3. printed \o inbox \in Seq(1 .. AnsLen)
        BY <3>2
    <3>4. ASSUME NEW n \in 0 .. Len(inbox) PROVE printed \o SubSeq(inbox, 1, n) \in Seq(1 .. AnsLen)
      <4>1. Len(inbox) \in Nat
          BY <3>2
      <4>3. \A k \in 1 .. Len(inbox) : inbox[k] \in 1 .. AnsLen
          BY <3>2, ElementOfSeq
      <4>4. \A k \in 1 .. n : k \in 1 .. Len(inbox)
          BY <4>1, <3>4
      <4>2. SubSeq(inbox, 1, n) \in Seq(1 .. AnsLen)
          BY <3>2, <3>4, <4>3, <4>4
      <4> QED  BY <3>2, <4>2
    <3>5. CASE ReadOverflows
        BY <3>5, <3>1, <3>4 DEF ReadOverflows
    <3> QED  BY <1>5, <3>1, <3>2, <3>3, <3>5 DEF Read, ReadNothing, ReadSome
  <2>7. SetUpSteps' = SetUpSteps
      BY <2>1 DEF SetUpSteps, SetUp
  <2>8. TypeOK'
      BY <2>1, <2>4, <2>5, <2>6, <2>7 DEF RequestInv, TypeOK, Endings
  <2>9. Holds'
      BY <2>1, <2>2, <2>5 DEF RequestInv, Holds
  <2>10. Progress'
      BY <2>1, <2>2, <2>3, <2>5 DEF RequestInv, Progress, RequestIntact
  <2> QED  BY <2>8, <2>9, <2>10 DEF RequestInv
<1>6. CASE Ending
  <2>1. UNCHANGED <<variant, wr, counter, printed, inbox, recv, out, eof>>
      BY <1>6 DEF Ending, CloseChannel, FreeChannel, Disconnect, FreeSession, CloseSock, LibExit,
                  resources, exchange, server
  <2>2. SetUpSteps' = SetUpSteps
      BY <2>1 DEF SetUpSteps, SetUp
  <2>3. TypeOK'
      BY <1>6, <2>1, <2>2 DEF RequestInv, TypeOK, Endings, Ending, CloseChannel, FreeChannel,
                              Disconnect, FreeSession, CloseSock, LibExit, resources
  <2>4. Holds'
      BY <1>6 DEF RequestInv, Holds, Ending, CloseChannel, FreeChannel, Disconnect, FreeSession,
                  CloseSock, LibExit, resources
  <2>5. pc' \in {"free", "disconnect", "freeSession", "closeSock", "libExit", "exit0"}
      BY <1>6 DEF Ending, CloseChannel, FreeChannel, Disconnect, FreeSession, CloseSock, LibExit
  <2>6. Progress'
      BY <2>1, <2>5 DEF RequestInv, Progress, RequestIntact
  <2> QED  BY <2>3, <2>4, <2>6 DEF RequestInv
<1>7. CASE ServerAnswers
  <2>1. PICK n \in 1 .. AnsLen - out : out' = out + n /\ inbox' = inbox \o Positions(out, n)
      BY <1>7 DEF ServerAnswers
  <2>2. out \in Nat /\ n \in Nat /\ out + n <= AnsLen /\ out + n \in 0 .. AnsLen
      BY <1>0, <2>1 DEF RequestInv, TypeOK
  <2>3. Positions(out, n) \in Seq(1 .. AnsLen)
      BY <1>0, <2>2, PositionsType
  <2>4. inbox' \in Seq(1 .. AnsLen)
      BY <2>1, <2>3 DEF RequestInv, TypeOK
  <2>5. SetUpSteps' = SetUpSteps
      BY <1>7 DEF ServerAnswers, resources, SetUpSteps, SetUp
  <2>6. TypeOK'
      BY <1>7, <2>1, <2>2, <2>4, <2>5 DEF RequestInv, TypeOK, ServerAnswers, resources
  <2>7. Holds' /\ Progress'
      BY <1>7 DEF RequestInv, Holds, Progress, RequestIntact, ServerAnswers, resources
  <2> QED  BY <2>6, <2>7 DEF RequestInv
<1>8. CASE ServerCloses
  <2>1. SetUpSteps' = SetUpSteps
      BY <1>8 DEF ServerCloses, resources, SetUpSteps, SetUp
  <2>2. TypeOK'
      BY <1>8, <2>1 DEF RequestInv, TypeOK, ServerCloses, resources, exchange
  <2>3. Holds' /\ Progress'
      BY <1>8 DEF RequestInv, Holds, Progress, RequestIntact, ServerCloses, resources, exchange
  <2> QED  BY <2>2, <2>3 DEF RequestInv
<1>9. CASE UNCHANGED vars
  <2>1. UNCHANGED <<pc, variant, lib, sock, session, channel, wr, counter, printed, inbox, recv,
                    out, eof>>
      BY <1>9 DEF vars, resources, exchange, server
  <2>2. SetUpSteps' = SetUpSteps
      BY <2>1 DEF SetUpSteps, SetUp
  <2>3. TypeOK'
      BY <2>1, <2>2 DEF RequestInv, TypeOK
  <2>4. Holds' /\ Progress'
      BY <2>1 DEF RequestInv, Holds, Progress, RequestIntact
  <2> QED  BY <2>3, <2>4 DEF RequestInv
<1> QED
    BY <1>1, <1>2, <1>3, <1>4, <1>5, <1>6, <1>7, <1>8, <1>9 DEF Next, SetUpCalls

THEOREM RequestInvariant == Spec => []RequestInv
BY RequestInit, RequestStep, PTL DEF Spec

\* No client waits longer than its counter allows, whatever the lengths
\* (ssh-sample-exec.c, ssh-sample.c).
THEOREM RequestTypeCorrect == Spec => []TypeOK
<1>1. RequestInv => TypeOK
    BY DEF RequestInv
<1> QED  BY <1>1, RequestInvariant, PTL

\* However a request of any length is split over the calls of libssh2_channel_write(), the
\* server has it in order, without gaps and repetitions, and all of it before the client
\* reads (ssh-sample-exec.c:256-271).
THEOREM RequestArrives == Spec => []RequestIntact
<1>1. RequestInv => RequestIntact
    BY DEF RequestInv, Progress
<1> QED  BY <1>1, RequestInvariant, PTL

\* The client uses its channel, its session and its socket only while it has them, on every
\* way the gotos to shutdown: take.
THEOREM CallsAreValid == Spec => []CallsValid
<1>1. RequestInv => CallsValid
    BY DEF RequestInv, Holds, CallsValid
<1> QED  BY <1>1, RequestInvariant, PTL

\* Until it reads, the client has printed nothing, and libssh2 holds what the server has
\* sent.
AllInInbox ==
    pc \in {"init", "connect", "session", "handshake", "knownhosts", "hostkey", "auth",
            "open", "exec", "write", "read"} => printed = << >> /\ inbox = Positions(0, out)

LEMMA AllInInboxInit == Init => AllInInbox
<1>1. Positions(0, 0) \in Seq(1 .. 0) /\ Len(Positions(0, 0)) = 0
    BY PositionsType
<1> QED  BY <1>1 DEF Init, AllInInbox

LEMMA AllInInboxStep == RequestInv /\ AllInInbox /\ [Next]_vars => AllInInbox'
<1> SUFFICES ASSUME RequestInv, AllInInbox, [Next]_vars PROVE AllInInbox'
    OBVIOUS
<1>0. variant \in {"exec", "tunnel"}
    BY VariantsAssumption DEF RequestInv, TypeOK
<1>1. CASE SetUpCalls \/ SetUpFails
  <2>1. UNCHANGED <<printed, inbox, out>>
      BY <1>1 DEF SetUpCalls, SetUpOk, SetUpFails, exchange, server
  <2>2. \A i \in 1 .. Len(SetUp) : SetUp[i] \in {"init", "connect", "session", "handshake",
            "knownhosts", "hostkey", "auth", "open", "exec"}
      BY <1>0, SetUpOrder
  <2>3. pc \in {"init", "connect", "session", "handshake", "knownhosts", "hostkey", "auth",
                "open", "exec"}
      BY <1>0, <1>1, <2>2, SetUpMembers DEF SetUpCalls, SetUpOk, SetUpFails
  <2> QED  BY <2>1, <2>3 DEF AllInInbox
<1>2. CASE WriteSome \/ ReadNothing
    BY <1>2 DEF AllInInbox, WriteSome, ReadNothing, server
<1>3. CASE WriteFails \/ ReadFails \/ ReadSome \/ ReadOverflows \/ Ending
  <2>1. pc' \notin {"init", "connect", "session", "handshake", "knownhosts", "hostkey", "auth",
                    "open", "exec", "write", "read"}
      BY <1>3, ShutdownLeads DEF WriteFails, ReadFails, ReadSome, ReadOverflows, AfterReading,
         Ending, CloseChannel, FreeChannel, Disconnect, FreeSession, CloseSock, LibExit
  <2> QED  BY <2>1 DEF AllInInbox
<1>4. CASE ServerAnswers
  <2>1. PICK n \in 1 .. AnsLen - out : out' = out + n /\ inbox' = inbox \o Positions(out, n)
      BY <1>4 DEF ServerAnswers
  <2>2. out \in Nat /\ n \in Nat
      BY SizesAssumption, <2>1 DEF RequestInv, TypeOK
  <2>3. inbox = Positions(0, out) => inbox' = Positions(0, out')
      BY <2>1, <2>2, PositionsContinue
  <2> QED  BY <1>4, <2>3 DEF AllInInbox, ServerAnswers
<1>5. CASE ServerCloses \/ UNCHANGED vars
    BY <1>5 DEF AllInInbox, ServerCloses, vars, exchange, server
<1> QED  BY <1>1, <1>2, <1>3, <1>4, <1>5 DEF Next, Read

\* A client that stops reading, other than by a failing call, has printed all that the
\* server had sent by then, in order and once, also when the server closed the channel
\* behind it (ssh/README.md:28); except for an answer that wbuffer does not hold, which
\* the code copies past the end of it.
THEOREM AllIsPrinted == Spec => AnswerPrinted
<1> DEFINE Printed == pc = "read" /\ pc' \in {"close", "free", "disconnect"} =>
                          printed' = Positions(0, out) \/ Len(inbox) >= WBuffer \/ ReadFails
<1>1. RequestInv /\ AllInInbox /\ [Next]_vars => [Printed]_vars
  <2> SUFFICES ASSUME RequestInv, AllInInbox, Next, pc = "read", pc' # "read"
               PROVE  printed' = Positions(0, out) \/ Len(inbox) >= WBuffer \/ ReadFails
      BY DEF vars
  <2>1. printed = << >> /\ inbox = Positions(0, out)
      BY DEF AllInInbox
  <2>2. CASE ReadSome
    <3>1. << >> \o inbox = inbox
        BY DEF RequestInv, TypeOK
    <3> QED  BY <2>1, <2>2, <3>1 DEF ReadSome
  <2>3. CASE ReadNothing
      BY <2>1, <2>3 DEF ReadNothing
  <2>4. CASE ReadOverflows
      BY <2>4 DEF ReadOverflows
  <2>5. CASE ~ (Read \/ ReadFails)
    <3>1. variant \in {"exec", "tunnel"}
        BY VariantsAssumption DEF RequestInv, TypeOK
    <3>2. ~ SetUpCalls /\ ~ SetUpFails
      <4>1. \A i \in 1 .. Len(SetUp) : SetUp[i] # "read"
          BY <3>1, SetUpOrder
      <4> QED  BY <3>1, <4>1, SetUpMembers DEF SetUpCalls, SetUpOk, SetUpFails
    <3>3. pc' = "read"
        BY <2>5, <3>2 DEF Next, WriteSome, WriteFails, Ending, CloseChannel, FreeChannel, Disconnect,
           FreeSession, CloseSock, LibExit, ServerAnswers, ServerCloses
    <3> QED  BY <3>3
  <2> QED  BY <2>2, <2>3, <2>4, <2>5 DEF Read
<1>2. RequestInv /\ AllInInbox /\ [Next]_vars => RequestInv' /\ AllInInbox'
    BY RequestStep, AllInInboxStep
<1> QED  BY <1>1, <1>2, RequestInit, AllInInboxInit, PTL DEF Spec, AnswerPrinted

-----------------------------------------------------------------------------
(* MySqlQuery: the script and the answers of the server *)

LEMMA ScriptIs ==
    /\ Len(Sql!Script) = 5
    /\ Sql!Script[1] = "show" /\ Sql!Script[2] = "dropIfExists" /\ Sql!Script[3] = "create"
    /\ Sql!Script[4] = "call" /\ Sql!Script[5] = "drop"
BY DEF Sql!Script

\* What a statement of the script, or a prepared one, sends back.
LEMMA AnswersAre ==
    ASSUME NEW what \in {"show", "dropIfExists", "create", "call", "drop", "prepared"},
           NEW answer \in Sql!Answers(what)
    PROVE  /\ answer \in Seq(Sql!Result) /\ Len(answer) \in {1, 2} /\ answer[1] \in Sql!Result
           /\ what = "show" => Len(answer) = 1 /\ answer[1].rows = 1 /\ answer[1].fields = 2
           /\ what = "call" => Len(answer) = 2 /\ answer[1].fields = 3 /\ answer[2] = Sql!Status
           /\ what \in {"dropIfExists", "create", "drop"} => answer = <<Sql!Status>>
<1>1. Sql!Status \in Sql!Result /\ Sql!Status.rows = 0 /\ Sql!Status.fields = 0
    BY DEF Sql!Status, Sql!Result
<1>2. CASE what = "show"
  <2>1. PICK k \in BOOLEAN : answer = <<[rows |-> 1, fields |-> 2, known |-> k]>>
      BY <1>2 DEF Sql!Answers
  <2>2. [rows |-> 1, fields |-> 2, known |-> k] \in Sql!Result
      BY DEF Sql!Result
  <2> QED  BY <1>2, <2>1, <2>2
<1>3. CASE what = "call"
  <2>1. PICK n \in UserRows : answer = <<[rows |-> n, fields |-> 3, known |-> FALSE], Sql!Status>>
      BY <1>3 DEF Sql!Answers
  <2>2. [rows |-> n, fields |-> 3, known |-> FALSE] \in Sql!Result
      BY ClientsAssumption DEF Sql!Result
  <2> HIDE DEF Sql!Status
  <2> QED  BY <1>1, <1>3, <2>1, <2>2
<1>4. CASE what = "prepared"
  <2>1. PICK n \in UserRows :
            LET first == [rows |-> n, fields |-> 2, known |-> FALSE]
            IN  answer = <<first>> \/ answer = <<first, Sql!Status>>
      BY <1>4 DEF Sql!Answers
  <2> DEFINE first == [rows |-> n, fields |-> 2, known |-> FALSE]
  <2>2. first \in Sql!Result
      BY ClientsAssumption DEF Sql!Result
  <2>3. answer = <<first>> \/ answer = <<first, Sql!Status>>
      BY <2>1
  <2> HIDE DEF first
  <2>4. ASSUME answer = <<first>> PROVE answer \in Seq(Sql!Result) /\ Len(answer) = 1
      BY <2>2, <2>4
  <2>5. ASSUME answer = <<first, Sql!Status>>
        PROVE  answer \in Seq(Sql!Result) /\ Len(answer) = 2
    <3>1. <<first, Sql!Status>> \in Seq(Sql!Result)
        BY <1>1, <2>2
    <3> QED  BY <2>5, <3>1
  <2>6. answer[1] = first
      BY <2>3
  <2> QED  BY <1>4, <2>2, <2>3, <2>4, <2>5, <2>6
<1>5. CASE what \in {"dropIfExists", "create", "drop"}
  <2>1. answer = <<Sql!Status>>
      BY <1>5 DEF Sql!Answers
  <2> QED  BY <1>1, <1>5, <2>1
<1> QED  BY <1>2, <1>3, <1>4, <1>5

-----------------------------------------------------------------------------
(* MySqlQuery: the inductive invariant *)

\* Where a run has results to read, and where it has read them all.
Unread(r) ==
    /\ sqlPc[r] \in {"config", "connect", "query", "check", "stmtInit", "prepare", "execute",
                     "closeStmt"} => results[r] = << >>
    /\ sqlPc[r] \in {"store", "metadata", "bind", "fetch", "freeResult"} => results[r] # << >>

\* What a run of testMySqlRealQuery, to which nothing has happened, is about to read.
Coming(r) ==
    /\ Sql!Script[stmt[r]] = "show" =>
           results[r] = <<results[r][1]>> /\ results[r][1].rows = 1 /\ results[r][1].fields = 2
           /\ results[r][1].known
    /\ Sql!Script[stmt[r]] = "call" =>
           \/ Len(results[r]) = 2 /\ results[r][1].rows >= 1 /\ results[r][1].fields = 3
              /\ results[r][2] = Sql!Status
           \/ results[r] = <<Sql!Status>> /\ numRows[r] >= 1 /\ numFields[r] = 3
    /\ Sql!Script[stmt[r]] \notin {"show", "call"} =>
           results[r] = <<Sql!Status>> /\ numRows[r] = 0 /\ numFields[r] = 0

\* The server has the procedure when such a run counts on it, and not when it creates it.
Procedure(r) ==
    /\ \/ stmt[r] = 2 /\ sqlPc[r] \in {"store", "check"}
       \/ stmt[r] = 3 /\ sqlPc[r] = "query"
       => ~ proc
    /\ \/ stmt[r] = 3 /\ sqlPc[r] \in {"store", "check"}
       \/ stmt[r] = 4 /\ sqlPc[r] \in {"query", "store", "check"}
       \/ stmt[r] = 5 /\ sqlPc[r] = "query"
       => proc

Undisturbed(r) ==
    ~ fault[r] /\ ~ clash[r] =>
        /\ Procedure(r)
        /\ program[r] # "realQuery" => stmt[r] = 1 /\ sqlPc[r] # "check"
        /\ program[r] = "realQuery" /\ sqlPc[r] = "store" => Coming(r)
        /\ sqlPc[r] = "check" => Sql!AsExpected(r)
        /\ sqlPc[r] = "exit1" => conn[r] = "none"

Unconnected(r) == sqlPc[r] \in {"config", "connect"} => conn[r] = "none" /\ stmt[r] = 1

SqlInv ==
    /\ Sql!TypeOK
    /\ \A r \in Runs : Unread(r) /\ Unconnected(r) /\ Undisturbed(r)

LEMMA SqlInit == Sql!Init => SqlInv
<1> SUFFICES ASSUME Sql!Init PROVE SqlInv
    OBVIOUS
<1>1. << >> \in Seq(Sql!Result)
    OBVIOUS
<1>2. Sql!TypeOK
    BY <1>1, ScriptIs DEF Sql!Init, Sql!TypeOK
<1>3. ASSUME NEW r \in Runs PROVE Unread(r) /\ Unconnected(r) /\ Undisturbed(r)
  <2>1. /\ sqlPc[r] \in {"config", "connect"} /\ conn[r] = "none" /\ stmt[r] = 1
        /\ results[r] = << >>
      BY <1>3 DEF Sql!Init
  <2> QED  BY <2>1 DEF Unread, Unconnected, Undisturbed, Procedure
<1> QED  BY <1>2, <1>3 DEF SqlInv

\* The result a run reads next, and what is left after it.
LEMMA NextResult ==
    ASSUME Sql!TypeOK, NEW r \in Runs, results[r] # << >>
    PROVE  /\ Head(results[r]) = results[r][1] /\ results[r][1] \in Sql!Result
           /\ results[r][1].rows \in Nat /\ results[r][1].fields \in Nat
           /\ results[r][1].known \in BOOLEAN
           /\ Tail(results[r]) \in Seq(Sql!Result)
           /\ Len(Tail(results[r])) = Len(results[r]) - 1
<1>1. results[r] \in Seq(Sql!Result)
    BY DEF Sql!TypeOK
<1>2. Len(results[r]) >= 1 /\ Len(results[r]) \in Nat
    BY <1>1
<1>3. results[r][1] \in Sql!Result
    BY <1>1, <1>2
<1>4. Head(results[r]) = results[r][1]
    BY <1>1, <1>2
<1>5. Tail(results[r]) \in Seq(Sql!Result) /\ Len(Tail(results[r])) = Len(results[r]) - 1
    BY <1>1, <1>2
<1> QED  BY <1>3, <1>4, <1>5 DEF Sql!Result

\* The statement a run is at.
LEMMA StatementIs ==
    ASSUME Sql!TypeOK, NEW r \in Runs
    PROVE  /\ stmt[r] \in 1 .. 5
           /\ Sql!Script[stmt[r]] \in {"show", "dropIfExists", "create", "call", "drop"}
           /\ stmt[r] = 1 <=> Sql!Script[stmt[r]] = "show"
           /\ stmt[r] = 2 <=> Sql!Script[stmt[r]] = "dropIfExists"
           /\ stmt[r] = 3 <=> Sql!Script[stmt[r]] = "create"
           /\ stmt[r] = 4 <=> Sql!Script[stmt[r]] = "call"
           /\ stmt[r] = 5 <=> Sql!Script[stmt[r]] = "drop"
BY ScriptIs DEF Sql!TypeOK

\* The steps keep the types.
LEMMA SqlTypeStep ==
    ASSUME SqlInv, NEW r \in Runs, Sql!Run(r)
    PROVE  Sql!TypeOK'
<1>t. Sql!TypeOK /\ Unread(r)
    BY DEF SqlInv
<1>s. stmt[r] \in 1 .. 5 /\ Len(Sql!Script) = 5
    BY <1>t, StatementIs, ScriptIs
<1>1. CASE Sql!Configure(r) \/ Sql!Connect(r) \/ Sql!ConnectFails(r)
    BY <1>1, <1>t DEF Sql!TypeOK, Sql!Configure, Sql!Connect, Sql!ConnectFails, Sql!Goto,
           Sql!counts, Sql!history
<1>10. CASE Sql!StmtCall(r)
  <2>1. Sql!StmtCalls[sqlPc[r]] \in {"prepare", "execute", "bind", "fetch"}
      BY <1>10 DEF Sql!StmtCall, Sql!StmtCalls
  <2> QED  BY <1>10, <1>t, <2>1 DEF Sql!TypeOK, Sql!StmtCall, Sql!Goto, Sql!counts, Sql!history
<1>11. CASE Sql!StmtMore(r) \/ Sql!StmtClose(r)
  <2>1. /\ sqlPc' \in {[sqlPc EXCEPT ![r] = "closeStmt"], [sqlPc EXCEPT ![r] = "exit0"]}
        /\ conn' \in {conn, [conn EXCEPT ![r] = "closed"]}
      BY <1>11 DEF Sql!StmtMore, Sql!StmtClose, Sql!Goto
  <2> QED  BY <1>11, <1>t, <2>1 DEF Sql!TypeOK, Sql!StmtMore, Sql!StmtClose, Sql!counts, Sql!history
<1>2. CASE Sql!QueryRefused(r) \/ Sql!StoreFails(r) \/ Sql!CheckFails(r) \/ Sql!ApiStoreFails(r)
           \/ Sql!StmtFails(r) \/ Sql!StmtFetchEnds(r)
    BY <1>2, <1>t DEF Sql!TypeOK, Sql!QueryRefused, Sql!StoreFails, Sql!CheckFails,
           Sql!ApiStoreFails, Sql!StmtFails, Sql!StmtFetchEnds, Sql!Goto, Sql!Abort, Sql!Faulty,
           Sql!counts, Sql!history
<1>3. CASE Sql!CheckPasses(r)
  <2>1. /\ sqlPc' \in {[sqlPc EXCEPT ![r] = "query"], [sqlPc EXCEPT ![r] = "exit0"]}
        /\ conn' \in {conn, [conn EXCEPT ![r] = "closed"]}
        /\ \/ stmt' = stmt
           \/ stmt[r] < 5 /\ stmt' = [stmt EXCEPT ![r] = stmt[r] + 1]
    <3>1. CASE stmt[r] < Len(Sql!Script)
        BY <1>3, <1>s, <3>1 DEF Sql!CheckPasses, Sql!Goto
    <3>2. CASE ~ (stmt[r] < Len(Sql!Script))
      <4>1. /\ sqlPc' = [sqlPc EXCEPT ![r] = "exit0"] /\ conn' = [conn EXCEPT ![r] = "closed"]
            /\ stmt' = stmt
          BY <1>3, <1>s, <3>2 DEF Sql!CheckPasses, Sql!Goto
      <4> QED  BY <4>1
    <3> QED  BY <3>1, <3>2
  <2>2. stmt' \in [Runs -> 1 .. 5]
    <3>1. stmt \in [Runs -> 1 .. 5]
        BY <1>t, <1>s DEF Sql!TypeOK
    <3>2. ASSUME stmt[r] < 5 PROVE stmt[r] + 1 \in 1 .. 5
        BY <1>s, <3>2
    <3> QED  BY <2>1, <3>1, <3>2
  <2> QED  BY <1>3, <1>t, <1>s, <2>1, <2>2 DEF Sql!TypeOK, Sql!CheckPasses, Sql!counts, Sql!history
<1>4. CASE Sql!Query(r)
  <2>1. PICK answer \in Sql!Answers(Sql!Script[stmt[r]]) :
            /\ results' = [results EXCEPT ![r] = answer]
            /\ fault' = [fault EXCEPT ![r] = @ \/ Sql!Unexpected(r, answer)]
      BY <1>4 DEF Sql!Query
  <2>2. answer \in Seq(Sql!Result)
      BY <1>t, StatementIs, AnswersAre
  <2>3. results' \in [Runs -> Seq(Sql!Result)]
      BY <1>t, <2>1, <2>2 DEF Sql!TypeOK
  <2>4. fault' \in [Runs -> BOOLEAN] /\ clash' \in [Runs -> BOOLEAN] /\ proc' \in BOOLEAN
    <3>1. Sql!Unexpected(r, answer) \in BOOLEAN
        BY DEF Sql!Unexpected
    <3>2. fault' \in [Runs -> BOOLEAN]
        BY <1>t, <2>1, <3>1 DEF Sql!TypeOK
    <3>3. clash' \in [Runs -> BOOLEAN]
        BY <1>4, <1>t DEF Sql!Query, Sql!TypeOK, Sql!UsesProc
    <3>4. proc' \in BOOLEAN
        BY <1>4, <1>t DEF Sql!Query, Sql!TypeOK, Sql!After
    <3> QED  BY <3>2, <3>3, <3>4
  <2>5. /\ numRows' \in [Runs -> Nat] /\ numFields' \in [Runs -> Nat]
        /\ found' \in [Runs -> BOOLEAN]
      BY <1>4, <1>t DEF Sql!Query, Sql!TypeOK
  <2> QED  BY <1>4, <1>t, <2>3, <2>4, <2>5 DEF Sql!TypeOK, Sql!Query, Sql!Goto
<1>5. CASE Sql!QueryFails(r)
  <2>1. clash' \in [Runs -> BOOLEAN]
      BY <1>5, <1>t DEF Sql!QueryFails, Sql!TypeOK, Sql!UsesProc
  <2>2. proc' \in BOOLEAN
      BY <1>5, <1>t DEF Sql!QueryFails, Sql!TypeOK, Sql!After
  <2> QED  BY <1>5, <1>t, <2>1, <2>2 DEF Sql!TypeOK, Sql!QueryFails, Sql!Goto, Sql!Abort,
               Sql!Faulty, Sql!counts
<1>6. CASE Sql!StoreResult(r) \/ Sql!NextResultFails(r) \/ Sql!ApiStore(r)
  <2>1. results[r] # << >>
      BY <1>6, <1>t DEF Unread, Sql!StoreResult, Sql!NextResultFails, Sql!ApiStore, Sql!At
  <2>2. /\ Head(results[r]) = results[r][1] /\ results[r][1].rows \in Nat
        /\ results[r][1].fields \in Nat /\ results[r][1].known \in BOOLEAN
        /\ Tail(results[r]) \in Seq(Sql!Result)
      BY <1>t, <2>1, NextResult
  <2>3. results' \in [Runs -> Seq(Sql!Result)]
    <3>1. << >> \in Seq(Sql!Result)
        OBVIOUS
    <3> QED  BY <1>6, <1>t, <2>2, <3>1 DEF Sql!TypeOK, Sql!StoreResult, Sql!NextResultFails,
                 Sql!ApiStore
  <2>4. results[r][1].rows + results[r][1].rows \in Nat
      BY <2>2
  <2>5. /\ numRows' \in [Runs -> Nat] /\ numFields' \in [Runs -> Nat]
        /\ found' \in [Runs -> BOOLEAN]
    <3>1. CASE Sql!StoreResult(r)
      <4>1. CASE results[r][1].fields > 0
        <5>1. /\ numRows' = [numRows EXCEPT ![r] = results[r][1].rows + results[r][1].rows]
              /\ numFields' = [numFields EXCEPT ![r] = results[r][1].fields]
              /\ found' = [found EXCEPT ![r] = found[r] \/ results[r][1].known]
            BY <3>1, <4>1, <2>2 DEF Sql!StoreResult
        <5>2. (found[r] \/ results[r][1].known) \in BOOLEAN
            OBVIOUS
        <5>3. found' \in [Runs -> BOOLEAN]
            BY <5>1, <5>2, <1>t DEF Sql!TypeOK
        <5> QED  BY <5>1, <5>3, <1>t, <2>2, <2>4 DEF Sql!TypeOK
      <4>2. CASE ~ (results[r][1].fields > 0)
          BY <3>1, <4>2, <1>t, <2>2 DEF Sql!TypeOK, Sql!StoreResult, Sql!counts
      <4> QED  BY <4>1, <4>2
    <3>2. CASE Sql!NextResultFails(r) \/ Sql!ApiStore(r)
      <4>1. /\ numRows' \in [Runs -> Nat] /\ numFields' \in [Runs -> Nat]
        <5>1. /\ \/ numRows' = [numRows EXCEPT ![r] = results[r][1].rows + results[r][1].rows]
                 \/ numRows' = [numRows EXCEPT ![r] = results[r][1].rows]
              /\ numFields' = [numFields EXCEPT ![r] = results[r][1].fields]
            BY <3>2, <2>2 DEF Sql!NextResultFails, Sql!ApiStore
        <5> QED  BY <5>1, <1>t, <2>2, <2>4 DEF Sql!TypeOK
      <4>2. found' = found \/ found' = [found EXCEPT ![r] = results[r][1].known]
          BY <3>2, <2>2 DEF Sql!NextResultFails, Sql!ApiStore
      <4> QED  BY <4>1, <4>2, <1>t, <2>2 DEF Sql!TypeOK
    <3> QED  BY <1>6, <3>1, <3>2
  <2> QED  BY <1>6, <1>t, <2>3, <2>5 DEF Sql!TypeOK, Sql!StoreResult, Sql!NextResultFails,
               Sql!ApiStore, Sql!Goto, Sql!Faulty, Sql!history
<1>7. CASE Sql!StmtExecute(r)
  <2>1. PICK answer \in Sql!Answers("prepared") :
            /\ results' = [results EXCEPT ![r] = answer]
            /\ numFields' = [numFields EXCEPT ![r] = answer[1].fields]
      BY <1>7 DEF Sql!StmtExecute
  <2>2. answer \in Seq(Sql!Result) /\ answer[1].fields \in Nat
      BY AnswersAre DEF Sql!Result
  <2>3. results' \in [Runs -> Seq(Sql!Result)] /\ numFields' \in [Runs -> Nat]
      BY <1>t, <2>1, <2>2 DEF Sql!TypeOK
  <2> QED  BY <1>7, <1>t, <2>3 DEF Sql!TypeOK, Sql!StmtExecute, Sql!Goto, Sql!history
<1>8. CASE Sql!StmtFetch(r)
    BY <1>8, <1>t DEF Sql!TypeOK, Sql!StmtFetch, Sql!history
<1>9. CASE Sql!StmtFreeResult(r)
  <2>1. results[r] # << >>
      BY <1>9, <1>t DEF Unread, Sql!StmtFreeResult, Sql!At
  <2>2. results' \in [Runs -> Seq(Sql!Result)]
      BY <1>9, <1>t, <2>1, NextResult DEF Sql!TypeOK, Sql!StmtFreeResult
  <2> QED  BY <1>9, <1>t, <2>2 DEF Sql!TypeOK, Sql!StmtFreeResult, Sql!Goto, Sql!counts, Sql!history
<1> QED
    BY <1>1, <1>2, <1>3, <1>4, <1>5, <1>6, <1>7, <1>8, <1>9, <1>10, <1>11 DEF Sql!Run

\* A step of another run leaves everything of this one as it is, except that it may take
\* the procedure away or create it, and then clash says so.
LEMMA OtherRunStep ==
    ASSUME SqlInv, NEW r \in Runs, NEW s \in Runs, s # r, Sql!Run(s)
    PROVE  Unread(r)' /\ Unconnected(r)' /\ Undisturbed(r)'
<1>t. Sql!TypeOK
    BY DEF SqlInv
<1>1. /\ program'[r] = program[r] /\ sqlPc'[r] = sqlPc[r] /\ conn'[r] = conn[r]
      /\ stmt'[r] = stmt[r] /\ results'[r] = results[r] /\ numRows'[r] = numRows[r]
      /\ numFields'[r] = numFields[r] /\ found'[r] = found[r] /\ fault'[r] = fault[r]
  <2>1. CASE Sql!Configure(s) \/ Sql!Connect(s) \/ Sql!ConnectFails(s) \/ Sql!StmtCall(s)
             \/ Sql!StmtMore(s) \/ Sql!StmtClose(s) \/ Sql!CheckPasses(s)
      BY <2>1, <1>t DEF Sql!TypeOK, Sql!Configure, Sql!Connect, Sql!ConnectFails, Sql!StmtCall,
             Sql!StmtMore, Sql!StmtClose, Sql!CheckPasses, Sql!Goto, Sql!counts, Sql!history
  <2>2. CASE Sql!QueryRefused(s) \/ Sql!StoreFails(s) \/ Sql!CheckFails(s) \/ Sql!ApiStoreFails(s)
             \/ Sql!StmtFails(s) \/ Sql!StmtFetchEnds(s)
      BY <2>2, <1>t DEF Sql!TypeOK, Sql!QueryRefused, Sql!StoreFails, Sql!CheckFails,
             Sql!ApiStoreFails, Sql!StmtFails, Sql!StmtFetchEnds, Sql!Goto, Sql!Abort, Sql!Faulty,
             Sql!counts, Sql!history
  <2>3. CASE Sql!Query(s) \/ Sql!QueryFails(s)
      BY <2>3, <1>t DEF Sql!TypeOK, Sql!Query, Sql!QueryFails, Sql!Goto, Sql!Abort, Sql!Faulty,
             Sql!counts
  <2>4. CASE Sql!StoreResult(s) \/ Sql!NextResultFails(s) \/ Sql!ApiStore(s)
      BY <2>4, <1>t DEF Sql!TypeOK, Sql!StoreResult, Sql!NextResultFails, Sql!ApiStore, Sql!Goto,
             Sql!Faulty, Sql!counts, Sql!history
  <2>5. CASE Sql!StmtExecute(s) \/ Sql!StmtFetch(s) \/ Sql!StmtFreeResult(s)
      BY <2>5, <1>t DEF Sql!TypeOK, Sql!StmtExecute, Sql!StmtFetch, Sql!StmtFreeResult, Sql!Goto,
             Sql!counts, Sql!history
  <2> QED  BY <2>1, <2>2, <2>3, <2>4, <2>5 DEF Sql!Run
<1>2. ASSUME ~ clash'[r] PROVE ~ clash[r] /\ (Sql!UsesProc(r) => proc' = proc)
  <2>1. CASE Sql!Query(s) \/ Sql!QueryFails(s)
    <3>1. clash'[r] = (clash[r] \/ (r # s /\ Sql!UsesProc(r) /\ proc' # proc))
        BY <2>1 DEF Sql!Query, Sql!QueryFails
    <3> QED  BY <1>2, <3>1
  <2>2. CASE ~ (Sql!Query(s) \/ Sql!QueryFails(s))
    <3>1. clash' = clash /\ proc' = proc
        BY <2>2 DEF Sql!Run, Sql!Configure, Sql!Connect, Sql!ConnectFails, Sql!StmtCall,
               Sql!StmtMore, Sql!StmtClose, Sql!CheckPasses, Sql!QueryRefused, Sql!StoreFails,
               Sql!CheckFails, Sql!ApiStoreFails, Sql!StmtFails, Sql!StmtFetchEnds,
               Sql!StoreResult, Sql!NextResultFails, Sql!ApiStore, Sql!StmtExecute,
               Sql!StmtFetch, Sql!StmtFreeResult, Sql!history
    <3> QED  BY <1>2, <3>1
  <2> QED  BY <2>1, <2>2
<1>3. Unread(r)' /\ Unconnected(r)'
    BY <1>1 DEF SqlInv, Unread, Unconnected
<1>4. ASSUME ~ fault'[r], ~ clash'[r] PROVE Procedure(r)'
    BY <1>1, <1>2, <1>4 DEF SqlInv, Undisturbed, Procedure, Sql!UsesProc
<1>5. Coming(r)' = Coming(r) /\ Sql!AsExpected(r)' = Sql!AsExpected(r)
    BY <1>1 DEF Coming, Sql!AsExpected
<1>6. Undisturbed(r)'
  <2> SUFFICES ASSUME ~ fault'[r], ~ clash'[r] PROVE Undisturbed(r)'
      BY DEF Undisturbed
  <2>1. ~ fault[r] /\ ~ clash[r]
      BY <1>1, <1>2
  <2> QED  BY <1>1, <1>4, <1>5, <2>1 DEF SqlInv, Undisturbed
<1> QED  BY <1>3, <1>6

\* A step of a run that fails it, or ends it, by a fault.
LEMMA FaultStep ==
    ASSUME SqlInv, NEW r \in Runs,
           \/ Sql!QueryFails(r) \/ Sql!StoreFails(r) \/ Sql!NextResultFails(r)
           \/ Sql!ApiStoreFails(r) \/ Sql!StmtFails(r)
    PROVE  Unread(r)' /\ Unconnected(r)' /\ Undisturbed(r)'
<1>t. Sql!TypeOK
    BY DEF SqlInv
<1>1. fault'[r]
    BY <1>t DEF Sql!TypeOK, Sql!QueryFails, Sql!StoreFails, Sql!NextResultFails, Sql!ApiStoreFails,
           Sql!StmtFails, Sql!Faulty
<1>2. sqlPc'[r] \in {"exit0", "exit1"} \/ (sqlPc'[r] = "check" /\ results'[r] = << >>)
    BY <1>t DEF Sql!TypeOK, Sql!QueryFails, Sql!StoreFails, Sql!NextResultFails, Sql!ApiStoreFails,
           Sql!StmtFails, Sql!Abort, Sql!Goto
<1> QED  BY <1>1, <1>2 DEF Unread, Unconnected, Undisturbed

\* The server does what the script of an undisturbed run counts on.
LEMMA QueryStep ==
    ASSUME SqlInv, NEW r \in Runs, Sql!Query(r)
    PROVE  Unread(r)' /\ Unconnected(r)' /\ Undisturbed(r)'
<1>t. Sql!TypeOK /\ Undisturbed(r)
    BY DEF SqlInv
<1> DEFINE what == Sql!Script[stmt[r]]
<1>1. /\ sqlPc[r] = "query" /\ sqlPc'[r] = "store" /\ program'[r] = program[r]
      /\ stmt'[r] = stmt[r] /\ conn'[r] = conn[r]
      /\ numRows'[r] = 0 /\ numFields'[r] = 0 /\ ~ Sql!Refuses(what) /\ proc' = Sql!After(what)
    BY <1>t DEF Sql!TypeOK, Sql!Query, Sql!Goto, Sql!At
<1>2. PICK answer \in Sql!Answers(what) :
          /\ results' = [results EXCEPT ![r] = answer]
          /\ fault' = [fault EXCEPT ![r] = @ \/ Sql!Unexpected(r, answer)]
    BY DEF Sql!Query
<1>3. results'[r] = answer /\ fault'[r] = (fault[r] \/ Sql!Unexpected(r, answer))
    BY <1>t, <1>2 DEF Sql!TypeOK
<1>4. clash'[r] = clash[r]
  <2>1. clash'[r] = (clash[r] \/ (r # r /\ Sql!UsesProc(r) /\ proc' # proc))
      BY DEF Sql!Query
  <2>2. clash[r] \in BOOLEAN
      BY <1>t DEF Sql!TypeOK
  <2> QED  BY <2>1, <2>2
<1>5. /\ answer \in Seq(Sql!Result) /\ Len(answer) \in {1, 2} /\ answer[1] \in Sql!Result
      /\ what = "show" => Len(answer) = 1 /\ answer[1].rows = 1 /\ answer[1].fields = 2
      /\ what = "call" => Len(answer) = 2 /\ answer[1].fields = 3 /\ answer[2] = Sql!Status
      /\ what \in {"dropIfExists", "create", "drop"} => answer = <<Sql!Status>>
    BY <1>t, StatementIs, AnswersAre
<1>6. Unread(r)' /\ Unconnected(r)'
    BY <1>1, <1>3, <1>5 DEF Unread, Unconnected
<1>7. ASSUME ~ fault'[r], ~ clash'[r] PROVE Undisturbed(r)'
  <2>1. ~ fault[r] /\ ~ clash[r] /\ ~ Sql!Unexpected(r, answer)
      BY <1>3, <1>4, <1>7
  <2>2. Procedure(r)'
    <3>1. stmt[r] = 2 => ~ proc'
        BY <1>1, <1>t, StatementIs DEF Sql!After
    <3>2. stmt[r] = 3 => proc'
        BY <1>1, <1>t, StatementIs DEF Sql!After
    <3>3. stmt[r] = 4 => proc'
        BY <1>1, <1>t, StatementIs DEF Sql!After, Sql!Refuses
    <3> QED  BY <1>1, <3>1, <3>2, <3>3 DEF Procedure
  <2>3. ASSUME program[r] = "realQuery" PROVE Coming(r)'
    <3>1. CASE what = "show"
      <4>1. answer[1].known
          BY <2>1, <2>3, <3>1 DEF Sql!Unexpected
      <4>2. answer = <<answer[1]>>
          BY <1>5, <3>1
      <4> QED  BY <1>1, <1>3, <1>5, <3>1, <4>1, <4>2 DEF Coming
    <3>2. CASE what = "call"
      <4>1. answer[1].rows # 0 /\ answer[1].rows \in Nat
          BY <1>5, <2>1, <2>3, <3>2 DEF Sql!Unexpected, Sql!Result
      <4> QED  BY <1>1, <1>3, <1>5, <3>2, <4>1 DEF Coming
    <3>3. CASE what \in {"dropIfExists", "create", "drop"}
        BY <1>1, <1>3, <1>5, <3>3 DEF Coming
    <3> QED  BY <1>t, StatementIs, <3>1, <3>2, <3>3
  <2> QED  BY <1>1, <1>t, <2>1, <2>2, <2>3 DEF Undisturbed
<1>8. CASE fault'[r]
    BY <1>6, <1>8 DEF Undisturbed
<1>9. CASE clash'[r]
    BY <1>6, <1>9 DEF Undisturbed
<1> QED  BY <1>6, <1>7, <1>8, <1>9

LEMMA TailOfTwo ==
    ASSUME NEW S, NEW t \in Seq(S), Len(t) = 2
    PROVE  Tail(t) = <<t[2]>>
<1>1. Len(t) > 0 /\ 2 \in 1 .. Len(t)
    OBVIOUS
<1>2. Tail(t) \in Seq(S) /\ Len(Tail(t)) = 1
  <2>1. Tail(t) \in Seq(S)
      BY <1>1
  <2>2. Len(Tail(t)) = Len(t) - 1
      BY <1>1
  <2> QED  BY <2>1, <2>2
<1>3. Tail(t)[1] = t[2]
  <2>1. \A k \in 1 .. Len(t) - 1 : Tail(t)[k] = t[k + 1]
      BY <1>1
  <2>2. 1 \in 1 .. Len(t) - 1 /\ 1 + 1 = 2
      OBVIOUS
  <2> QED  BY <2>1, <2>2
<1>4. t[2] \in S
  <2>1. \A k \in 1 .. Len(t) : t[k] \in S
      OBVIOUS
  <2> QED  BY <1>1, <2>1
<1>5. PICK u : u = Tail(t)
    OBVIOUS
<1>6. \A k \in 1 .. Len(u) : u[k] = <<t[2]>>[k]
    BY <1>2, <1>3, <1>5
<1>7. u \in Seq(S) /\ <<t[2]>> \in Seq(S) /\ Len(u) = Len(<<t[2]>>)
    BY <1>2, <1>4, <1>5
<1>8. u = <<t[2]>>
    BY <1>6, <1>7, SameSequence
<1> QED  BY <1>5, <1>8

\* Reading the results of a statement leads an undisturbed run to what main() expects.
LEMMA StoreStep ==
    ASSUME SqlInv, NEW r \in Runs, Sql!StoreResult(r)
    PROVE  Unread(r)' /\ Unconnected(r)' /\ Undisturbed(r)'
<1>t. Sql!TypeOK /\ Undisturbed(r) /\ results[r] # << >>
    BY DEF SqlInv, Unread, Sql!StoreResult, Sql!At
<1>1. /\ sqlPc[r] = "store" /\ program[r] = "realQuery" /\ program'[r] = program[r]
      /\ stmt'[r] = stmt[r] /\ proc' = proc /\ fault'[r] = fault[r] /\ clash'[r] = clash[r]
      /\ results'[r] = Tail(results[r])
      /\ sqlPc'[r] = IF Len(results[r]) > 1 THEN "store" ELSE "check"
    BY <1>t DEF Sql!TypeOK, Sql!StoreResult, Sql!At, Sql!Goto, Sql!history
<1>2. /\ Head(results[r]) = results[r][1] /\ results[r][1].rows \in Nat
      /\ results[r] \in Seq(Sql!Result) /\ Len(results[r]) \in Nat /\ Len(results[r]) >= 1
    BY <1>t, NextResult DEF Sql!TypeOK
<1>r. PICK rest \in Seq(Sql!Result) :
          /\ rest = Tail(results[r]) /\ Len(rest) = Len(results[r]) - 1
          /\ results'[r] = rest
    BY <1>t, <1>1, NextResult
<1>3. /\ results[r][1].fields > 0 =>
             /\ numRows'[r] = results[r][1].rows + results[r][1].rows
             /\ numFields'[r] = results[r][1].fields
             /\ found'[r] = (found[r] \/ results[r][1].known)
      /\ ~ (results[r][1].fields > 0) =>
             numRows'[r] = numRows[r] /\ numFields'[r] = numFields[r]
    BY <1>t, <1>2 DEF Sql!TypeOK, Sql!StoreResult, Sql!counts
<1>4. CASE Len(results[r]) > 1
  <2>1. sqlPc'[r] = "store" /\ results'[r] # << >>
    <3>1. Len(rest) # 0
        BY <1>2, <1>4, <1>r
    <3>2. rest # << >>
        BY <3>1
    <3>3. sqlPc'[r] = "store"
        BY <1>1, <1>4
    <3> QED  BY <1>r, <3>2, <3>3
  <2>2. ASSUME ~ fault[r], ~ clash[r] PROVE Coming(r)'
    <3>1. /\ Coming(r) /\ Sql!Script[stmt[r]] = "call" /\ Len(results[r]) = 2
          /\ results[r][1].rows >= 1 /\ results[r][1].fields = 3 /\ results[r][2] = Sql!Status
      <4>1. Coming(r)
          BY <1>t, <1>1, <2>2 DEF Undisturbed
      <4>2. \A x : results[r] # <<x>>
        <5> SUFFICES ASSUME NEW x, results[r] = <<x>> PROVE FALSE
            OBVIOUS
        <5>1. Len(results[r]) = 1
            OBVIOUS
        <5> QED  BY <5>1, <1>4
      <4>3. Sql!Script[stmt[r]] = "call"
          BY <4>1, <4>2 DEF Coming
      <4> QED  BY <4>1, <4>2, <4>3 DEF Coming
    <3>2. Tail(results[r]) = <<Sql!Status>>
        BY <1>2, <3>1, TailOfTwo
    <3>3. numRows'[r] >= 1 /\ numFields'[r] = 3
        BY <1>2, <1>3, <3>1
    <3> QED  BY <1>1, <3>1, <3>2, <3>3 DEF Coming
  <2>3. Unread(r)' /\ Unconnected(r)'
      BY <2>1 DEF Unread, Unconnected
  <2>4. ASSUME ~ fault[r], ~ clash[r] PROVE Procedure(r)'
      BY <1>t, <1>1, <2>1, <2>4 DEF Undisturbed, Procedure
  <2> QED  BY <1>t, <1>1, <2>1, <2>2, <2>3, <2>4 DEF Undisturbed
<1>5. CASE ~ (Len(results[r]) > 1)
  <2>1. sqlPc'[r] = "check" /\ results'[r] = << >> /\ Len(results[r]) = 1
    <3>1. Len(results[r]) = 1
      <4>1. PICK n \in Nat : n = Len(results[r])
          BY <1>2
      <4>2. n >= 1 /\ ~ (n > 1)
          BY <1>2, <1>5, <4>1
      <4>3. n = 1
          BY <4>2
      <4> QED  BY <4>1, <4>3
    <3>2. Len(rest) = 0
        BY <1>r, <3>1
    <3>3. rest = << >>
        BY <3>2
    <3> QED  BY <1>1, <1>5, <1>r, <3>1, <3>3
  <2>2. ASSUME ~ fault[r], ~ clash[r] PROVE Sql!AsExpected(r)'
    <3>1. Coming(r)
        BY <1>t, <1>1, <2>2 DEF Undisturbed
    <3>2. Sql!Status.rows = 0 /\ Sql!Status.fields = 0
        BY DEF Sql!Status
    <3>3. CASE Sql!Script[stmt[r]] = "show"
      <4>1. found'[r] /\ numRows'[r] = 2 /\ numFields'[r] = 2
        <5>1. results[r][1].rows = 1 /\ results[r][1].fields = 2 /\ results[r][1].known
            BY <3>1, <3>3 DEF Coming
        <5>2. results[r][1].fields > 0 /\ results[r][1].rows + results[r][1].rows = 2
            BY <5>1
        <5> QED  BY <1>3, <5>1, <5>2
      <4> QED  BY <1>1, <3>3, <4>1 DEF Sql!AsExpected
    <3>4. CASE Sql!Script[stmt[r]] = "call"
      <4>1. results[r] = <<Sql!Status>> /\ numRows[r] >= 1 /\ numFields[r] = 3
          BY <2>1, <3>1, <3>4 DEF Coming
      <4>2. results[r][1] = Sql!Status
          BY <4>1
      <4>3. numRows'[r] >= 1 /\ numFields'[r] = 3
          BY <1>3, <3>2, <4>1, <4>2
      <4> QED  BY <1>1, <3>4, <4>3 DEF Sql!AsExpected
    <3>5. CASE Sql!Script[stmt[r]] \notin {"show", "call"}
      <4>1. results[r] = <<Sql!Status>> /\ numRows[r] = 0 /\ numFields[r] = 0
          BY <3>1, <3>5 DEF Coming
      <4>2. results[r][1] = Sql!Status
          BY <4>1
      <4>3. numRows'[r] = 0 /\ numFields'[r] = 0
          BY <1>3, <3>2, <4>1, <4>2
      <4> QED  BY <1>1, <3>5, <4>3 DEF Sql!AsExpected
    <3> QED  BY <3>3, <3>4, <3>5
  <2>3. Unread(r)' /\ Unconnected(r)'
      BY <2>1 DEF Unread, Unconnected
  <2>4. ASSUME ~ fault[r], ~ clash[r] PROVE Procedure(r)'
      BY <1>t, <1>1, <2>1, <2>4 DEF Undisturbed, Procedure
  <2> QED  BY <1>t, <1>1, <2>1, <2>2, <2>3, <2>4 DEF Undisturbed
<1> QED  BY <1>4, <1>5

\* An undisturbed run is never refused a statement and never fails a check.
LEMMA AbortStep ==
    ASSUME SqlInv, NEW r \in Runs, Sql!QueryRefused(r) \/ Sql!CheckFails(r)
    PROVE  Unread(r)' /\ Unconnected(r)' /\ Undisturbed(r)'
<1>t. Sql!TypeOK /\ Undisturbed(r)
    BY DEF SqlInv
<1>1. sqlPc'[r] = "exit1" /\ fault'[r] = fault[r] /\ clash'[r] = clash[r]
    BY <1>t DEF Sql!TypeOK, Sql!QueryRefused, Sql!CheckFails, Sql!Abort, Sql!Goto, Sql!history
<1>2. fault[r] \/ clash[r]
  <2> SUFFICES ASSUME ~ fault[r], ~ clash[r] PROVE FALSE
      OBVIOUS
  <2>1. CASE Sql!QueryRefused(r)
    <3>1. sqlPc[r] = "query" /\ Sql!Refuses(Sql!Script[stmt[r]])
        BY <2>1 DEF Sql!QueryRefused, Sql!At
    <3>2. Procedure(r)
        BY <1>t DEF Undisturbed
    <3> QED  BY <1>t, <3>1, <3>2, StatementIs DEF Procedure, Sql!Refuses
  <2>2. CASE Sql!CheckFails(r)
    <3>1. sqlPc[r] = "check" /\ ~ Sql!AsExpected(r)
        BY <2>2 DEF Sql!CheckFails, Sql!At
    <3> QED  BY <1>t, <3>1 DEF Undisturbed
  <2> QED  BY <2>1, <2>2
<1> QED  BY <1>1, <1>2 DEF Unread, Unconnected, Undisturbed

\* The next statement of the script finds the procedure as the last one left it.
LEMMA CheckStep ==
    ASSUME SqlInv, NEW r \in Runs, Sql!CheckPasses(r)
    PROVE  Unread(r)' /\ Unconnected(r)' /\ Undisturbed(r)'
<1>t. Sql!TypeOK /\ Undisturbed(r) /\ Unread(r)
    BY DEF SqlInv
<1>1. /\ sqlPc[r] = "check" /\ results[r] = << >> /\ results'[r] = results[r] /\ proc' = proc
      /\ program'[r] = program[r] /\ fault'[r] = fault[r] /\ clash'[r] = clash[r]
    BY <1>t DEF Sql!CheckPasses, Sql!At, Sql!history, Unread
<1>2. /\ stmt[r] \in 1 .. 5
      /\ \/ stmt[r] < 5 /\ stmt'[r] = stmt[r] + 1 /\ sqlPc'[r] = "query"
         \/ sqlPc'[r] = "exit0"
  <2>1. stmt[r] \in 1 .. 5 /\ Len(Sql!Script) = 5
      BY <1>t, StatementIs, ScriptIs
  <2>2. CASE stmt[r] < Len(Sql!Script)
      BY <1>t, <2>1, <2>2 DEF Sql!TypeOK, Sql!CheckPasses, Sql!Goto
  <2>3. CASE ~ (stmt[r] < Len(Sql!Script))
      BY <1>t, <2>1, <2>3 DEF Sql!TypeOK, Sql!CheckPasses, Sql!Goto
  <2> QED  BY <2>1, <2>2, <2>3
<1>3. Unread(r)' /\ Unconnected(r)'
    BY <1>1, <1>2 DEF Unread, Unconnected
<1>4. ASSUME ~ fault[r], ~ clash[r] PROVE Procedure(r)'
  <2>1. Procedure(r)
      BY <1>t, <1>4 DEF Undisturbed
  <2>2. CASE sqlPc'[r] = "query" /\ stmt'[r] = stmt[r] + 1
    <3>1. stmt'[r] = 3 => stmt[r] = 2
        BY <1>2, <2>2
    <3>2. stmt'[r] = 4 => stmt[r] = 3
        BY <1>2, <2>2
    <3>3. stmt'[r] = 5 => stmt[r] = 4
        BY <1>2, <2>2
    <3> QED  BY <1>1, <2>1, <2>2, <3>1, <3>2, <3>3 DEF Procedure
  <2>3. CASE sqlPc'[r] = "exit0"
      BY <2>3 DEF Procedure
  <2> QED  BY <1>2, <2>2, <2>3
<1>5. ASSUME ~ fault[r], ~ clash[r] PROVE program[r] = "realQuery"
    BY <1>t, <1>1, <1>5 DEF Undisturbed
<1> QED  BY <1>1, <1>2, <1>3, <1>4, <1>5 DEF Undisturbed

\* The other steps: up to the connection, of the prepared statement, and to the end.
LEMMA PlainStep ==
    ASSUME SqlInv, NEW r \in Runs,
           \/ Sql!Configure(r) \/ Sql!Connect(r) \/ Sql!ConnectFails(r) \/ Sql!ApiStore(r)
           \/ Sql!StmtCall(r) \/ Sql!StmtExecute(r) \/ Sql!StmtFetch(r) \/ Sql!StmtFetchEnds(r)
           \/ Sql!StmtFreeResult(r) \/ Sql!StmtMore(r) \/ Sql!StmtClose(r)
    PROVE  Unread(r)' /\ Unconnected(r)' /\ Undisturbed(r)'
<1>t. Sql!TypeOK /\ Unread(r) /\ Unconnected(r) /\ Undisturbed(r)
    BY DEF SqlInv
<1>s. stmt[r] \in 1 .. 5
    BY <1>t, StatementIs
<1>1. CASE Sql!Configure(r) \/ Sql!Connect(r) \/ Sql!ConnectFails(r)
  <2>1. /\ sqlPc[r] \in {"config", "connect"} /\ stmt[r] = 1 /\ conn[r] = "none"
        /\ results[r] = << >>
      BY <1>1, <1>t DEF Sql!Configure, Sql!Connect, Sql!ConnectFails, Sql!At, Unread, Unconnected
  <2>2. /\ sqlPc'[r] \in {"connect", "exit1", "stmtInit", "query"} /\ stmt'[r] = stmt[r]
        /\ results'[r] = results[r]
        /\ sqlPc'[r] \in {"connect", "exit1"} => conn'[r] = conn[r]
      BY <1>1, <1>t DEF Sql!TypeOK, Sql!Configure, Sql!Connect, Sql!ConnectFails, Sql!Goto
  <2> QED  BY <2>1, <2>2 DEF Unread, Unconnected, Undisturbed, Procedure
<1>2. CASE Sql!StmtCall(r) \/ Sql!StmtExecute(r) \/ Sql!StmtFetch(r) \/ Sql!StmtFetchEnds(r)
           \/ Sql!StmtFreeResult(r) \/ Sql!StmtMore(r) \/ Sql!StmtClose(r) \/ Sql!ApiStore(r)
  <2>1. /\ sqlPc'[r] \in {"prepare", "execute", "metadata", "bind", "fetch", "freeResult", "more",
                          "closeStmt", "exit0"}
        /\ program'[r] = program[r] /\ stmt'[r] = stmt[r] /\ clash'[r] = clash[r]
        /\ fault'[r] \/ fault'[r] = fault[r]
    <3>1. CASE Sql!StmtCall(r)
      <4>1. Sql!StmtCalls[sqlPc[r]] \in {"prepare", "execute", "bind", "fetch"}
          BY <3>1 DEF Sql!StmtCall, Sql!StmtCalls
      <4> QED  BY <3>1, <4>1, <1>t DEF Sql!TypeOK, Sql!StmtCall, Sql!Goto, Sql!history
    <3>2. CASE Sql!StmtExecute(r) \/ Sql!StmtFetch(r) \/ Sql!StmtFreeResult(r) \/ Sql!StmtMore(r)
               \/ Sql!StmtClose(r) \/ Sql!ApiStore(r)
        BY <3>2, <1>t DEF Sql!TypeOK, Sql!StmtExecute, Sql!StmtFetch, Sql!StmtFreeResult,
               Sql!StmtMore, Sql!StmtClose, Sql!ApiStore, Sql!At, Sql!Goto, Sql!history
    <3>3. CASE Sql!StmtFetchEnds(r)
        BY <3>3, <1>t DEF Sql!TypeOK, Sql!StmtFetchEnds, Sql!Goto, Sql!Faulty
    <3> QED  BY <1>2, <3>1, <3>2, <3>3
  <2>2. Unread(r)'
    <3>1. CASE Sql!StmtCall(r)
      <4>1. /\ results'[r] = results[r]
            /\ \/ sqlPc[r] \in {"stmtInit", "prepare"} /\ sqlPc'[r] \in {"prepare", "execute"}
               \/ sqlPc[r] \in {"metadata", "bind"} /\ sqlPc'[r] \in {"bind", "fetch"}
          BY <3>1, <1>t DEF Sql!TypeOK, Sql!StmtCall, Sql!StmtCalls, Sql!Goto
      <4> QED  BY <4>1, <1>t DEF Unread
    <3>2. CASE Sql!StmtExecute(r)
      <4>1. PICK answer \in Sql!Answers("prepared") : results' = [results EXCEPT ![r] = answer]
          BY <3>2 DEF Sql!StmtExecute
      <4>2. Len(answer) \in {1, 2}
          BY AnswersAre
      <4>3. answer # << >>
          BY <4>2
      <4>4. results'[r] = answer /\ sqlPc'[r] = "metadata"
          BY <3>2, <4>1, <1>t DEF Sql!TypeOK, Sql!StmtExecute, Sql!Goto
      <4> QED  BY <4>3, <4>4 DEF Unread
    <3>3. CASE Sql!StmtFetch(r) \/ Sql!StmtFetchEnds(r)
      <4>1. sqlPc[r] = "fetch" /\ sqlPc'[r] \in {"fetch", "freeResult"} /\ results'[r] = results[r]
          BY <3>3, <1>t DEF Sql!TypeOK, Sql!StmtFetch, Sql!StmtFetchEnds, Sql!At, Sql!Goto
      <4> QED  BY <4>1, <1>t DEF Unread
    <3>4. CASE Sql!StmtFreeResult(r) \/ Sql!StmtClose(r) \/ Sql!ApiStore(r)
      <4>1. sqlPc'[r] \in {"more", "exit0"}
          BY <3>4, <1>t DEF Sql!TypeOK, Sql!StmtFreeResult, Sql!StmtClose, Sql!ApiStore, Sql!Goto
      <4> QED  BY <4>1 DEF Unread
    <3>5. CASE Sql!StmtMore(r)
      <4>1. /\ results'[r] = results[r]
            /\ sqlPc'[r] = "exit0" \/ (sqlPc'[r] = "closeStmt" /\ results[r] = << >>)
          BY <3>5, <1>t DEF Sql!TypeOK, Sql!StmtMore, Sql!Goto
      <4> QED  BY <4>1 DEF Unread
    <3> QED  BY <1>2, <3>1, <3>2, <3>3, <3>4, <3>5
  <2>3. Unconnected(r)'
      BY <2>1 DEF Unconnected
  <2>4. Procedure(r)'
      BY <2>1, <1>s DEF Procedure
  <2> QED  BY <2>1, <2>2, <2>3, <2>4, <1>t DEF Undisturbed
<1> QED  BY <1>1, <1>2

LEMMA SqlStep == SqlInv /\ [Sql!Next]_(Sql!vars) => SqlInv'
<1> SUFFICES ASSUME SqlInv, [Sql!Next]_(Sql!vars) PROVE SqlInv'
    OBVIOUS
<1>1. ASSUME NEW s \in Runs, Sql!Run(s) PROVE SqlInv'
  <2>1. Sql!TypeOK'
      BY <1>1, SqlTypeStep
  <2>2. Unread(s)' /\ Unconnected(s)' /\ Undisturbed(s)'
      BY <1>1, FaultStep, QueryStep, StoreStep, AbortStep, CheckStep, PlainStep DEF Sql!Run
  <2>3. ASSUME NEW r \in Runs, r # s PROVE Unread(r)' /\ Unconnected(r)' /\ Undisturbed(r)'
      BY <1>1, <2>3, OtherRunStep
  <2> QED  BY <2>1, <2>2, <2>3 DEF SqlInv
<1>2. CASE UNCHANGED Sql!vars
  <2>1. UNCHANGED <<program, proc, sqlPc, conn, stmt, results, numRows, numFields, found, fault,
                    clash>>
      BY <1>2 DEF Sql!vars, Sql!counts, Sql!history
  <2>2. Sql!TypeOK'
      BY <2>1 DEF SqlInv, Sql!TypeOK
  <2>3. ASSUME NEW r \in Runs PROVE Unread(r)' /\ Unconnected(r)' /\ Undisturbed(r)'
    <3>1. Unread(r)' /\ Unconnected(r)'
        BY <2>1 DEF SqlInv, Unread, Unconnected
    <3>2. Coming(r)' = Coming(r) /\ Sql!AsExpected(r)' = Sql!AsExpected(r)
          /\ Procedure(r)' = Procedure(r)
        BY <2>1 DEF Coming, Sql!AsExpected, Procedure
    <3> QED  BY <2>1, <3>1, <3>2 DEF SqlInv, Undisturbed
  <2> QED  BY <2>2, <2>3 DEF SqlInv
<1> QED  BY <1>1, <1>2 DEF Sql!Next

THEOREM SqlInvariant == Sql!Spec => []SqlInv
BY SqlInit, SqlStep, PTL DEF Sql!Spec

\* No run of the database clients goes past its last statement, however many there are.
THEOREM SqlTypeCorrect == Sql!Spec => []Sql!TypeOK
<1>1. SqlInv => Sql!TypeOK
    BY DEF SqlInv
<1> QED  BY <1>1, SqlInvariant, PTL

-----------------------------------------------------------------------------
(* PamAuth: the rounds and the conversations *)

\* What a reply may be.
Replied == {"password", "null"}

\* From pam_start() to pam_end(), the loop is below its limit.
InRound == pamPc \in Pam!InPam \cup {"conv", "end", "crashed"}

\* res is set only after PAM has accepted the round, which the loop then counts.
Tally ==
    /\ pamPc = "args" => round = 0
    /\ InRound => round < limit
    /\ pamPc \in Pam!InPam \cup {"conv"} => res = 0
    /\ pamPc # "end" => letIn = authCount
    /\ pamPc = "end" => letIn = authCount + res
    /\ pamProgram = "linux" => authCount + authFail = round

\* The replies written so far.
RepliesInv ==
    /\ pamPc = "conv" => verdict = "none"
    /\ Len(reply) <= Len(msgs)
    /\ verdict = "success" => Len(reply) = Len(msgs)
    /\ \A k \in 1 .. Len(reply) :
          /\ reply[k] = "password" => Pam!Answers(msgs[k])
          /\ Pam!Answers(msgs[k]) => reply[k] = "password" \/ scarce \/ (pamProgram = "linux" /\ k > 1)

RoundsInv == Pam!TypeOK /\ Pam!HandlesEnded /\ Tally

PamStep == [Pam!Next]_(Pam!vars)

USE PamAssumption DEF Pam!Sensible

-----------------------------------------------------------------------------

\* The loop of main() and the calls of authorize().
LEMMA PamInit == Pam!Init => RoundsInv /\ RepliesInv
<1>1. << >> \in Seq(Replied) /\ Len(<< >>) = 0
  OBVIOUS
<1> SUFFICES ASSUME Pam!Init PROVE RoundsInv /\ RepliesInv
  OBVIOUS
<1>2. Pam!TypeOK
  <2>1. /\ limit \in Int /\ limit <= IntMax /\ round \in 0 .. IntMax /\ (round > 0 => round <= limit)
        /\ authCount \in 0 .. round /\ authFail \in 0 .. round /\ res \in {0, 1}
        /\ live \in Nat /\ letIn \in Nat
    BY DEF Pam!Init
  <2>2. /\ pamProgram \in PamPrograms /\ pamPc = "args" /\ scarce = FALSE
        /\ caller \in Pam!InPam /\ msgs = << >> /\ reply \in Seq(Replied) /\ verdict = "none"
    BY <1>1 DEF Pam!Init, Pam!InPam
  <2>3. QED
    BY <2>1, <2>2 DEF Pam!TypeOK, Replied
<1>3. Pam!HandlesEnded /\ Tally
  BY DEF Pam!Init, Pam!HandlesEnded, Tally, InRound, Pam!InPam
<1>4. RepliesInv
  BY <1>1 DEF Pam!Init, RepliesInv
<1>5. QED
  BY <1>2, <1>3, <1>4 DEF RoundsInv

\* What every conversation leaves alone.
LEMMA PamElsewhere ==
    ASSUME RoundsInv, UNCHANGED <<pamProgram, limit, Pam!counters, res, live, letIn>>,
           pamPc \in Pam!InPam \cup {"conv"}, pamPc' \in Pam!InPam \cup {"conv", "crashed"},
           caller' \in Pam!InPam, msgs' \in Messages \cup {<< >>},
           reply' \in Seq(Replied), verdict' \in {"none", "success", "error"}, scarce' \in BOOLEAN
    PROVE  RoundsInv'
BY DEF RoundsInv, Pam!TypeOK, Pam!HandlesEnded, Tally, InRound, Pam!InPam, Pam!counters, Replied

LEMMA PwdConvStep == RoundsInv /\ Pam!PwdConv => RoundsInv'
<1> SUFFICES ASSUME RoundsInv, Pam!PwdConv PROVE RoundsInv'
  OBVIOUS
<1>1. /\ caller \in Pam!InPam /\ msgs \in Messages \cup {<< >>} /\ reply \in Seq(Replied)
      /\ verdict \in {"none", "success", "error"} /\ scarce \in BOOLEAN
  BY DEF RoundsInv, Pam!TypeOK, Replied
<1>2. /\ pamPc = "conv" /\ UNCHANGED <<pamProgram, limit, Pam!counters, res, live, letIn>>
      /\ caller' = caller /\ msgs' = msgs
      /\ pamPc' \in {caller, "conv", "crashed"} /\ verdict' \in {verdict, "success", "error"}
      /\ scarce' \in BOOLEAN
      /\ reply' = reply \/ reply' = Append(reply, "password") \/ reply' = Append(reply, "null")
  BY <1>1 DEF Pam!PwdConv, Pam!NoReplies, Pam!Answer, Pam!AnswerStray, Pam!AnswerCrashes,
              Pam!AnswerMissing, Pam!PassOver,
              Pam!Reject, Pam!ConvSucceeds, Pam!ConvReturns, Pam!Reply, Pam!InLoop
<1>3. reply' \in Seq(Replied)
  BY <1>1, <1>2, AppendProperties DEF Replied
<1>4. QED
  BY <1>1, <1>2, <1>3, PamElsewhere

LEMMA RoundsStep == RoundsInv /\ PamStep => RoundsInv'
<1> SUFFICES ASSUME RoundsInv, PamStep PROVE RoundsInv'
  OBVIOUS
<1>1. ASSUME Pam!Forget PROVE msgs' = << >> /\ reply' = << >> /\ reply' \in Seq(Replied)
                          /\ verdict' = "none" /\ scarce' = FALSE /\ caller' = caller
  BY <1>1 DEF Pam!Forget
<1>2. CASE Pam!Usage
  BY <1>2 DEF Pam!Usage, RoundsInv, Pam!TypeOK, Pam!HandlesEnded, Tally, InRound, Pam!InPam,
              Pam!counters, Pam!conv
<1>3. CASE Pam!Args
  <2>1. \A l \in Pam!Limits : l \in Int /\ l <= IntMax
    BY DEF Pam!Limits
  <2>2. QED
    BY <1>3, <2>1 DEF Pam!Args, RoundsInv, Pam!TypeOK, Pam!HandlesEnded, Tally, InRound,
                      Pam!InPam, Pam!counters, Pam!conv
<1>4. CASE Pam!LoopEnds
  BY <1>4 DEF Pam!LoopEnds, RoundsInv, Pam!TypeOK, Pam!HandlesEnded, Tally, InRound, Pam!InPam,
              Pam!counters, Pam!conv
<1>5. CASE Pam!Start
  BY <1>5 DEF Pam!Start, RoundsInv, Pam!TypeOK, Pam!HandlesEnded, Tally, InRound, Pam!InPam,
              Pam!counters, Pam!conv
<1>6. CASE Pam!StartFails
  BY <1>6 DEF Pam!StartFails, Pam!Counted, RoundsInv, Pam!TypeOK, Pam!HandlesEnded, Tally,
              InRound, Pam!InPam, Pam!conv
<1>7. CASE Pam!Authenticated
  BY <1>1, <1>7 DEF Pam!Authenticated, RoundsInv, Pam!TypeOK, Pam!HandlesEnded, Tally, InRound,
                    Pam!InPam, Pam!counters, Replied
<1>8. CASE Pam!Refused
  BY <1>1, <1>8 DEF Pam!Refused, RoundsInv, Pam!TypeOK, Pam!HandlesEnded, Tally, InRound,
                    Pam!InPam, Pam!counters, Replied
<1>9. CASE Pam!Accepted
  BY <1>1, <1>9 DEF Pam!Accepted, RoundsInv, Pam!TypeOK, Pam!HandlesEnded, Tally, InRound,
                    Pam!InPam, Pam!counters, Replied
<1>10. CASE Pam!End
  BY <1>10 DEF Pam!End, Pam!Counted, RoundsInv, Pam!TypeOK, Pam!HandlesEnded, Tally, InRound,
               Pam!InPam, Pam!conv
<1>11. CASE Pam!Ask
  <2>1. << >> \in Seq(Replied)
    OBVIOUS
  <2>2. QED
    BY <1>11, <2>1, PamElsewhere DEF Pam!Ask, Pam!InPam
<1>12. CASE Pam!PwdConv
  BY <1>12, PwdConvStep
<1>13. CASE UNCHANGED Pam!vars
  BY <1>13 DEF Pam!vars, Pam!counters, Pam!conv, RoundsInv, Pam!TypeOK, Pam!HandlesEnded, Tally,
               InRound, Pam!InPam
<1>14. QED
  BY <1>2, <1>3, <1>4, <1>5, <1>6, <1>7, <1>8, <1>9, <1>10, <1>11, <1>12, <1>13
     DEF PamStep, Pam!Next, Pam!Authorize

-----------------------------------------------------------------------------

\* One reply more: the one the message at hand calls for.
LEMMA ReplyStep ==
    ASSUME RoundsInv, RepliesInv, Pam!InLoop, NEW text \in Replied, Pam!Reply(text),
           text = "password" => Pam!Answers(Pam!Message),
           Pam!Answers(Pam!Message) => text = "password" \/ scarce' \/ (pamProgram = "linux" /\ reply # << >>),
           scarce => scarce'
    PROVE  RepliesInv'
<1> DEFINE n == Len(reply)
<1>1. n \in Nat /\ n < Len(msgs) /\ reply \in Seq(Replied) /\ Len(msgs) \in Nat
  BY DEF RoundsInv, Pam!TypeOK, Pam!InLoop, Replied
<1>2. /\ Len(reply') = n + 1 /\ reply'[n + 1] = text
      /\ \A k \in 1 .. n : reply'[k] = reply[k]
  BY <1>1, AppendProperties DEF Pam!Reply
<1>3. pamPc' = "conv" /\ pamProgram' = pamProgram /\ msgs' = msgs /\ verdict' = verdict /\ verdict = "none"
  BY DEF Pam!Reply, Pam!InLoop, RepliesInv
<1>4. reply # << >> => n + 1 > 1
  BY <1>1, EmptySeq
<1>5. \A s : Pam!Answers(s)' <=> Pam!Answers(s)
  BY <1>3 DEF Pam!Answers
<1>6. ASSUME NEW k \in 1 .. n + 1
      PROVE  /\ reply'[k] = "password" => Pam!Answers(msgs[k])
             /\ Pam!Answers(msgs[k]) => reply'[k] = "password" \/ scarce' \/ (pamProgram = "linux" /\ k > 1)
  <2>1. CASE k = n + 1
    BY <1>2, <1>4, <2>1 DEF Pam!Message
  <2>2. CASE k # n + 1
    <3>1. k \in 1 .. n
      BY <1>1, <2>2
    <3>2. QED
      BY <1>2, <3>1 DEF RepliesInv
  <2>3. QED
    BY <2>1, <2>2
<1>7. n + 1 <= Len(msgs)
  BY <1>1
<1> HIDE DEF n
<1>8. QED
  BY <1>2, <1>3, <1>5, <1>6, <1>7 DEF RepliesInv, Pam!Answers

LEMMA RepliesInvStep == RoundsInv /\ RepliesInv /\ PamStep => RepliesInv'
<1> SUFFICES ASSUME RoundsInv, RepliesInv, PamStep PROVE RepliesInv'
  OBVIOUS
<1>1. ASSUME msgs' = << >> \/ msgs' \in Messages, reply' = << >>,
verdict' = "none" PROVE RepliesInv'
  <2>1. Len(reply') = 0 /\ Len(msgs') \in Nat
    BY <1>1
  <2>2. QED
    BY <1>1, <2>1 DEF RepliesInv
<1>2. ASSUME UNCHANGED <<pamProgram, Pam!conv>>, pamPc' # "conv" PROVE RepliesInv'
  BY <1>2 DEF Pam!conv, RepliesInv, Pam!Answers
<1>3. CASE Pam!Usage
  BY <1>2, <1>3 DEF Pam!Usage
<1>4. CASE Pam!Args
  BY <1>2, <1>4 DEF Pam!Args
<1>5. CASE Pam!LoopEnds
  BY <1>2, <1>5 DEF Pam!LoopEnds
<1>6. CASE Pam!Authorize
  <2>1. CASE Pam!Start
    BY <1>2, <2>1 DEF Pam!Start
  <2>2. CASE Pam!StartFails
    BY <1>2, <2>2 DEF Pam!StartFails, Pam!Counted
  <2>3. CASE Pam!Authenticated
    BY <1>1, <2>3 DEF Pam!Authenticated, Pam!Forget
  <2>4. CASE Pam!Refused
    BY <1>1, <2>4 DEF Pam!Refused, Pam!Forget
  <2>5. CASE Pam!Accepted
    BY <1>1, <2>5 DEF Pam!Accepted, Pam!Forget
  <2>6. CASE Pam!End
    BY <1>2, <2>6 DEF Pam!End, Pam!Counted
  <2>7. QED
    BY <1>6, <2>1, <2>2, <2>3, <2>4, <2>5, <2>6 DEF Pam!Authorize
<1>7. CASE Pam!Ask
  BY <1>1, <1>7 DEF Pam!Ask
<1>8. CASE Pam!PwdConv
  <2>0. caller # "conv" /\ Len(msgs) \in Nat
    <3>1. caller \in Pam!InPam /\ msgs \in Messages \cup {<< >>}
      BY DEF RoundsInv, Pam!TypeOK
    <3>2. CASE msgs = << >>
      BY <3>1, <3>2 DEF Pam!InPam
    <3>3. CASE msgs \in Messages
      BY <3>1, <3>3 DEF Pam!InPam
    <3>4. QED
      BY <3>1, <3>2, <3>3
  <2>1. CASE Pam!NoReplies
    <3>1. reply' = << >> /\ msgs' = msgs /\ verdict' = "error" /\ pamPc' # "conv" /\ Len(msgs) \in Nat
      BY <2>0, <2>1 DEF Pam!NoReplies, Pam!ConvReturns
    <3>2. QED
      BY <3>1 DEF RepliesInv
  <2>2. CASE Pam!Answer
    BY <2>2, ReplyStep DEF Pam!Answer, Replied
  <2>3. CASE Pam!AnswerStray
    BY <2>3, ReplyStep DEF Pam!AnswerStray, Replied
  <2>4. CASE Pam!AnswerCrashes
    <3>1. /\ UNCHANGED <<pamProgram, msgs, reply, verdict>> /\ pamPc' = "crashed"
          /\ verdict = "none" /\ (scarce => scarce')
      BY <2>4 DEF Pam!AnswerCrashes, Pam!InLoop, RepliesInv
    <3>2. \A s : Pam!Answers(s)' <=> Pam!Answers(s)
      BY <3>1 DEF Pam!Answers
    <3>3. QED
      BY <3>1, <3>2 DEF RepliesInv
  <2>5. CASE Pam!AnswerMissing
    BY <2>5, ReplyStep DEF Pam!AnswerMissing, Replied
  <2>6. CASE Pam!PassOver
    BY <2>6, ReplyStep DEF Pam!PassOver, Replied
  <2>7. CASE Pam!Reject
    BY <2>0, <2>7 DEF Pam!Reject, Pam!ConvReturns, RepliesInv, Pam!Answers
  <2>8. CASE Pam!ConvSucceeds
    BY <2>0, <2>8 DEF Pam!ConvSucceeds, Pam!ConvReturns, RepliesInv, Pam!Answers
  <2>9. QED
    BY <1>8, <2>1, <2>2, <2>3, <2>4, <2>5, <2>6, <2>7, <2>8 DEF Pam!PwdConv
<1>9. CASE UNCHANGED Pam!vars
  BY <1>9 DEF Pam!vars, Pam!conv, RepliesInv, Pam!Answers
<1>10. QED
  BY <1>3, <1>4, <1>5, <1>6, <1>7, <1>8, <1>9 DEF PamStep, Pam!Next

LEMMA PamInvariant == Pam!Spec => [](RoundsInv /\ RepliesInv)
<1>1. RoundsInv /\ RepliesInv /\ [Pam!Next]_(Pam!vars) => (RoundsInv /\ RepliesInv)'
  BY RoundsStep, RepliesInvStep DEF PamStep
<1>2. QED
  BY <1>1, PamInit, PTL DEF Pam!Spec

-----------------------------------------------------------------------------

\* The counters never leave the int they are kept in, whatever the limit.
THEOREM PamTypeCorrect == Pam!Spec => []Pam!TypeOK
<1>1. RoundsInv => Pam!TypeOK
  BY DEF RoundsInv
<1>2. QED
  BY <1>1, PamInvariant, PTL

-----------------------------------------------------------------------------

\* No kind of client goes too far: no request waits longer than its counter allows, no run
\* goes past its last statement, no round past the limit.
THEOREM TypesCorrect == Spec /\ Sql!Spec /\ Pam!Spec => []TypesOK
<1>1. TypeOK /\ Sql!TypeOK /\ Pam!TypeOK => TypesOK
    BY DEF TypesOK
<1> QED  BY <1>1, RequestTypeCorrect, SqlTypeCorrect, PamTypeCorrect, PTL

\* A statement is sent, and a prepared one closed, only when all results of the one before
\* have been read (testMySqlRealQuery.cpp:51-121, testMySqlPrepare.cpp:181-191), however many
\* runs there are and however many rows a call returns.
THEOREM NeverOutOfSync == Sql!Spec => []InSync
<1>1. SqlInv => InSync
    BY DEF SqlInv, Unread, InSync, Sql!InSync
<1> QED  BY <1>1, SqlInvariant, PTL

\* Whatever an earlier run left on the server, a run that has connected fails only when the
\* server fails it or another run creates or drops the procedure under it
\* (testMySqlRealQuery.cpp:282), however many runs there are.
THEOREM OnlyDisturbedFail == Sql!Spec => []FailsOnlyIfDisturbed
<1>1. SqlInv => FailsOnlyIfDisturbed
  <2> SUFFICES ASSUME SqlInv, NEW r \in Runs, sqlPc[r] = "exit1", conn[r] # "none"
               PROVE  fault[r] \/ clash[r]
      BY DEF FailsOnlyIfDisturbed, Sql!FailsOnlyIfDisturbed
  <2> QED  BY DEF SqlInv, Undisturbed
<1> QED  BY <1>1, SqlInvariant, PTL

\* authorize() ends each handle once, on all its ways (pam_auth.c:268-293).
THEOREM NoHandleStays == Pam!Spec => []HandlesEnded
<1>1. RoundsInv => HandlesEnded
  BY DEF RoundsInv, HandlesEnded
<1>2. QED
  BY <1>1, PamInvariant, PTL

\* The counts main() prints are those of PAM's answers (pam_auth.c:328-344).
THEOREM CountsAreRight == Pam!Spec => []RoundsCounted
<1>1. RoundsInv => RoundsCounted
  BY DEF RoundsInv, Tally, InRound, Pam!InPam, RoundsCounted, Pam!RoundsCounted
<1>2. QED
  BY <1>1, PamInvariant, PTL

\* A conversation that succeeds has answered its prompts and nothing else, with the
\* exceptions PromptsAnswered names (pam_auth.c:233-250).
THEOREM PromptsGetPassword == Pam!Spec => []PromptsAnswered
<1>1. RepliesInv => PromptsAnswered
  BY DEF RepliesInv, PromptsAnswered, Pam!PromptsAnswered
<1>2. QED
  BY <1>1, PamInvariant, PTL
=============================================================================

--------------------------------- MODULE Vpd ---------------------------------
(***************************************************************************)
(* The AIX programs that read the Object Data Manager:                     *)
(* src/ostc/os/aix/physdisk.cpp ("disk") and odm_showprocs.cpp ("procs"),  *)
(* and decodeVPD(), which both define and the first calls.  decodeVPD()    *)
(* walks over a record of items "*KKLdd...d" with a pointer p; L is half   *)
(* an item's length.  A byte is a number, a character its code.            *)
(***************************************************************************)
EXTENDS Cursor

CONSTANTS
    Records,    \* the records there may be, see Formed
    Size,       \* sizeof(vpdItem->vpd)
    MaxDevices  \* bound: devices the ODM gives to "procs"

Nul  == 0
Star == 42      \* '*'

VARIABLES
    program,    \* which program runs; it never changes
    record,     \* the disk's record, of no interest to "procs"; it never changes
    pc,
    open,       \* odm_initialize() has succeeded, odm_terminate() has not
    p,          \* the pointer, as an offset into the record
    value,      \* the buffer that each value is copied to
    printed,    \* the tags and values printed, and of "procs" the devices
    devices,    \* devices the ODM has given to "procs"
    error,      \* its last answer to "procs" was an error
    asked       \* how often "procs" has called odm_get_next(), modulo 2

vars == <<program, record, pc, open, p, value, printed, devices, error, asked>>

-----------------------------------------------------------------------------
(* A record, after the comment at physdisk.cpp:25-49: its items, the offsets where  *)
(* they begin and, last, where they end, and its bytes.                             *)

Byte == 0 .. 255

\* Item k of record r: star, key, half of its length, and the data, padded to an even length.
ItemAt(r, k) ==
    LET o    == r.at[k]
        key  == r.items[k].key
        data == r.items[k].data
        pad  == Len(data) % 2
    IN  /\ r.at[k + 1] = o + 4 + Len(data) + pad
        /\ r.bytes[o] = Star
        /\ r.bytes[o + 1] = key[1] /\ r.bytes[o + 2] = key[2]
        /\ 2 * r.bytes[o + 3] = 4 + Len(data) + pad
        /\ \A i \in DOMAIN data : r.bytes[o + 3 + i] = data[i]
        /\ pad = 1 => r.bytes[o + 4 + Len(data)] = Nul

\* Of form "star", a NUL follows the items; "damaged", something without a length that an
\* item can have; "large", the resources of section 12.5, there is no star.
Formed(r) ==
    LET n   == Len(r.items)
        end == r.at[n + 1]
    IN  /\ r.items \in Seq([key : Byte \X Byte, data : Seq(Byte)])
        /\ r.at \in [1 .. n + 1 -> 0 .. Size - 1] /\ r.at[1] = 0
        /\ r.bytes \in [0 .. Size - 1 -> Byte]
        /\ \A k \in 1 .. n : ItemAt(r, k)
        /\ \/ r.form = "star" /\ r.bytes[end] = Nul
           \/ /\ r.form = "damaged" /\ end + 3 < Size
              /\ r.bytes[end] = Star /\ 2 * r.bytes[end + 3] - 4 \notin 0 .. Size - 1
           \/ r.form = "large" /\ n = 0 /\ r.bytes[0] # Star

Sensible == Size \in Nat /\ MaxDevices \in Nat /\ \A r \in Records : Formed(r)

Bytes == record.bytes

\* What printing shows of a buffer that begins with s: the bytes before the first NUL.
Shown(s) == SubSeq(s, 1, To(s, 1, {Nul}) - 1)

-----------------------------------------------------------------------------

\* Types; the pointer stays in the record.
TypeOK ==
    /\ program \in {"disk", "procs"}
    /\ pc \in {"init", "vpd", "decode", "size", "interface", "first", "loop",
               "terminate", "exit", "aborted"}
    /\ open \in BOOLEAN
    /\ p \in 0 .. Size - 1
    /\ value \in [0 .. Size -> Byte]
    /\ printed \in Seq(Seq(Byte) \X Seq(Byte) \cup {<<"device">>})
    /\ devices \in 0 .. MaxDevices /\ error \in BOOLEAN /\ asked \in {0, 1}

Init ==
    /\ program \in {"disk", "procs"} /\ record \in Records
    /\ program = "procs" => record.items = << >>
    /\ pc = "init" /\ open = FALSE
    /\ p = 0 /\ value = [i \in 0 .. Size |-> Nul]
    /\ printed = << >> /\ devices = 0 /\ error = FALSE /\ asked = 0

Goto(to) == pc' = to /\ UNCHANGED <<program, record>>

\* odm_initialize(); the program returns its error.
Initialize ==
    /\ pc = "init"
    /\ \/ open' = TRUE /\ Goto(IF program = "disk" THEN "vpd" ELSE "first")
       \/ UNCHANGED open /\ Goto("exit")
    /\ UNCHANGED <<p, value, printed, devices, error, asked>>

\* odm_get_first() of the VPD: an error and no match are reported, a record is decoded
\* if it has the form with stars.
GetVpd ==
    /\ pc = "vpd"
    /\ \/ Goto("size")
       \/ Goto(IF Bytes[0] = Star THEN "decode" ELSE "size")
    /\ UNCHANGED <<open, p, value, printed, devices, error, asked>>

\* Mutant of Copied: the value is not terminated.
CopiedOpen(len) ==
    [i \in 0 .. Size |-> IF i < len THEN Bytes[p + 4 + i] ELSE value[i]]

\* memcpy() of the value, and the NUL behind it.
Copied(len) ==
    [i \in 0 .. Size |-> IF i < len THEN Bytes[p + 4 + i] ELSE IF i = len THEN Nul ELSE value[i]]

\* One round of decodeVPD().  The length is tested as an unsigned number, so that a
\* negative one fails the assertion as well as one that is too large.
DecodeItem ==
    /\ pc = "decode" /\ Bytes[p] # Nul
    /\ LET total == 2 * Bytes[p + 3]
           len   == total - 4
       IN  \/ /\ len \in 0 .. Size - 1
              /\ value' = Copied(len)
              /\ printed' = Append(printed, <<<<Bytes[p + 1], Bytes[p + 2]>>,
                                              Shown([i \in 1 .. Size + 1 |-> value'[i - 1]])>>)
              /\ p' = p + total
              /\ Goto("decode")
           \/ /\ len \notin 0 .. Size - 1
              /\ Goto("aborted")
              /\ UNCHANGED <<p, value, printed>>
    /\ UNCHANGED <<open, devices, error, asked>>

DecodeEnds ==
    /\ pc = "decode" /\ Bytes[p] = Nul
    /\ Goto("size")
    /\ UNCHANGED <<open, p, value, printed, devices, error, asked>>

\* odm_get_first() of the size and of the interface: any answer is printed.
GetSize ==
    /\ \/ pc = "size" /\ Goto("interface")
       \/ pc = "interface" /\ Goto("terminate")
    /\ UNCHANGED <<open, p, value, printed, devices, error, asked>>

\* The ODM's answer to odm_get_first() and odm_get_next() of the device class.
Answer(errorTo, noneTo) ==
    \/ Goto("loop") /\ devices < MaxDevices /\ devices' = devices + 1 /\ error' = FALSE
    \/ Goto(noneTo) /\ error' = FALSE /\ UNCHANGED devices
    \/ Goto(errorTo) /\ error' = TRUE /\ UNCHANGED devices

GetFirst ==
    /\ pc = "first"
    /\ Answer("terminate", "terminate")
    /\ UNCHANGED <<open, p, value, printed, asked>>

\* Mutant of GetNext: a continue behind the message of the error, which in a do loop goes
\* to the test alone.
ErrorContinues ==
    /\ pc = "loop"
    /\ \/ error /\ UNCHANGED vars
       \/ /\ ~ error
          /\ printed' = Append(printed, <<"device">>)
          /\ Answer("loop", "terminate")
          /\ asked' = 1 - asked
          /\ UNCHANGED <<open, p, value>>

\* The body of the do loop: the device, or the error, is printed and the next one asked
\* for; NULL ends the loop, an error does not.
GetNext ==
    /\ pc = "loop"
    /\ printed' = IF error THEN printed ELSE Append(printed, <<"device">>)
    /\ Answer("loop", "terminate")
    /\ asked' = 1 - asked
    /\ UNCHANGED <<open, p, value>>

\* odm_terminate(); the program returns its error, or 0.
Terminate ==
    /\ pc = "terminate"
    /\ open' \in {open, FALSE}
    /\ Goto("exit")
    /\ UNCHANGED <<p, value, printed, devices, error, asked>>

Next == Initialize \/ GetVpd \/ DecodeItem \/ DecodeEnds \/ GetSize \/ GetFirst \/ GetNext
        \/ Terminate

Spec == Init /\ [][Next]_vars

\* Every call returns; what the ODM answers is not restricted, errors for ever included.
FairSpec == Spec /\ WF_vars(Next)

-----------------------------------------------------------------------------

\* The tag and the value of each item are printed, in their order and nothing else: a
\* value ends at its first NUL or where its padding begins, whatever a longer one before
\* it has left in the buffer (physdisk.cpp:73-74).  A damaged record ends the program
\* after its good items.  Each device the ODM gave is printed once, also the last, and
\* an error in place of one is not taken for a device.
AllPrinted ==
    /\ program = "disk" =>
          /\ Len(printed) <= Len(record.items)
          /\ \A k \in DOMAIN printed :
                printed[k] = <<record.items[k].key, Shown(record.items[k].data)>>
          /\ printed # << >> /\ pc # "decode" => Len(printed) = Len(record.items)
    /\ pc = "aborted" => record.form = "damaged"
    /\ program = "procs" /\ pc = "exit" => Len(printed) = devices

\* The program ends, whatever record it is given: p moves on with each item.  Only the do
\* loop of odm_showprocs.cpp:115-127 may not end: while odm_get_next() fails, it asks
\* again, at once and without a limit, so that it goes on for ever if the ODM never
\* answers anything but an error again, and only then.
OdmEnds ==
    \/ <>(pc \in {"exit", "aborted"})
    \/ <>[](program = "procs" /\ error) /\ []<>(asked = 0) /\ []<>(asked = 1)
=============================================================================

--------------------------- MODULE Readers_proofs ---------------------------
(***************************************************************************)
(* What the readers print is what the data say, for every text and every   *)
(* record.  The argument: the pointer is always where one item, or line,   *)
(* ends and the next begins; what is before it has been understood and     *)
(* counted or printed, and what is behind it has not.                      *)
(***************************************************************************)
EXTENDS Readers, FiniteSetTheorems, FunctionTheorems, SequenceTheorems, WellFoundedInduction, TLAPS

\* A set of numbers has a least element, and that is what Min chooses.
LEMMA Least ==
    ASSUME NEW S \in SUBSET Nat, S # {}
    PROVE  Min(S) \in S /\ \A y \in S : Min(S) <= y
<1>1. \E x \in S : \A y \in S : ~ (<<y, x>> \in OpToRel(<, Nat))
  BY NatLessThanWellFounded, WFMin
<1>2. \E x \in S : \A y \in S : ~ (y < x)
  BY <1>1 DEF OpToRel
<1>3. \E x \in S : \A y \in S : x <= y
  BY <1>2
<1>4. QED
  BY <1>3 DEF Min

\* What To and Past return: everything before is passed, and something stopped it.
LEMMA Arrives ==
    ASSUME NEW T, NEW s \in Seq(T), NEW k \in 1 .. Len(s) + 1, NEW S
    PROVE  /\ To(s, k, S) \in k .. Len(s) + 1
           /\ \A n \in k .. To(s, k, S) - 1 : s[n] \notin S
           /\ To(s, k, S) <= Len(s) => s[To(s, k, S)] \in S
<1> DEFINE A == {n \in k .. Len(s) : s[n] \in S} \cup {Len(s) + 1}
<1>1. Len(s) \in Nat
  OBVIOUS
<1>2. A \in SUBSET Nat /\ A # {}
  BY <1>1
<1>3. Min(A) \in A /\ \A y \in A : Min(A) <= y
  BY <1>2, Least
<1>4. To(s, k, S) = Min(A)
  BY DEF To
<1> HIDE DEF A
<1>5. \A y \in k .. Len(s) : s[y] \in S => y \in A
  BY DEF A
<1>6. \A y \in A : y \in k .. Len(s) + 1 /\ (y <= Len(s) => s[y] \in S)
  BY <1>1 DEF A
<1>7. QED
  BY <1>1, <1>3, <1>4, <1>5, <1>6

LEMMA Passes ==
    ASSUME NEW T, NEW s \in Seq(T), NEW k \in 1 .. Len(s) + 1, NEW S
    PROVE  /\ Past(s, k, S) \in k .. Len(s) + 1
           /\ \A n \in k .. Past(s, k, S) - 1 : s[n] \in S
           /\ Past(s, k, S) <= Len(s) => s[Past(s, k, S)] \notin S
<1> DEFINE A == {n \in k .. Len(s) : s[n] \notin S} \cup {Len(s) + 1}
<1>1. Len(s) \in Nat
  OBVIOUS
<1>2. A \in SUBSET Nat /\ A # {}
  BY <1>1
<1>3. Min(A) \in A /\ \A y \in A : Min(A) <= y
  BY <1>2, Least
<1>4. Past(s, k, S) = Min(A)
  BY DEF Past
<1> HIDE DEF A
<1>5. \A y \in k .. Len(s) : s[y] \notin S => y \in A
  BY DEF A
<1>6. \A y \in A : y \in k .. Len(s) + 1 /\ (y <= Len(s) => s[y] \notin S)
  BY <1>1 DEF A
<1>7. QED
  BY <1>1, <1>3, <1>4, <1>5, <1>6

\* To is where the first member of S is.
LEMMA ArrivesAt ==
    ASSUME NEW T, NEW s \in Seq(T), NEW k \in 1 .. Len(s) + 1, NEW S,
           NEW e \in k .. Len(s) + 1, \A n \in k .. e - 1 : s[n] \notin S,
           e <= Len(s) => s[e] \in S
    PROVE  To(s, k, S) = e
<1>1. /\ To(s, k, S) \in k .. Len(s) + 1
      /\ \A n \in k .. To(s, k, S) - 1 : s[n] \notin S
      /\ To(s, k, S) <= Len(s) => s[To(s, k, S)] \in S
  BY Arrives
<1>2. PICK m \in Nat : m = To(s, k, S)
  BY <1>1
<1>3. PICK l \in Nat : l = Len(s)
  OBVIOUS
<1>4. ~ (m < e)
  BY <1>1, <1>2, <1>3
<1>5. ~ (e < m)
  BY <1>1, <1>2, <1>3
<1>6. QED
  BY <1>2, <1>3, <1>4, <1>5

-----------------------------------------------------------------------------
(* Vpd *)

LEMMA SameTo == \A s, k, S : Odm!To(s, k, S) = To(s, k, S)
  BY DEF Odm!To, To, Odm!Min, Min

\* What printing shows of a buffer depends on the bytes before its first NUL only.
LEMMA ShownAlike ==
    ASSUME NEW d \in Seq(Odm!Byte), NEW s \in Seq(Odm!Byte), Len(d) < Len(s),
           \A i \in 1 .. Len(d) : s[i] = d[i], s[Len(d) + 1] = Odm!Nul
    PROVE  Odm!Shown(s) = Odm!Shown(d)
<1> DEFINE m == To(d, 1, {Odm!Nul})
<1>1. Len(d) \in Nat /\ Len(s) \in Nat
  OBVIOUS
<1>2. /\ m \in 1 .. Len(d) + 1
      /\ \A n \in 1 .. m - 1 : d[n] \notin {Odm!Nul}
      /\ m <= Len(d) => d[m] \in {Odm!Nul}
  BY <1>1, Arrives
<1> HIDE DEF m
<1>3. \A n \in 1 .. m - 1 : s[n] \notin {Odm!Nul}
  BY <1>1, <1>2
<1>4. s[m] \in {Odm!Nul}
  BY <1>1, <1>2
<1>5. To(s, 1, {Odm!Nul}) = m
  <2>1. 1 \in 1 .. Len(s) + 1 /\ m \in 1 .. Len(s) + 1
    BY <1>1, <1>2
  <2>2. QED
    BY <1>3, <1>4, <2>1, ArrivesAt
<1>6. \A n \in 1 .. m - 1 : s[n] = d[n]
  BY <1>1, <1>2
<1>7. SubSeq(s, 1, m - 1) = SubSeq(d, 1, m - 1)
  BY <1>1, <1>2, <1>6
<1>8. QED
  BY <1>5, <1>7, SameTo DEF Odm!Shown, m

\* It is a sequence of bytes.
LEMMA ShownType ==
    ASSUME NEW s \in Seq(Odm!Byte)
    PROVE  Odm!Shown(s) \in Seq(Odm!Byte)
<1>1. To(s, 1, {Odm!Nul}) \in 1 .. Len(s) + 1
  <2>1. 1 \in 1 .. Len(s) + 1
    OBVIOUS
  <2>2. QED
    BY <2>1, Arrives
<1>2. PICK m \in Nat : m = To(s, 1, {Odm!Nul}) - 1 /\ m <= Len(s)
  BY <1>1
<1>3. SubSeq(s, 1, m) \in Seq(Odm!Byte)
  <2>1. \A i \in 1 .. m : s[i] \in Odm!Byte
    BY <1>2
  <2>2. QED
    BY <2>1, SubSeqProperties
<1>4. QED
  BY <1>2, <1>3, SameTo DEF Odm!Shown

\* Where decodeVPD() is in the record, and what it has printed.
Decoding ==
    /\ program = "disk" =>
          /\ Len(printed) <= Len(record.items)
          /\ \A k \in 1 .. Len(printed) :
                printed[k] = <<record.items[k].key, Odm!Shown(record.items[k].data)>>
          /\ odmPc \notin {"first", "loop"}
          /\ odmPc \in {"init", "vpd"} => p = 0 /\ printed = << >>
          /\ odmPc \in {"size", "interface", "terminate", "exit", "aborted"} /\ printed # << >> =>
                Len(printed) = Len(record.items)
    /\ odmPc = "decode" => p = record.at[Len(printed) + 1] /\ record.form # "large"
    /\ odmPc = "aborted" => record.form = "damaged"

\* A device that has been given is printed in the next round of the loop.
Listing ==
    program = "procs" =>
       /\ odmPc \in {"init", "first", "loop", "terminate", "exit"}
       /\ Len(printed) = devices - (IF odmPc = "loop" /\ ~ error THEN 1 ELSE 0)

OdmInv == Odm!TypeOK /\ record \in Records /\ Decoding /\ Listing

\* What a record says of its item k.
LEMMA ItemFacts ==
    ASSUME NEW r, Odm!Formed(r), NEW k \in 1 .. Len(r.items)
    PROVE  LET o    == r.at[k]
               b    == r.bytes
               d    == r.items[k].data
               key  == r.items[k].key
               pad  == Len(d) % 2
           IN  /\ Len(r.items) \in Nat
               /\ b \in [0 .. Size - 1 -> Odm!Byte]
               /\ o \in 0 .. Size - 1 /\ r.at[k + 1] \in 0 .. Size - 1
               /\ d \in Seq(Odm!Byte) /\ Len(d) \in Nat /\ pad \in {0, 1}
               /\ key = <<key[1], key[2]>>
               /\ r.at[k + 1] = o + 4 + Len(d) + pad
               /\ b[o + 1] = key[1] /\ b[o + 2] = key[2]
               /\ 2 * b[o + 3] = 4 + Len(d) + pad
               /\ \A i \in 1 .. Len(d) : b[o + 3 + i] = d[i]
               /\ pad = 1 => b[o + 4 + Len(d)] = Odm!Nul
<1>1. /\ r.items \in Seq([key : Odm!Byte \X Odm!Byte, data : Seq(Odm!Byte)])
      /\ r.at \in [1 .. Len(r.items) + 1 -> 0 .. Size - 1]
      /\ r.bytes \in [0 .. Size - 1 -> Odm!Byte]
      /\ Odm!ItemAt(r, k)
  BY DEF Odm!Formed
<1>2. PICK l \in Nat : l = Len(r.items)
  BY <1>1
<1>3. r.at[k] \in 0 .. Size - 1 /\ r.at[k + 1] \in 0 .. Size - 1
  <2>1. k \in 1 .. l + 1 /\ k + 1 \in 1 .. l + 1
    BY <1>2
  <2>2. QED
    BY <1>1, <1>2, <2>1
<1>4. r.items[k] \in [key : Odm!Byte \X Odm!Byte, data : Seq(Odm!Byte)]
  BY <1>1, ElementOfSeq
<1>5. PICK x \in [key : Odm!Byte \X Odm!Byte, data : Seq(Odm!Byte)] : x = r.items[k]
  BY <1>4
<1>6. /\ x.data \in Seq(Odm!Byte) /\ Len(x.data) \in Nat
      /\ x.key = <<x.key[1], x.key[2]>>
  OBVIOUS
<1>7. PICK n \in Nat : n = Len(x.data)
  BY <1>6
<1>8. n % 2 \in {0, 1}
  OBVIOUS
<1>9. DOMAIN x.data = 1 .. n
  BY <1>6, <1>7
<1>10. /\ r.at[k + 1] = r.at[k] + 4 + n + (n % 2)
       /\ r.bytes[r.at[k] + 1] = x.key[1] /\ r.bytes[r.at[k] + 2] = x.key[2]
       /\ 2 * r.bytes[r.at[k] + 3] = 4 + n + (n % 2)
       /\ \A i \in 1 .. n : r.bytes[r.at[k] + 3 + i] = x.data[i]
       /\ n % 2 = 1 => r.bytes[r.at[k] + 4 + n] = Odm!Nul
  BY <1>1, <1>5, <1>7, <1>9 DEF Odm!ItemAt
<1>11. QED
  BY <1>1, <1>2, <1>3, <1>5, <1>6, <1>7, <1>8, <1>10

\* decodeVPD() at one of the items: all of it is in the record, and what is copied
\* shows as its data.
LEMMA AtItem ==
    ASSUME OdmInv, odmPc = "decode", program = "disk", Len(printed) < Len(record.items)
    PROVE  LET k   == Len(printed) + 1
               len == 2 * Odm!Bytes[p + 3] - 4
           IN  /\ p + 3 \in 0 .. Size - 1 /\ len \in 0 .. Size - 1
               /\ record.at[k + 1] = p + 4 + len /\ p + 4 + len \in 0 .. Size - 1
               /\ <<Odm!Bytes[p + 1], Odm!Bytes[p + 2]>> = record.items[k].key
               /\ Odm!Copied(len) \in [0 .. Size -> Odm!Byte]
               /\ Odm!Shown([i \in 1 .. Size + 1 |-> Odm!Copied(len)[i - 1]])
                     = Odm!Shown(record.items[k].data)
<1> DEFINE k == Len(printed) + 1
           b == record.bytes
           d == record.items[k].data
           key == record.items[k].key
           pad == Len(d) % 2
           len == 2 * b[p + 3] - 4
<1>1. PICK n \in Nat : n = Len(printed) /\ k = n + 1
  BY DEF OdmInv, Odm!TypeOK
<1>2. Odm!Formed(record) /\ Size \in Nat
  BY RecordsAssumption DEF OdmInv, Odm!Sensible
<1>3. PICK l \in Nat : l = Len(record.items)
  BY <1>2 DEF Odm!Formed
<1>4. k \in 1 .. Len(record.items) /\ p = record.at[k]
  BY <1>1, <1>3 DEF OdmInv, Decoding
<1> HIDE DEF k
<1>5. /\ b \in [0 .. Size - 1 -> Odm!Byte]
      /\ p \in 0 .. Size - 1 /\ record.at[k + 1] \in 0 .. Size - 1
  BY <1>2, <1>4, ItemFacts
<1>6. /\ d \in Seq(Odm!Byte) /\ Len(d) \in Nat /\ pad \in {0, 1}
      /\ key = <<key[1], key[2]>>
  BY <1>2, <1>4, ItemFacts
<1>7. /\ record.at[k + 1] = p + 4 + Len(d) + pad
      /\ b[p + 1] = key[1] /\ b[p + 2] = key[2]
      /\ 2 * b[p + 3] = 4 + Len(d) + pad
      /\ \A i \in 1 .. Len(d) : b[p + 3 + i] = d[i]
      /\ pad = 1 => b[p + 4 + Len(d)] = Odm!Nul
  <2>1. /\ record.at[k + 1] = record.at[k] + 4 + Len(d) + pad
        /\ b[record.at[k] + 1] = key[1] /\ b[record.at[k] + 2] = key[2]
        /\ 2 * b[record.at[k] + 3] = 4 + Len(d) + pad
    BY <1>2, <1>4, ItemFacts
  <2>2. \A i \in 1 .. Len(d) : b[record.at[k] + 3 + i] = d[i]
    <3>1. Odm!ItemAt(record, k)
      BY <1>2, <1>4 DEF Odm!Formed
    <3>2. DOMAIN d = 1 .. Len(d)
      BY <1>6
    <3>3. \A i \in DOMAIN d : b[record.at[k] + 3 + i] = d[i]
      BY <3>1 DEF Odm!ItemAt
    <3>4. QED
      BY <3>2, <3>3
  <2>3. pad = 1 => b[record.at[k] + 4 + Len(d)] = Odm!Nul
    BY <1>2, <1>4, ItemFacts
  <2> HIDE DEF b, d, key, pad
  <2>4. QED
    BY <1>4, <2>1, <2>2, <2>3
<1>8. p \in Nat /\ p <= Size - 1 /\ record.at[k + 1] <= Size - 1
  BY <1>2, <1>5
<1> HIDE DEF b, d, key, pad
<1>9. len = Len(d) + pad
  <2>1. 2 * b[p + 3] = 4 + Len(d) + pad /\ Len(d) \in Nat /\ pad \in {0, 1}
    BY <1>6, <1>7, Zenon
  <2> DEFINE t == 2 * b[p + 3]
  <2>2. t = 4 + Len(d) + pad /\ len = t - 4
    BY <2>1
  <2> HIDE DEF len, t
  <2>3. QED
    BY <2>1, <2>2
<1> HIDE DEF len
<1>m. PICK m \in Nat, q \in Nat, e \in {0, 1}, g \in 0 .. Size - 1 :
           m = Len(d) /\ q = p /\ e = pad /\ g = record.at[k + 1]
  BY <1>5, <1>6, <1>8
<1>10. p + 3 \in 0 .. Size - 1 /\ len \in 0 .. Size - 1 /\ p + 4 + len \in 0 .. Size - 1
       /\ record.at[k + 1] = p + 4 + len
  <2>1. len = m + e
    BY <1>9, <1>m
  <2>2. g = q + 4 + m + e
    BY <1>7, <1>m
  <2>3. q + 3 \in 0 .. Size - 1 /\ m + e \in 0 .. Size - 1 /\ q + 4 + (m + e) \in 0 .. Size - 1
        /\ g = q + 4 + (m + e)
    BY <1>2, <2>2
  <2>4. QED
    BY <1>m, <2>1, <2>3
<1> DEFINE v == Odm!Copied(len)
<1>11. v = [i \in 0 .. Size |-> IF i < len THEN b[p + 4 + i]
                                ELSE IF i = len THEN Odm!Nul ELSE value[i]]
  BY DEF Odm!Copied, b, Odm!Bytes
<1>12. \A i \in 0 .. Size : v[i] \in Odm!Byte
  <2>1. TAKE i \in 0 .. Size
  <2>2. v[i] = IF i < len THEN b[p + 4 + i] ELSE IF i = len THEN Odm!Nul ELSE value[i]
    BY <1>11
  <2>3. i < len => p + 4 + i \in 0 .. Size - 1
    BY <1>2, <1>8, <1>10
  <2>4. value[i] \in Odm!Byte
    BY DEF OdmInv, Odm!TypeOK
  <2>5. i < len => b[p + 4 + i] \in Odm!Byte
    BY <1>5, <2>3
  <2>6. Odm!Nul \in Odm!Byte
    BY DEF Odm!Nul, Odm!Byte
  <2>7. QED
    BY <2>2, <2>4, <2>5, <2>6
<1>13. v \in [0 .. Size -> Odm!Byte]
  BY <1>11, <1>12
<1> HIDE DEF v
<1> DEFINE s == [i \in 1 .. Size + 1 |-> v[i - 1]]
<1>14. s \in Seq(Odm!Byte) /\ Len(s) = Size + 1
  BY <1>2, <1>13
<1>15. \A i \in 1 .. Len(d) : s[i] = d[i]
  <2>1. TAKE i \in 1 .. Len(d)
  <2>2. i \in Nat /\ i >= 1 /\ i - 1 < len /\ i \in 1 .. Size + 1 /\ i - 1 \in 0 .. Size
        /\ p + 4 + (i - 1) = p + 3 + i
    <3>1. i \in 1 .. m /\ len = m + e
      BY <1>9, <1>m
    <3>2. m + e \in 0 .. Size - 1
      BY <1>10, <3>1
    <3>3. /\ i \in Nat /\ i >= 1 /\ i - 1 < m + e /\ i \in 1 .. Size + 1 /\ i - 1 \in 0 .. Size
          /\ q + 4 + (i - 1) = q + 3 + i
      BY <1>2, <3>1, <3>2
    <3>4. QED
      BY <1>m, <3>1, <3>3
  <2>3. v[i - 1] = b[p + 4 + (i - 1)]
    BY <1>11, <2>2
  <2>4. QED
    BY <1>7, <2>2, <2>3
<1>16. Len(d) < Len(s) /\ s[Len(d) + 1] = Odm!Nul
  <2>1. Len(d) + 1 \in 1 .. Size + 1 /\ Len(d) \in 0 .. Size /\ Len(d) + 1 - 1 = Len(d)
    BY <1>2, <1>6, <1>9, <1>10
  <2>2. s[Len(d) + 1] = v[Len(d)]
    BY <2>1
  <2>3. v[Len(d)] = IF Len(d) < len THEN b[p + 4 + Len(d)]
                    ELSE IF Len(d) = len THEN Odm!Nul ELSE value[Len(d)]
    BY <1>11, <2>1
  <2>4. v[Len(d)] = Odm!Nul
    BY <1>6, <1>7, <1>9, <2>3
  <2>5. QED
    BY <1>2, <1>14, <2>1, <2>2, <2>4
<1> HIDE DEF s
<1>17. Odm!Shown(s) = Odm!Shown(d)
  BY <1>6, <1>14, <1>15, <1>16, ShownAlike
<1>18. <<b[p + 1], b[p + 2]>> = key
  BY <1>6, <1>7
<1>19. QED
  BY <1>10, <1>13, <1>17, <1>18 DEF k, b, d, key, len, v, s, Odm!Bytes

\* Behind the last item.
LEMMA BehindItems ==
    ASSUME OdmInv, odmPc = "decode", ~ (Len(printed) < Len(record.items)), program = "disk"
    PROVE  \/ Odm!Bytes[p] = Odm!Nul
           \/ record.form = "damaged" /\ 2 * Odm!Bytes[p + 3] - 4 \notin 0 .. Size - 1
<1>1. Odm!Formed(record)
  BY RecordsAssumption DEF OdmInv, Odm!Sensible
<1>2. Len(printed) = Len(record.items) /\ p = record.at[Len(record.items) + 1]
      /\ record.form # "large"
  BY <1>1 DEF OdmInv, Odm!TypeOK, Decoding, Odm!Formed
<1>3. QED
  BY <1>1, <1>2 DEF Odm!Formed, Odm!Bytes

\* The pointer can begin at offset 0.
LEMMA FormFacts ==
    ASSUME NEW r, Odm!Formed(r), Size \in Nat
    PROVE  /\ Len(r.items) \in Nat /\ r.at[1] = 0 /\ 0 \in 0 .. Size - 1
           /\ r.form = "large" => r.bytes[0] # Odm!Star
           /\ r.bytes \in [0 .. Size - 1 -> Odm!Byte]
<1>1. /\ r.items \in Seq([key : Odm!Byte \X Odm!Byte, data : Seq(Odm!Byte)])
      /\ r.at \in [1 .. Len(r.items) + 1 -> 0 .. Size - 1] /\ r.at[1] = 0
      /\ r.bytes \in [0 .. Size - 1 -> Odm!Byte]
  BY DEF Odm!Formed
<1>2. r.form = "large" => r.bytes[0] # Odm!Star
  BY DEF Odm!Formed
<1>3. PICK l \in Nat : l = Len(r.items)
  BY <1>1
<1>4. 1 \in 1 .. l + 1
  OBVIOUS
<1>5. r.at[1] \in 0 .. Size - 1
  BY <1>1, <1>3, <1>4
<1>6. QED
  BY <1>1, <1>2, <1>3, <1>5

LEMMA OdmInit == Odm!Init => OdmInv
<1>1. ASSUME Odm!Init PROVE OdmInv
  <2>1. Size \in Nat /\ MaxDevices \in Nat /\ Odm!Formed(record)
    BY <1>1, RecordsAssumption DEF Odm!Sensible, Odm!Init
  <2>2. p = record.at[1] /\ p \in 0 .. Size - 1 /\ Len(record.items) \in Nat
    BY <1>1, <2>1, FormFacts DEF Odm!Init
  <2>3. value \in [0 .. Size -> Odm!Byte]
    BY <1>1 DEF Odm!Init, Odm!Nul, Odm!Byte
  <2>4. << >> \in Seq(Seq(Odm!Byte) \X Seq(Odm!Byte) \cup {<<"device">>}) /\ Len(<< >>) = 0
    OBVIOUS
  <2>5. Odm!TypeOK
    <3>1. devices \in 0 .. MaxDevices
      BY <1>1, <2>1 DEF Odm!Init
    <3>2. open \in BOOLEAN /\ error \in BOOLEAN /\ asked \in {0, 1}
      BY <1>1 DEF Odm!Init
    <3>3. QED
      BY <1>1, <2>2, <2>3, <2>4, <3>1, <3>2 DEF Odm!Init, Odm!TypeOK
  <2>6. Decoding /\ Listing
    BY <1>1, <2>2, <2>4 DEF Odm!Init, Decoding, Listing
  <2>7. QED
    BY <1>1, <2>5, <2>6 DEF OdmInv, Odm!Init
<1>2. QED
  BY <1>1

LEMMA OdmStep == OdmInv /\ [Odm!Next]_(Odm!vars) => OdmInv'
<1> SUFFICES ASSUME OdmInv, [Odm!Next]_(Odm!vars) PROVE OdmInv'
  OBVIOUS
<1>1. /\ Odm!Formed(record) /\ record.at[1] = 0 /\ Len(record.items) \in Nat
      /\ (record.form = "large" => record.bytes[0] # Odm!Star)
  BY RecordsAssumption, FormFacts DEF OdmInv, Odm!Sensible
<1>2. Size \in Nat /\ MaxDevices \in Nat
  BY RecordsAssumption DEF Odm!Sensible
<1>3. Odm!TypeOK /\ record \in Records /\ Decoding /\ Listing
  BY DEF OdmInv
<1>4. PICK n \in Nat : n = Len(printed)
  BY <1>3 DEF Odm!TypeOK
<1>5. CASE Odm!Initialize
  BY <1>1, <1>3, <1>5 DEF Odm!Initialize, Odm!Goto, OdmInv, Odm!TypeOK, Decoding, Listing
<1>6. CASE Odm!GetVpd
  <2>1. Len(<< >>) = 0
    OBVIOUS
  <2>2. program = "disk" /\ p = 0 /\ printed = << >>
    BY <1>3, <1>6 DEF Odm!GetVpd, Decoding, Listing, Odm!TypeOK
  <2>3. QED
    BY <1>1, <1>3, <1>6, <2>1, <2>2
       DEF Odm!GetVpd, Odm!Goto, Odm!Bytes, OdmInv, Odm!TypeOK, Decoding, Listing
<1>7. CASE Odm!DecodeItem
  <2>1. /\ program = "disk" /\ odmPc = "decode" /\ program' = program /\ record' = record
        /\ odmPc' \in {"decode", "aborted"}
        /\ open' = open /\ devices' = devices /\ error' = error /\ asked' = asked
    BY <1>3, <1>7 DEF Odm!DecodeItem, Odm!Goto, Listing, Odm!TypeOK
  <2>2. CASE n < Len(record.items)
    <3> DEFINE k == n + 1
               len == 2 * Odm!Bytes[p + 3] - 4
               shown == Odm!Shown([i \in 1 .. Size + 1 |-> Odm!Copied(len)[i - 1]])
               entry == <<<<Odm!Bytes[p + 1], Odm!Bytes[p + 2]>>, shown>>
    <3>1. /\ len \in 0 .. Size - 1
          /\ record.at[k + 1] = p + 4 + len /\ p + 4 + len \in 0 .. Size - 1
          /\ <<Odm!Bytes[p + 1], Odm!Bytes[p + 2]>> = record.items[k].key
          /\ Odm!Copied(len) \in [0 .. Size -> Odm!Byte]
          /\ shown = Odm!Shown(record.items[k].data)
      BY <1>4, <2>1, <2>2, AtItem
    <3>2. /\ value' = Odm!Copied(len) /\ p' = p + 2 * Odm!Bytes[p + 3] /\ odmPc' = "decode"
          /\ printed' = Append(printed, <<<<Odm!Bytes[p + 1], Odm!Bytes[p + 2]>>,
                               Odm!Shown([i \in 1 .. Size + 1 |-> value'[i - 1]])>>)
      BY <1>7, <3>1 DEF Odm!DecodeItem, Odm!Goto
    <3>3. printed' = Append(printed, entry)
      BY <3>2
    <3>4. k \in 1 .. Len(record.items)
      BY <1>1, <2>2
    <3>5. record.items[k].data \in Seq(Odm!Byte) /\ record.items[k].key \in Seq(Odm!Byte)
      <4>1. /\ record.items \in Seq([key : Odm!Byte \X Odm!Byte, data : Seq(Odm!Byte)])
        BY <1>1 DEF Odm!Formed
      <4>2. record.items[k] \in [key : Odm!Byte \X Odm!Byte, data : Seq(Odm!Byte)]
        BY <3>4, <4>1, ElementOfSeq
      <4>3. PICK x \in Odm!Byte, y \in Odm!Byte : record.items[k].key = <<x, y>>
        BY <4>2
      <4>4. QED
        BY <4>2, <4>3
    <3>6. entry = <<record.items[k].key, Odm!Shown(record.items[k].data)>>
      BY <3>1
    <3> HIDE DEF shown
    <3>7. entry \in Seq(Odm!Byte) \X Seq(Odm!Byte)
      BY <3>5, <3>6, ShownType
    <3> HIDE DEF entry
    <3>8. /\ printed' \in Seq(Seq(Odm!Byte) \X Seq(Odm!Byte) \cup {<<"device">>})
          /\ Len(printed') = k /\ printed'[k] = entry
          /\ \A j \in 1 .. n : printed'[j] = printed[j]
      BY <1>3, <1>4, <3>3, <3>7 DEF Odm!TypeOK
    <3>9. p' = record.at[k + 1] /\ p' \in 0 .. Size - 1
      <4>1. Odm!Bytes[p + 3] \in Nat /\ p \in Nat
        <5>1. p + 3 \in 0 .. Size - 1
          BY <1>4, <2>1, <2>2, AtItem
        <5>2. Odm!Bytes \in [0 .. Size - 1 -> Odm!Byte]
          BY <1>1, <1>2, FormFacts DEF Odm!Bytes
        <5>3. Odm!Bytes[p + 3] \in Odm!Byte
          BY <5>1, <5>2
        <5>4. p \in 0 .. Size - 1
          BY <1>3 DEF Odm!TypeOK
        <5>5. \A x \in Odm!Byte : x \in Nat
          BY DEF Odm!Byte
        <5>6. QED
          BY <1>2, <5>3, <5>4, <5>5
      <4>2. PICK z \in Nat, q \in Nat : z = Odm!Bytes[p + 3] /\ q = p
        BY <4>1
      <4>3. q + 2 * z = q + 4 + (2 * z - 4)
        OBVIOUS
      <4>4. QED
        BY <3>1, <3>2, <4>2, <4>3
    <3> HIDE DEF len
    <3>10. Odm!TypeOK'
      BY <1>3, <2>1, <3>1, <3>2, <3>8, <3>9 DEF Odm!TypeOK
    <3>11. Decoding'
      <4>1. \A j \in 1 .. k : j = k \/ j \in 1 .. n
        BY <1>4
      <4>2. \A j \in 1 .. k :
               printed'[j] = <<record.items[j].key, Odm!Shown(record.items[j].data)>>
        BY <1>3, <1>4, <2>1, <3>6, <3>8, <4>1 DEF Decoding
      <4>3. k <= Len(record.items)
        BY <3>4
      <4> HIDE DEF k
      <4>4. QED
        BY <1>3, <2>1, <3>2, <3>8, <3>9, <4>2, <4>3 DEF Decoding
    <3>12. QED
      BY <1>3, <2>1, <3>10, <3>11 DEF OdmInv, Listing
  <2>3. CASE ~ (n < Len(record.items))
    <3>1. record.form = "damaged" /\ 2 * Odm!Bytes[p + 3] - 4 \notin 0 .. Size - 1
      BY <1>4, <1>7, <2>1, <2>3, BehindItems DEF Odm!DecodeItem
    <3>2. odmPc' = "aborted" /\ UNCHANGED <<p, value, printed>>
      BY <1>7, <3>1 DEF Odm!DecodeItem, Odm!Goto
    <3>3. Len(printed) = Len(record.items)
      BY <1>1, <1>3, <1>4, <2>1, <2>3 DEF Decoding
    <3>4. QED
      BY <1>3, <2>1, <3>1, <3>2, <3>3 DEF OdmInv, Odm!TypeOK, Decoding, Listing
  <2>4. QED
    BY <2>2, <2>3
<1>8. CASE Odm!DecodeEnds
  <2>1. program = "disk" /\ odmPc = "decode" /\ odmPc' = "size" /\ Odm!Bytes[p] = Odm!Nul
        /\ UNCHANGED <<program, record, open, p, value, printed, devices, error, asked>>
    BY <1>3, <1>8 DEF Odm!DecodeEnds, Odm!Goto, Listing, Odm!TypeOK
  <2>2. ~ (n < Len(record.items))
    <3>1. SUFFICES ASSUME n < Len(record.items) PROVE FALSE
      OBVIOUS
    <3>2. n + 1 \in 1 .. Len(record.items)
      BY <1>1, <3>1
    <3>3. Odm!ItemAt(record, n + 1)
      BY <1>1, <3>2 DEF Odm!Formed
    <3>4. record.bytes[record.at[n + 1]] = Odm!Star
      BY <3>3 DEF Odm!ItemAt
    <3>5. QED
      BY <1>3, <1>4, <2>1, <3>4 DEF Decoding, Odm!Bytes, Odm!Star, Odm!Nul
  <2>3. Len(printed) = Len(record.items)
    BY <1>1, <1>3, <1>4, <2>1, <2>2 DEF Decoding
  <2>4. QED
    BY <1>3, <2>1, <2>3 DEF OdmInv, Odm!TypeOK, Decoding, Listing
<1>9. CASE Odm!GetSize
  BY <1>3, <1>9 DEF Odm!GetSize, Odm!Goto, OdmInv, Odm!TypeOK, Decoding, Listing
<1>10. CASE Odm!GetFirst
  <2>1. program = "procs" /\ odmPc = "first"
    BY <1>3, <1>10 DEF Odm!GetFirst, Decoding, Odm!TypeOK
  <2>2. /\ UNCHANGED <<program, record, open, p, value, printed, asked>>
        /\ \/ odmPc' = "loop" /\ devices < MaxDevices /\ devices' = devices + 1 /\ error' = FALSE
           \/ odmPc' = "terminate" /\ error' \in BOOLEAN /\ devices' = devices
    BY <1>10 DEF Odm!GetFirst, Odm!Answer, Odm!Goto
  <2>3. n = devices /\ devices \in 0 .. MaxDevices
    BY <1>2, <1>3, <1>4, <2>1 DEF Listing, Odm!TypeOK
  <2>4. devices' \in 0 .. MaxDevices
    BY <1>2, <2>2, <2>3
  <2>5. Odm!TypeOK'
    BY <1>3, <2>2, <2>4 DEF Odm!TypeOK
  <2>6. Listing'
    BY <1>4, <2>1, <2>2, <2>3 DEF Listing
  <2>7. QED
    BY <1>3, <2>1, <2>2, <2>5, <2>6 DEF OdmInv, Decoding
<1>11. CASE Odm!GetNext
  <2>1. program = "procs" /\ odmPc = "loop"
    BY <1>3, <1>11 DEF Odm!GetNext, Decoding, Odm!TypeOK
  <2>2. /\ printed' \in Seq(Seq(Odm!Byte) \X Seq(Odm!Byte) \cup {<<"device">>})
        /\ Len(printed') = IF error THEN n ELSE n + 1
    <3>1. Append(printed, <<"device">>) \in Seq(Seq(Odm!Byte) \X Seq(Odm!Byte) \cup {<<"device">>})
          /\ Len(Append(printed, <<"device">>)) = n + 1
      BY <1>3, <1>4 DEF Odm!TypeOK
    <3>2. QED
      BY <1>3, <1>4, <1>11, <3>1 DEF Odm!GetNext, Odm!TypeOK
  <2>3. /\ UNCHANGED <<program, record, open, p, value>>
        /\ \/ odmPc' = "loop" /\ devices < MaxDevices /\ devices' = devices + 1 /\ error' = FALSE
           \/ odmPc' = "terminate" /\ error' = FALSE /\ devices' = devices
           \/ odmPc' = "loop" /\ error' = TRUE /\ devices' = devices
    BY <1>11 DEF Odm!GetNext, Odm!Answer, Odm!Goto
  <2>4. Odm!TypeOK'
    <3>1. devices' \in 0 .. MaxDevices
      BY <1>2, <1>3, <2>3 DEF Odm!TypeOK
    <3>2. asked \in {0, 1} /\ asked' = 1 - asked
      BY <1>3, <1>11 DEF Odm!GetNext, Odm!TypeOK
    <3>3. asked' \in {0, 1}
      BY <3>2
    <3>4. QED
      BY <1>3, <2>2, <2>3, <3>1, <3>3 DEF Odm!TypeOK
  <2>5. n = devices - (IF ~ error THEN 1 ELSE 0) /\ devices \in Nat
    BY <1>2, <1>3, <1>4, <2>1 DEF Listing, Odm!TypeOK
  <2>6. Listing'
    BY <2>1, <2>2, <2>3, <2>5 DEF Listing
  <2>7. QED
    BY <1>3, <2>1, <2>3, <2>4, <2>6 DEF OdmInv, Decoding
<1>12. CASE Odm!Terminate
  BY <1>3, <1>12 DEF Odm!Terminate, Odm!Goto, OdmInv, Odm!TypeOK, Decoding, Listing
<1>13. CASE UNCHANGED Odm!vars
  BY <1>3, <1>13 DEF Odm!vars, OdmInv, Odm!TypeOK, Decoding, Listing
<1>14. QED
  BY <1>5, <1>6, <1>7, <1>8, <1>9, <1>10, <1>11, <1>12, <1>13 DEF Odm!Next

LEMMA OdmInvariance == Odm!Spec => []OdmInv
  BY OdmInit, OdmStep, PTL DEF Odm!Spec

\* What decodeVPD() prints of a record, and "procs" of the devices, is what there is, for
\* every record of this form.
THEOREM AllArePrinted == Odm!Spec => []AllPrinted
<1>1. ASSUME OdmInv PROVE AllPrinted
  <2>1. PICK n \in Nat : n = Len(printed) /\ DOMAIN printed = 1 .. n
    BY <1>1 DEF OdmInv, Odm!TypeOK
  <2>2. QED
    BY <1>1, <2>1 DEF OdmInv, Odm!TypeOK, Decoding, Listing, AllPrinted, Odm!AllPrinted
<1>2. QED
  BY <1>1, OdmInvariance, PTL

-----------------------------------------------------------------------------
(* DepStats: the lines of a text *)

Symbols == Names \cup Marks

\* Where p is between two lines.
Boundary(t, q) == q \in 1 .. Len(t) + 1 /\ (q = 1 \/ q = Len(t) + 1 \/ t[q] = "nl")

\* What the line l that _ParseNextLine() is given is of the line of t at k: from its first
\* character that is no blank, at s, to its end q.
Parsed(t, k, s, q, l) ==
    /\ s \in k .. Len(t) /\ \A n \in k .. s - 1 : t[n] = "sp"
    /\ t[s] \notin {"sp", "nl", "hash"}
    /\ End(t, k) = q
    /\ l = {n \in s .. q - 1 : t[n] # "cont"} /\ l # {}

LEMMA StartFacts ==
    ASSUME NEW t \in Seq(Symbols), NEW k \in Starts(t)
    PROVE  k \in 1 .. Len(t) + 1 /\ (k # 1 => k - 1 \in 1 .. Len(t) /\ t[k - 1] = "nl")
<1>1. DOMAIN t = 1 .. Len(t) /\ Len(t) \in Nat
  OBVIOUS
<1>2. QED
  BY <1>1 DEF Starts

LEMMA EndFacts ==
    ASSUME NEW t \in Seq(Symbols), NEW k \in 1 .. Len(t) + 1
    PROVE  /\ End(t, k) \in k .. Len(t) + 1 /\ End(t, k) \in 1 .. Len(t) + 1
           /\ \A n \in k .. End(t, k) - 1 : t[n] # "nl"
           /\ End(t, k) <= Len(t) => t[End(t, k)] = "nl"
<1>1. Len(t) \in Nat
  OBVIOUS
<1>2. /\ End(t, k) \in k .. Len(t) + 1
      /\ \A n \in k .. End(t, k) - 1 : t[n] \notin {"nl"}
      /\ End(t, k) <= Len(t) => t[End(t, k)] \in {"nl"}
  BY Arrives DEF End
<1>3. QED
  BY <1>1, <1>2

\* Every position is on a line.
LEMMA LineOf ==
    ASSUME NEW t \in Seq(Symbols), NEW i \in 1 .. Len(t) + 1
    PROVE  \E k \in Starts(t) : k <= i /\ \A n \in k .. i - 1 : t[n] # "nl"
<1> DEFINE A == {m \in 0 .. i : \E k \in Starts(t) : m = i - k}
<1>1. DOMAIN t = 1 .. Len(t) /\ Len(t) \in Nat /\ i \in Nat
  OBVIOUS
<1>2. \A k \in Starts(t) : k \in Nat
  BY <1>1, StartFacts
<1>3. i - 1 \in A
  BY <1>1 DEF Starts
<1>4. A \in SUBSET Nat /\ A # {}
  BY <1>1, <1>3
<1>5. Min(A) \in A /\ \A y \in A : Min(A) <= y
  BY <1>4, Least
<1>6. PICK k \in Starts(t) : Min(A) = i - k /\ i - k \in 0 .. i
  BY <1>5
<1>7. k \in Nat /\ k >= 1
  BY <1>1, StartFacts
<1>8. ASSUME NEW n \in k .. i - 1, t[n] = "nl" PROVE FALSE
  <2>1. n \in 1 .. Len(t) /\ n \in Nat
    BY <1>1, <1>7
  <2>2. n + 1 \in Starts(t)
    BY <1>1, <1>8, <2>1 DEF Starts
  <2>3. i - (n + 1) \in 0 .. i
    BY <1>1, <1>7
  <2>4. i - (n + 1) \in A
    BY <2>2, <2>3
  <2>5. i - k <= i - (n + 1)
    BY <1>5, <1>6, <2>4
  <2>6. QED
    BY <1>1, <1>7, <2>1, <2>5
<1>9. k <= i
  BY <1>1, <1>6, <1>7
<1>10. QED
  BY <1>6, <1>8, <1>9

\* A line ends before the next one begins.
LEMMA LinesApart ==
    ASSUME NEW t \in Seq(Symbols), NEW j \in Starts(t), NEW k \in Starts(t), j < k
    PROVE  End(t, j) < k
<1>1. PICK l \in Nat : l = Len(t)
  OBVIOUS
<1>2. j \in 1 .. l + 1 /\ k \in 1 .. l + 1 /\ (k # 1 => t[k - 1] = "nl")
  BY <1>1, StartFacts
<1>3. End(t, j) \in j .. l + 1 /\ \A n \in j .. End(t, j) - 1 : t[n] # "nl"
  BY <1>1, <1>2, EndFacts
<1>4. PICK e \in Nat : e = End(t, j)
  BY <1>2, <1>3
<1>5. k - 1 \in Nat /\ k - 1 >= j /\ t[k - 1] = "nl"
  BY <1>2
<1>6. ~ (k - 1 \in j .. e - 1)
  BY <1>3, <1>4, <1>5
<1>7. QED
  BY <1>2, <1>4, <1>5, <1>6

\* A line that begins before a boundary ends there or before.
LEMMA EndsBefore ==
    ASSUME NEW t \in Seq(Symbols), NEW q, Boundary(t, q), NEW k \in Starts(t), k < q
    PROVE  End(t, k) <= q
<1>1. PICK l \in Nat : l = Len(t)
  OBVIOUS
<1>2. k \in 1 .. l + 1
  BY <1>1, StartFacts
<1>3. End(t, k) \in k .. l + 1 /\ \A n \in k .. End(t, k) - 1 : t[n] # "nl"
  BY <1>1, <1>2, EndFacts
<1>4. PICK e \in Nat : e = End(t, k)
  BY <1>2, <1>3
<1>5. q \in 1 .. l + 1 /\ (q = 1 \/ q = l + 1 \/ t[q] = "nl")
  BY <1>1 DEF Boundary
<1>6. t[q] = "nl" => ~ (q < e)
  BY <1>2, <1>3, <1>4, <1>5
<1>7. QED
  BY <1>2, <1>3, <1>4, <1>5, <1>6

\* A line in a stretch of blanks and newlines is blank.
LEMMA WhiteIsBlank ==
    ASSUME NEW t \in Seq(Symbols), NEW q \in Nat, NEW r \in Nat, \A n \in q .. r - 1 : t[n] \in White,
           NEW k \in Starts(t), q <= k, End(t, k) <= r
    PROVE  Blank(t, k)
<1>1. PICK l \in Nat : l = Len(t)
  OBVIOUS
<1>2. k \in 1 .. l + 1
  BY <1>1, StartFacts
<1>3. End(t, k) \in k .. l + 1 /\ \A n \in k .. End(t, k) - 1 : t[n] # "nl"
  BY <1>1, <1>2, EndFacts
<1>4. PICK e \in Nat : e = End(t, k)
  BY <1>2, <1>3
<1>5. \A n \in k .. e - 1 : n \in q .. r - 1
  BY <1>2, <1>4
<1>6. QED
  BY <1>3, <1>4, <1>5 DEF Blank, On, White

\* Behind a boundary and a stretch of blanks and newlines, a line begins in that stretch.
LEMMA LineHere ==
    ASSUME NEW t \in Seq(Symbols), NEW q, Boundary(t, q), NEW s \in q .. Len(t),
           \A n \in q .. s - 1 : t[n] \in White, t[s] \notin White
    PROVE  \E k \in Starts(t) : q <= k /\ k <= s /\ \A n \in k .. s - 1 : t[n] = "sp"
<1>1. PICK l \in Nat : l = Len(t)
  OBVIOUS
<1>2. q \in 1 .. l + 1 /\ (q = 1 \/ q = l + 1 \/ t[q] = "nl")
  BY <1>1 DEF Boundary
<1>3. s \in q .. l /\ s \in 1 .. Len(t) + 1
  BY <1>1, <1>2
<1>4. PICK k \in Starts(t) : k <= s /\ \A n \in k .. s - 1 : t[n] # "nl"
  BY <1>3, LineOf
<1>5. k \in 1 .. l + 1
  BY <1>1, StartFacts
<1>6. q <= k
  <2>1. SUFFICES ASSUME k < q PROVE FALSE
    BY <1>2, <1>5
  <2>2. t[q] = "nl" /\ q \in Nat
    BY <1>2, <1>3, <1>5, <2>1
  <2>3. q # s
    BY <2>2 DEF White
  <2>4. q \in k .. s - 1
    BY <1>2, <1>3, <1>5, <2>1, <2>3
  <2>5. QED
    BY <1>4, <2>2, <2>4
<1>7. \A n \in k .. s - 1 : t[n] = "sp"
  <2>1. \A n \in k .. s - 1 : n \in q .. s - 1
    BY <1>2, <1>5, <1>6
  <2>2. QED
    BY <1>4, <2>1 DEF White
<1>8. QED
  BY <1>4, <1>6, <1>7

\* Searching the end of a line from a later position of it finds the same.
LEMMA EndFrom ==
    ASSUME NEW t \in Seq(Symbols), NEW k \in Starts(t), NEW s \in k .. Len(t),
           \A n \in k .. s - 1 : t[n] = "sp", t[s] # "nl"
    PROVE  To(t, s, {"nl"}) = End(t, k) /\ s < End(t, k)
<1>1. PICK l \in Nat : l = Len(t)
  OBVIOUS
<1>2. k \in 1 .. l + 1 /\ s \in 1 .. Len(t) + 1
  BY <1>1, StartFacts
<1>3. /\ End(t, k) \in k .. l + 1 /\ \A n \in k .. End(t, k) - 1 : t[n] # "nl"
      /\ End(t, k) <= l => t[End(t, k)] = "nl"
  BY <1>1, <1>2, EndFacts
<1>4. PICK e \in Nat : e = End(t, k)
  BY <1>2, <1>3
<1>5. ~ (e < s)
  <2>1. e < s => e \in k .. s - 1 /\ e <= l
    BY <1>1, <1>2, <1>3, <1>4
  <2>2. QED
    BY <1>3, <1>4, <2>1
<1>6. e # s
  BY <1>1, <1>3, <1>4
<1>7. e \in s .. Len(t) + 1 /\ \A n \in s .. e - 1 : t[n] \notin {"nl"}
  <2>1. e \in s .. l + 1 /\ \A n \in s .. e - 1 : n \in k .. e - 1
    BY <1>2, <1>3, <1>4, <1>5
  <2>2. QED
    BY <1>1, <1>3, <1>4, <2>1
<1>8. e <= Len(t) => t[e] \in {"nl"}
  BY <1>1, <1>3, <1>4
<1>9. To(t, s, {"nl"}) = e
  BY <1>2, <1>7, <1>8, ArrivesAt
<1>10. QED
  BY <1>2, <1>4, <1>5, <1>6, <1>9

\* Where _GetNextLine() stops at a character that begins no comment, the lines it has
\* passed are blank but for the one it is on.
LEMMA LinesPassed ==
    ASSUME NEW t \in Seq(Symbols), NEW q, Boundary(t, q), NEW s \in q .. Len(t),
           \A n \in q .. s - 1 : t[n] \in White, t[s] \notin White
    PROVE  LET e == To(t, s, {"nl"})
           IN  /\ Boundary(t, e) /\ q <= e
               /\ \E k \in Starts(t) : q <= k /\ s \in k .. Len(t) /\ End(t, k) = e
                                       /\ \A n \in k .. s - 1 : t[n] = "sp"
               /\ \A j \in Starts(t) : j < e =>
                     \/ j < q
                     \/ Blank(t, j)
                     \/ /\ s \in j .. Len(t) /\ End(t, j) = e
                        /\ \A n \in j .. s - 1 : t[n] = "sp"
<1> DEFINE e == To(t, s, {"nl"})
<1>1. PICK l \in Nat : l = Len(t)
  OBVIOUS
<1>2. q \in 1 .. l + 1
  BY <1>1 DEF Boundary
<1>3. PICK k \in Starts(t) : q <= k /\ k <= s /\ \A n \in k .. s - 1 : t[n] = "sp"
  BY LineHere
<1>4. k \in 1 .. l + 1 /\ s \in k .. Len(t) /\ s \in Nat /\ s <= l
  BY <1>1, <1>2, <1>3, StartFacts
<1>5. End(t, k) = e /\ s < e
  BY <1>3, <1>4, EndFrom DEF White
<1>6. /\ End(t, k) \in k .. l + 1
      /\ End(t, k) <= l => t[End(t, k)] = "nl"
  BY <1>1, <1>4, EndFacts
<1> HIDE DEF e
<1>7. Boundary(t, e)
  BY <1>1, <1>2, <1>4, <1>5, <1>6 DEF Boundary
<1>8. ASSUME NEW j \in Starts(t), j < e, ~ (j < q), j # k PROVE Blank(t, j)
  <2>1. j \in 1 .. l + 1
    BY <1>1, StartFacts
  <2>2. ~ (k < j)
    BY <1>4, <1>5, <1>6, <1>8, <2>1, LinesApart
  <2>3. End(t, j) < k
    BY <1>4, <1>8, <2>1, <2>2, LinesApart
  <2>4. End(t, j) \in j .. l + 1
    BY <1>1, <2>1, EndFacts
  <2>5. q \in Nat /\ q <= j /\ End(t, j) <= s
    BY <1>2, <1>4, <1>8, <2>1, <2>3, <2>4
  <2>6. QED
    BY <1>4, <2>5, WhiteIsBlank
<1>9. q <= e
  BY <1>2, <1>4, <1>5, <1>6
<1>10. \A j \in Starts(t) : j < e =>
                     \/ j < q
                     \/ Blank(t, j)
                     \/ /\ s \in j .. Len(t) /\ End(t, j) = e
                        /\ \A n \in j .. s - 1 : t[n] = "sp"
  BY <1>3, <1>4, <1>5, <1>8
<1>11. QED
  BY <1>3, <1>4, <1>5, <1>7, <1>9, <1>10 DEF e

\* The text from where a line begins, up to its end.
Taken(t, s) == {n \in s .. To(t, s, {"nl"}) - 1 : t[n] # "cont"}

\* What _GetNextLine() returns where no comment begins: the line it is on, unless that is
\* blank, and it has passed nothing else.
LEMMA LineTaken ==
    ASSUME NEW t \in Seq(Symbols), NEW q, Boundary(t, q), NEW s \in q .. Len(t),
           \A n \in q .. s - 1 : t[n] \in White, t[s] \notin White, t[s] # "hash"
    PROVE  LET e == To(t, s, {"nl"})
               l == Taken(t, s)
           IN  /\ Boundary(t, e) /\ q <= e
               /\ l # {} => \E k \in Starts(t) : Parsed(t, k, s, e, l)
               /\ \A j \in Starts(t) : j < e => j < q \/ Blank(t, j) \/ Parsed(t, j, s, e, l)
<1> DEFINE e == To(t, s, {"nl"})
           l == Taken(t, s)
<1>1. /\ Boundary(t, e) /\ q <= e
      /\ \E k \in Starts(t) : q <= k /\ s \in k .. Len(t) /\ End(t, k) = e
                              /\ \A n \in k .. s - 1 : t[n] = "sp"
      /\ \A j \in Starts(t) : j < e =>
            \/ j < q
            \/ Blank(t, j)
            \/ /\ s \in j .. Len(t) /\ End(t, j) = e
               /\ \A n \in j .. s - 1 : t[n] = "sp"
  BY LinesPassed
<1>2. l = {n \in s .. e - 1 : t[n] # "cont"}
  BY DEF Taken
<1>3. t[s] \notin {"sp", "nl", "hash"}
  BY DEF White
<1> HIDE DEF e, l
<1>4. \A j \in Starts(t) :
         /\ s \in j .. Len(t) /\ End(t, j) = e
         /\ \A n \in j .. s - 1 : t[n] = "sp"
         /\ l # {}
         => Parsed(t, j, s, e, l)
  BY <1>2, <1>3 DEF Parsed
<1>5. ASSUME NEW j \in Starts(t), s \in j .. Len(t), End(t, j) = e,
             \A n \in j .. s - 1 : t[n] = "sp", l = {}
      PROVE  Blank(t, j)
  <2>1. \A n \in s .. e - 1 : t[n] = "cont"
    BY <1>2, <1>5
  <2>2. PICK x \in Nat : x = Len(t)
    OBVIOUS
  <2>3. j \in Nat /\ s \in Nat
    BY <1>5, <2>2, StartFacts
  <2>4. e \in Nat
    BY <1>5, <2>2, <2>3, StartFacts, EndFacts
  <2>5. \A n \in j .. e - 1 : n \in j .. s - 1 \/ n \in s .. e - 1
    BY <2>3, <2>4
  <2>6. QED
    BY <1>5, <2>1, <2>5 DEF Blank, On
<1>6. QED
  BY <1>1, <1>4, <1>5 DEF e, l

\* The same where it first passes a comment.  The comment is one line, and no comment
\* follows it: that is what Plain is for.
LEMMA Advances ==
    ASSUME Text \in Seq(Symbols), Plain(Text), Boundary(Text, pos),
           Past(Text, pos, White) <= Len(Text)
    PROVE  LET s == LineStart(pos)
               e == To(Text, s, {"nl"})
               l == Taken(Text, s)
           IN  /\ s \in pos .. Len(Text) + 1 /\ Boundary(Text, e) /\ pos <= e
               /\ l # {} => \E k \in Starts(Text) : Parsed(Text, k, s, e, l)
               /\ \A j \in Starts(Text) : j < e =>
                     j < pos \/ Blank(Text, j) \/ Comment(Text, j) \/ Parsed(Text, j, s, e, l)
<1> DEFINE t == Text
           s0 == Past(t, pos, White)
           e0 == To(t, s0, {"nl", "cont"})
           s1 == Past(t, e0 + 1, White)
<1>1. PICK x \in Nat : x = Len(t)
  OBVIOUS
<1>2. pos \in 1 .. x + 1
  BY <1>1 DEF Boundary
<1>3. /\ s0 \in pos .. x /\ \A n \in pos .. s0 - 1 : t[n] \in White
      /\ t[s0] \notin White
  BY <1>1, <1>2, Passes
<1>4. LineStart(pos) = IF s0 <= Len(t) /\ t[s0] = "hash"
                       THEN IF e0 <= Len(t) THEN s1 ELSE e0 ELSE s0
  BY DEF LineStart
<1>5. t \in Seq(Symbols) /\ Plain(t) /\ Boundary(t, pos)
  OBVIOUS
<1> HIDE DEF t, s0, e0, s1
<1>6. CASE t[s0] # "hash"
  <2>1. LineStart(pos) = s0 /\ s0 \in pos .. Len(t)
    BY <1>1, <1>3, <1>4, <1>6
  <2>2. LET e == To(t, s0, {"nl"})
            l == Taken(t, s0)
        IN  /\ Boundary(t, e) /\ pos <= e
            /\ l # {} => \E k \in Starts(t) : Parsed(t, k, s0, e, l)
            /\ \A j \in Starts(t) : j < e => j < pos \/ Blank(t, j) \/ Parsed(t, j, s0, e, l)
    BY <1>3, <1>5, <1>6, <2>1, LineTaken
  <2>3. s0 \in pos .. Len(t) + 1
    BY <1>1, <1>2, <2>1
  <2>4. QED
    BY <2>1, <2>2, <2>3 DEF t
<1>7. CASE t[s0] = "hash"
  <2>1. s0 \in pos .. Len(t)
    BY <1>1, <1>3
  <2>2. /\ \E k \in Starts(t) : pos <= k /\ s0 \in k .. Len(t) /\ End(t, k) = To(t, s0, {"nl"})
                              /\ \A n \in k .. s0 - 1 : t[n] = "sp"
        /\ \A j \in Starts(t) : j < To(t, s0, {"nl"}) =>
            \/ j < pos
            \/ Blank(t, j)
            \/ /\ s0 \in j .. Len(t) /\ End(t, j) = To(t, s0, {"nl"})
               /\ \A n \in j .. s0 - 1 : t[n] = "sp"
    BY <1>3, <1>5, <2>1, LinesPassed
  <2>3. PICK f \in Nat : f = To(t, s0, {"nl"}) /\ f <= x + 1 /\ (f <= x => t[f] = "nl")
    <3>1. s0 \in 1 .. Len(t) + 1
      BY <1>1, <1>2, <2>1
    <3>2. To(t, s0, {"nl"}) \in s0 .. Len(t) + 1
          /\ (To(t, s0, {"nl"}) <= Len(t) => t[To(t, s0, {"nl"})] \in {"nl"})
      BY <1>5, <3>1, Arrives
    <3>3. QED
      BY <1>1, <3>1, <3>2
  <2>4. PICK k0 \in Starts(t) : /\ pos <= k0 /\ s0 \in k0 .. x /\ End(t, k0) = f
                                /\ \A n \in k0 .. s0 - 1 : t[n] = "sp"
    BY <1>1, <2>2, <2>3
  <2>5. k0 \in 1 .. x + 1
    BY <1>1, <1>5, StartFacts
  <2>6. s0 < f
    BY <1>1, <1>5, <1>7, <2>4, EndFrom
  <2>7. \A j \in Starts(t) : s0 \in j .. Len(t) /\ End(t, j) = f
                             /\ (\A n \in j .. s0 - 1 : t[n] = "sp") => Comment(t, j)
    <3>1. TAKE j \in Starts(t)
    <3>2. HAVE s0 \in j .. Len(t) /\ End(t, j) = f /\ (\A n \in j .. s0 - 1 : t[n] = "sp")
    <3>3. j \in 1 .. x + 1
      BY <1>1, <1>5, StartFacts
    <3>4. s0 \in j .. f - 1
      BY <1>1, <2>6, <3>2, <3>3
    <3>5. QED
      BY <1>7, <3>2, <3>4 DEF Comment, On
  <2>8. \A j \in Starts(t) : j < f => j < pos \/ Blank(t, j) \/ Comment(t, j)
    BY <2>2, <2>3, <2>7
  <2>9. Comment(t, k0)
    BY <1>1, <2>4, <2>7
  <2>10. e0 = f
    <3>1. \A n \in On(t, k0) : t[n] # "cont"
      BY <1>5, <2>9 DEF Plain
    <3>2. \A n \in k0 .. f - 1 : t[n] # "nl" /\ t[n] # "cont"
      BY <1>1, <1>5, <2>4, <2>5, <3>1, EndFacts DEF On
    <3>3. \A n \in s0 .. f - 1 : n \in k0 .. f - 1
      BY <2>4, <2>5
    <3>4. \A n \in s0 .. f - 1 : t[n] \notin {"nl", "cont"}
      BY <3>2, <3>3
    <3>5. s0 \in 1 .. Len(t) + 1 /\ f \in s0 .. Len(t) + 1
      BY <1>1, <2>3, <2>4, <2>5, <2>6
    <3>6. f <= Len(t) => t[f] \in {"nl", "cont"}
      BY <1>1, <2>3
    <3>7. QED
      BY <1>5, <3>4, <3>5, <3>6, ArrivesAt DEF e0
  <2>11. pos < f
    BY <1>2, <2>4, <2>5, <2>6
  <2>12. ASSUME LineStart(pos) = x + 1,
                \A j \in Starts(t) : j < x + 1 => j < pos \/ Blank(t, j) \/ Comment(t, j)
         PROVE  LET s == LineStart(pos)
                    e == To(Text, s, {"nl"})
                    l == Taken(Text, s)
                IN  /\ s \in pos .. Len(Text) + 1 /\ Boundary(Text, e) /\ pos <= e
                    /\ l # {} => \E k \in Starts(Text) : Parsed(Text, k, s, e, l)
                    /\ \A j \in Starts(Text) : j < e =>
                          j < pos \/ Blank(Text, j) \/ Comment(Text, j) \/ Parsed(Text, j, s, e, l)
    <3>1. To(t, x + 1, {"nl"}) = x + 1
      <4>1. x + 1 \in 1 .. Len(t) + 1 /\ To(t, x + 1, {"nl"}) \in x + 1 .. Len(t) + 1
        BY <1>1, <1>5, Arrives
      <4>2. QED
        BY <1>1, <4>1
    <3>2. Taken(t, x + 1) = {}
      BY <3>1 DEF Taken
    <3>3. Boundary(t, x + 1)
      BY <1>1 DEF Boundary
    <3>4. pos <= x + 1 /\ x + 1 \in pos .. Len(t) + 1
      BY <1>1, <1>2
    <3>5. QED
      BY <2>12, <3>1, <3>2, <3>3, <3>4 DEF t
  <2>13. CASE f > x
    <3>1. f = x + 1 /\ LineStart(pos) = x + 1
      BY <1>1, <1>3, <1>4, <1>7, <2>3, <2>10, <2>13
    <3>2. QED
      BY <1>2, <2>8, <2>12, <3>1
  <2>14. CASE f <= x
    <3>1. LineStart(pos) = s1 /\ t[f] = "nl" /\ Boundary(t, f) /\ f >= 1
      BY <1>1, <1>3, <1>4, <1>7, <2>3, <2>6, <2>10, <2>14, <1>2 DEF Boundary
    <3>2. /\ s1 \in f + 1 .. x + 1 /\ \A n \in f + 1 .. s1 - 1 : t[n] \in White
          /\ s1 <= x => t[s1] \notin White
      <4>1. f + 1 \in 1 .. Len(t) + 1
        BY <1>1, <2>14, <3>1
      <4>2. s1 = Past(t, f + 1, White)
        BY <2>10 DEF s1
      <4>3. QED
        BY <1>1, <1>5, <4>1, <4>2, Passes
    <3>3. \A n \in f .. s1 - 1 : t[n] \in White
      BY <3>1, <3>2 DEF White
    <3>4. CASE s1 > x
      <4>1. s1 = x + 1
        BY <3>2, <3>4
      <4>2. ASSUME NEW j \in Starts(t), ~ (j < f) PROVE Blank(t, j)
        <5>1. j \in 1 .. x + 1
          BY <1>1, <1>5, StartFacts
        <5>2. End(t, j) \in j .. x + 1
          BY <1>1, <1>5, <5>1, EndFacts
        <5>3. f <= j /\ End(t, j) <= x + 1 /\ x + 1 \in Nat
          BY <4>2, <5>1, <5>2
        <5>4. QED
          BY <1>5, <3>3, <4>1, <5>3, WhiteIsBlank
      <4>3. \A j \in Starts(t) : j < x + 1 => j < pos \/ Blank(t, j) \/ Comment(t, j)
        BY <2>8, <4>2
      <4>4. QED
        BY <1>2, <2>12, <3>1, <4>1, <4>3
    <3>5. CASE s1 <= x
      <4>1. s1 \in f .. Len(t) /\ t[s1] \notin White
        BY <1>1, <3>2, <3>5
      <4>2. /\ \E k \in Starts(t) : f <= k /\ s1 \in k .. Len(t) /\ End(t, k) = To(t, s1, {"nl"})
                              /\ \A n \in k .. s1 - 1 : t[n] = "sp"
            /\ \A j \in Starts(t) : j < To(t, s1, {"nl"}) =>
                \/ j < f
                \/ Blank(t, j)
                \/ /\ s1 \in j .. Len(t) /\ End(t, j) = To(t, s1, {"nl"})
                   /\ \A n \in j .. s1 - 1 : t[n] = "sp"
        BY <1>5, <3>1, <3>3, <4>1, LinesPassed
      <4>3. t[s1] # "hash"
        <5>1. SUFFICES ASSUME t[s1] = "hash" PROVE FALSE
          OBVIOUS
        <5>2. PICK k1 \in Starts(t) : /\ f <= k1 /\ s1 \in k1 .. Len(t)
                                      /\ End(t, k1) = To(t, s1, {"nl"})
                                      /\ \A n \in k1 .. s1 - 1 : t[n] = "sp"
          BY <4>2
        <5>3. k1 \in 1 .. x + 1
          BY <1>1, <1>5, StartFacts
        <5>4. s1 < End(t, k1)
          BY <1>5, <5>1, <5>2, EndFrom
        <5>5. End(t, k1) \in k1 .. x + 1
          BY <1>1, <1>5, <5>3, EndFacts
        <5>6. s1 \in k1 .. End(t, k1) - 1
          BY <3>2, <5>2, <5>3, <5>4, <5>5
        <5>7. Comment(t, k1)
          BY <5>1, <5>2, <5>6 DEF Comment, On
        <5>8. k0 < k1
          BY <2>4, <2>5, <2>6, <5>2, <5>3
        <5>9. PICK u \in Starts(t) : k0 < u /\ u < k1 /\ ~ Blank(t, u) /\ ~ Comment(t, u)
          BY <1>5, <2>9, <5>7, <5>8 DEF Plain
        <5>10. u \in 1 .. x + 1
          BY <1>1, <1>5, StartFacts
        <5>11. ~ (u < f)
          BY <1>2, <2>4, <2>5, <2>8, <5>9, <5>10
        <5>12. u < End(t, k1)
          BY <3>2, <5>3, <5>5, <5>9, <5>10
        <5>13. End(t, u) = End(t, k1)
          BY <4>2, <5>2, <5>9, <5>11, <5>12
        <5>14. End(t, u) < k1
          BY <1>5, <5>9, LinesApart
        <5>15. QED
          BY <5>3, <5>5, <5>13, <5>14
      <4>4. LET e == To(t, s1, {"nl"})
                l == Taken(t, s1)
            IN  /\ Boundary(t, e) /\ f <= e
                /\ l # {} => \E k \in Starts(t) : Parsed(t, k, s1, e, l)
                /\ \A j \in Starts(t) : j < e => j < f \/ Blank(t, j) \/ Parsed(t, j, s1, e, l)
        BY <1>5, <3>1, <3>3, <4>1, <4>3, LineTaken
      <4>5. s1 \in pos .. Len(t) + 1
        BY <1>1, <1>2, <2>11, <3>2
      <4>6. To(t, s1, {"nl"}) \in 1 .. x + 1
        BY <1>1, <4>4 DEF Boundary
      <4>7. pos <= To(t, s1, {"nl"})
        BY <1>2, <2>11, <4>4, <4>6
      <4>8. QED
        BY <2>8, <3>1, <4>4, <4>5, <4>7 DEF t
    <3>6. QED
      BY <3>2, <3>4, <3>5
  <2>15. QED
    BY <2>3, <2>13, <2>14
<1>8. QED
  BY <1>6, <1>7

\* Wherever a line begins, it ends between two lines, in the text.
LEMMA Reaches ==
    ASSUME Text \in Seq(Symbols), pos \in 1 .. Len(Text) + 1
    PROVE  LET s == LineStart(pos)
               e == To(Text, s, {"nl"})
           IN  s \in pos .. Len(Text) + 1 /\ e \in s .. Len(Text) + 1 /\ Boundary(Text, e)
<1> DEFINE t == Text
           s0 == Past(t, pos, White)
           e0 == To(t, s0, {"nl", "cont"})
           s1 == Past(t, e0 + 1, White)
           s == LineStart(pos)
<1>1. PICK x \in Nat : x = Len(t)
  OBVIOUS
<1>2. s0 \in pos .. x + 1 /\ s0 \in 1 .. Len(t) + 1
  BY <1>1, Passes
<1>3. e0 \in s0 .. x + 1
  BY <1>1, <1>2, Arrives
<1>4. e0 <= x => s1 \in e0 + 1 .. x + 1
  <2>1. e0 <= x => e0 + 1 \in 1 .. Len(t) + 1
    BY <1>1, <1>2, <1>3
  <2>2. QED
    BY <1>1, <2>1, Passes
<1>5. s = IF s0 <= Len(t) /\ t[s0] = "hash" THEN IF e0 <= Len(t) THEN s1 ELSE e0 ELSE s0
  BY DEF LineStart
<1>6. t \in Seq(Symbols)
  OBVIOUS
<1> HIDE DEF s0, e0, s1, s
<1>7. s \in pos .. x + 1 /\ s \in 1 .. Len(t) + 1
  BY <1>1, <1>2, <1>3, <1>4, <1>5
<1>8. /\ To(t, s, {"nl"}) \in s .. Len(t) + 1
      /\ To(t, s, {"nl"}) <= Len(t) => t[To(t, s, {"nl"})] \in {"nl"}
  BY <1>6, <1>7, Arrives
<1>9. Boundary(t, To(t, s, {"nl"}))
  BY <1>1, <1>7, <1>8 DEF Boundary
<1>10. QED
  BY <1>1, <1>7, <1>8, <1>9 DEF s

-----------------------------------------------------------------------------
(* DepStats: what has been read *)

\* The files before this one, and of this one the lines before p, say what the program
\* understands; the line that is parsed is one of the text.
LinesRead ==
    /\ \A f \in DOMAIN files : f < file =>
          files[f] # Missing /\ \A k \in Starts(files[f]) : Understood(files[f], k)
    /\ pc = "getLine" => \A k \in Starts(Text) : k < pos => Understood(Text, k)
    /\ pc = "parse" => \E s \in 1 .. Len(Text) :
          /\ \E k \in Starts(Text) : Parsed(Text, k, s, pos, line)
          /\ \A k \in Starts(Text) : k < pos => Understood(Text, k) \/ Parsed(Text, k, s, pos, line)
    /\ pc = "failed" => ~ Good

ReadInv ==
    /\ TypeOK /\ files \in Inputs
    /\ pc = "load" => line = {}
    /\ pc \in {"getLine", "parse"} => Text # Missing /\ Boundary(Text, pos)
    /\ pc = "printed" => file = Len(files) + 1
    /\ AllPlain => LinesRead

\* The text of the line at k, and what is parsed of it.
LEMMA ParsedFacts ==
    ASSUME Text \in Seq(Symbols), NEW k \in Starts(Text), NEW s, Parsed(Text, k, s, pos, line)
    PROVE  /\ k \in Nat /\ s \in Nat /\ pos \in Nat /\ k >= 1 /\ k <= s /\ pos <= Len(Text) + 1
           /\ On(Text, k) = k .. pos - 1 /\ \A n \in k .. s - 1 : Text[n] = "sp"
           /\ line \subseteq s .. pos - 1
           /\ \A n \in s .. pos - 1 : n \in line <=> Text[n] # "cont"
           /\ Text[s] \notin {"sp", "nl", "hash"} /\ s < pos
           /\ \A n \in k .. pos - 1 : Text[n] # "nl"
<1> DEFINE t == Text
<1>1. PICK x \in Nat : x = Len(t)
  OBVIOUS
<1>2. t \in Seq(Symbols) /\ k \in Starts(t) /\ Parsed(t, k, s, pos, line)
  OBVIOUS
<1> HIDE DEF t
<1>3. k \in 1 .. x + 1
  BY <1>1, <1>2, StartFacts
<1>4. /\ End(t, k) = pos /\ pos \in k .. x + 1
      /\ \A n \in k .. End(t, k) - 1 : t[n] # "nl"
      /\ End(t, k) <= x => t[End(t, k)] = "nl"
  BY <1>1, <1>2, <1>3, EndFacts DEF Parsed
<1>5. /\ s \in k .. x /\ \A n \in k .. s - 1 : t[n] = "sp"
      /\ t[s] \notin {"sp", "nl", "hash"}
      /\ line = {n \in s .. pos - 1 : t[n] # "cont"}
  BY <1>1, <1>2 DEF Parsed
<1>6. s < pos
  BY <1>1, <1>2, <1>4, <1>5, EndFrom
<1>7. On(t, k) = k .. pos - 1
  BY <1>4 DEF On
<1>8. QED
  BY <1>1, <1>3, <1>4, <1>5, <1>6, <1>7 DEF t

\* A line with a target and its colon is a rule.
LEMMA ColonIsRule ==
    ASSUME Text \in Seq(Symbols), NEW k \in Starts(Text), NEW s, Parsed(Text, k, s, pos, line),
           NEW c, Colon(c)
    PROVE  /\ Rule(Text, k) /\ c \in line /\ c \in s .. pos - 1 /\ Text[c] = "colon"
           /\ \A n \in k .. c - 1 : Text[n] # "colon"
<1>1. /\ k \in Nat /\ s \in Nat /\ pos \in Nat /\ k >= 1 /\ k <= s
      /\ On(Text, k) = k .. pos - 1 /\ \A n \in k .. s - 1 : Text[n] = "sp"
      /\ line \subseteq s .. pos - 1
      /\ \A n \in s .. pos - 1 : n \in line <=> Text[n] # "cont"
  BY ParsedFacts
<1>2. c \in line /\ Text[c] = "colon"
  BY DEF Colon, Ends
<1>3. c \in s .. pos - 1 /\ c \in Nat
  BY <1>1, <1>2
<1>4. \A n \in line : Text[n] \in {"sp", "colon"} /\ n < c =>
         Text[n] = "sp" /\ \A m \in line : m <= n => Text[m] = "sp"
  <2>1. SUFFICES ASSUME NEW n \in line, Text[n] \in {"sp", "colon"}, n < c,
                        ~ (Text[n] = "sp" /\ \A m \in line : m <= n => Text[m] = "sp")
                 PROVE  FALSE
    OBVIOUS
  <2>2. n \in Nat
    BY <1>1
  <2>3. \E m \in line : m <= n /\ Text[m] # "sp"
    BY <2>1, <2>2
  <2>4. n \in Ends
    BY <2>1, <2>3 DEF Ends
  <2>5. c <= n
    BY <2>4 DEF Colon
  <2>6. QED
    BY <1>3, <2>1, <2>2, <2>5
<1>5. ASSUME NEW n \in k .. c - 1
      PROVE  /\ Text[n] # "colon"
             /\ Text[n] = "sp" => \A m \in k .. n : Text[m] \in {"sp", "cont"}
  <2>1. CASE n < s
    <3>1. \A m \in k .. n : m \in k .. s - 1
      BY <1>1, <1>3, <2>1
    <3>2. n \in k .. s - 1
      BY <1>1, <1>3, <2>1
    <3>3. QED
      BY <1>1, <3>1, <3>2
  <2>2. CASE ~ (n < s)
    <3>1. n \in s .. pos - 1 /\ n < c /\ n \in Nat
      BY <1>1, <1>3, <2>2
    <3>2. Text[n] # "colon"
      BY <1>1, <1>4, <3>1
    <3>3. ASSUME Text[n] = "sp", NEW m \in k .. n PROVE Text[m] \in {"sp", "cont"}
      <4>1. m < s => m \in k .. s - 1
        BY <1>1, <3>1
      <4>2. ~ (m < s) => m \in s .. pos - 1 /\ m <= n
        BY <1>1, <3>1
      <4>3. n \in line
        BY <1>1, <3>1, <3>3
      <4>4. QED
        BY <1>1, <1>4, <3>1, <3>3, <4>1, <4>2, <4>3
    <3>4. QED
      BY <3>2, <3>3
  <2>3. QED
    BY <2>1, <2>2
<1>6. c \in On(Text, k)
  BY <1>1, <1>3
<1>7. QED
  BY <1>2, <1>3, <1>5, <1>6 DEF Rule

\* One without is not, nor is it blank or a comment.
LEMMA NoColonIsBad ==
    ASSUME Text \in Seq(Symbols), Plain(Text), NEW k \in Starts(Text), NEW s,
           Parsed(Text, k, s, pos, line), ~ \E c \in line : Colon(c)
    PROVE  ~ Understood(Text, k)
<1>1. /\ k \in Nat /\ s \in Nat /\ pos \in Nat /\ k >= 1 /\ k <= s
      /\ On(Text, k) = k .. pos - 1 /\ \A n \in k .. s - 1 : Text[n] = "sp"
      /\ line \subseteq s .. pos - 1
      /\ \A n \in s .. pos - 1 : n \in line <=> Text[n] # "cont"
      /\ Text[s] \notin {"sp", "nl", "hash"} /\ s < pos
  BY ParsedFacts
<1>2. s \in On(Text, k)
  BY <1>1
<1>3. ~ Blank(Text, k)
  BY <1>1, <1>2 DEF Blank, Plain
<1>4. ~ Comment(Text, k)
  <2>1. SUFFICES ASSUME NEW h \in On(Text, k), Text[h] = "hash", \A n \in k .. h - 1 : Text[n] = "sp"
                 PROVE  FALSE
    BY DEF Comment
  <2>2. h \in k .. pos - 1 /\ h \in Nat
    BY <1>1
  <2>3. h < s => h \in k .. s - 1
    BY <1>1, <2>2
  <2>4. s < h => s \in k .. h - 1
    BY <1>1, <2>2
  <2>5. QED
    BY <1>1, <2>1, <2>2, <2>3, <2>4
<1>5. ~ Rule(Text, k)
  <2>1. SUFFICES ASSUME NEW c \in On(Text, k), Text[c] = "colon",
                        \A n \in k .. c - 1 :
                           /\ Text[n] # "colon"
                           /\ Text[n] = "sp" => \A m \in k .. n : Text[m] \in {"sp", "cont"}
                 PROVE  FALSE
    BY DEF Rule
  <2>2. c \in k .. pos - 1 /\ c \in Nat
    BY <1>1
  <2>3. ~ (c < s)
    <3>1. c < s => c \in k .. s - 1
      BY <1>1, <2>2
    <3>2. QED
      BY <1>1, <2>1, <3>1
  <2>4. c \in line
    BY <1>1, <2>1, <2>2, <2>3
  <2>5. c \in Ends
    BY <2>1, <2>2, <2>4 DEF Ends
  <2>6. ASSUME NEW n \in Ends PROVE c <= n
    <3>1. PICK m \in line : m <= n /\ Text[m] # "sp"
      BY DEF Ends
    <3>2. n \in line /\ Text[n] \in {"sp", "colon"}
      BY DEF Ends
    <3>3. m \in s .. pos - 1 /\ n \in s .. pos - 1 /\ Text[m] # "cont"
      BY <1>1, <3>1, <3>2
    <3>4. SUFFICES ASSUME n < c PROVE FALSE
      BY <2>2, <3>3
    <3>5. n \in k .. c - 1 /\ m \in k .. n
      BY <1>1, <2>2, <3>1, <3>3, <3>4
    <3>6. QED
      BY <2>1, <3>1, <3>2, <3>3, <3>5
  <2>7. QED
    BY <2>1, <2>4, <2>5, <2>6 DEF Colon
<1>6. QED
  BY <1>3, <1>4, <1>5 DEF Understood

LEMMA FilesAreTexts ==
    ASSUME files \in Inputs
    PROVE  /\ files \in Seq(Texts \cup {Missing}) /\ Len(files) \in Nat
           /\ DOMAIN files = 1 .. Len(files)
           /\ \A f \in 1 .. Len(files) : files[f] # Missing => files[f] \in Seq(Symbols)
<1>1. files \in Seq(Texts \cup {Missing})
  BY TextsAssumption
<1>2. \A f \in 1 .. Len(files) : files[f] \in Texts \cup {Missing}
  BY <1>1, ElementOfSeq
<1>3. Texts \subseteq Seq(Symbols)
  BY TextsAssumption DEF Symbols
<1>4. \A f \in 1 .. Len(files) : files[f] # Missing => files[f] \in Seq(Symbols)
  BY <1>2, <1>3
<1>5. Len(files) \in Nat /\ DOMAIN files = 1 .. Len(files)
  BY <1>1
<1>6. QED
  BY <1>1, <1>4, <1>5

LEMMA GivenNat ==
    ASSUME NEW d, NEW c, pos \in Nat, line \subseteq 1 .. pos - 1
    PROVE  Given(d, c) \in Nat
<1> DEFINE rest == {m \in line : m > c}
           at   == {n \in rest : Spells(Text, rest, n, d)}
<1>1. IsFiniteSet(1 .. pos - 1)
  BY FS_Interval
<1>2. at \in SUBSET (1 .. pos - 1)
  OBVIOUS
<1>3. IsFiniteSet(at)
  BY <1>1, <1>2, FS_Subset
<1>4. Cardinality(at) \in Nat
  BY <1>3, FS_CardinalityType
<1>5. QED
  BY <1>4 DEF Given

LEMMA ReadInit == Init => ReadInv
<1> SUFFICES ASSUME Init PROVE ReadInv
  OBVIOUS
<1>1. files \in Inputs /\ file = 1 /\ pos = 1 /\ line = {} /\ pc = "load"
      /\ count = [d \in Keys |-> 0]
  BY DEF Init
<1>2. Len(files) \in Nat /\ DOMAIN files = 1 .. Len(files)
  BY <1>1, FilesAreTexts
<1>3. count \in [Keys -> Nat]
  BY <1>1
<1>4. file \in 1 .. Len(files) + 1
  BY <1>1, <1>2
<1>5. TypeOK
  BY <1>1, <1>3, <1>4 DEF TypeOK
<1>6. \A f \in DOMAIN files : ~ (f < file)
  BY <1>1, <1>2
<1>7. LinesRead
  BY <1>1, <1>6 DEF LinesRead
<1>8. QED
  BY <1>1, <1>5, <1>7 DEF ReadInv

\* No action changes the files.
LEMMA SameFiles ==
    ASSUME [Next]_vars
    PROVE  files' = files /\ AllPlain' = AllPlain /\ Good' = Good
<1>1. files' = files
  BY DEF Next, vars, LoadFile, LoadFails, GetNextLine, NoMoreLines, CountLine, BadLine, Report
<1>2. QED
  BY <1>1 DEF AllPlain, Good

LEMMA ReadStep == ReadInv /\ [Next]_vars => ReadInv'
<1> SUFFICES ASSUME ReadInv, [Next]_vars PROVE ReadInv'
  OBVIOUS
<1>1. /\ TypeOK /\ files \in Inputs /\ (AllPlain => LinesRead)
      /\ pc = "load" => line = {}
      /\ pc \in {"getLine", "parse"} => Text # Missing /\ Boundary(Text, pos)
      /\ pc = "printed" => file = Len(files) + 1
  BY DEF ReadInv
<1>2. /\ files \in Seq(Texts \cup {Missing}) /\ Len(files) \in Nat
      /\ DOMAIN files = 1 .. Len(files)
      /\ \A f \in 1 .. Len(files) : files[f] # Missing => files[f] \in Seq(Symbols)
  BY <1>1, FilesAreTexts
<1>3. files' = files /\ AllPlain' = AllPlain /\ Good' = Good
  BY SameFiles
<1>4. file \in 1 .. Len(files) + 1 /\ count \in [Keys -> Nat]
      /\ pc \in {"load", "getLine", "parse", "printed", "failed"}
  BY <1>1 DEF TypeOK
<1>5. ASSUME pc \in {"getLine", "parse"}
      PROVE  /\ file \in 1 .. Len(files) /\ Text \in Seq(Symbols) /\ Len(Text) \in Nat
             /\ pos \in 1 .. Len(Text) + 1
             /\ line \subseteq 1 .. pos - 1 /\ \A n \in line : Text[n] \notin {"nl", "cont"}
             /\ AllPlain => Plain(Text)
  <2>1. /\ file <= Len(files) /\ Text \in Seq(Symbols)
        /\ pos \in 1 .. Len(Text) + 1
        /\ line \subseteq 1 .. pos - 1 /\ \A n \in line : Text[n] \notin {"nl", "cont"}
    BY <1>1, <1>5 DEF TypeOK, Symbols
  <2>2. file \in 1 .. Len(files)
    BY <1>2, <1>4, <2>1
  <2>3. AllPlain => Plain(Text)
    BY <1>1, <1>2, <1>5, <2>2 DEF AllPlain, Text
  <2>4. QED
    BY <2>1, <2>2, <2>3
<1>6. CASE LoadFile
  <2>1. /\ pc = "load" /\ file <= Len(files) /\ Text # Missing /\ pos' = 1 /\ pc' = "getLine"
        /\ file' = file /\ line' = {} /\ count' = count /\ Text' = Text
    BY <1>1, <1>6 DEF LoadFile, Text
  <2>2. Text \in Seq(Symbols) /\ Len(Text) \in Nat
    BY <1>2, <1>4, <2>1 DEF Text
  <2>3. TypeOK'
    BY <1>3, <1>4, <2>1, <2>2 DEF TypeOK, Symbols
  <2>4. Boundary(Text, pos)'
    BY <2>1, <2>2 DEF Boundary
  <2>5. ASSUME AllPlain PROVE LinesRead'
    <3>1. \A k \in Starts(Text) : ~ (k < 1)
      BY <2>2, StartFacts
    <3>2. QED
      BY <1>1, <1>3, <2>1, <2>5, <3>1 DEF LinesRead
  <2>6. QED
    BY <1>1, <1>3, <2>1, <2>3, <2>4, <2>5 DEF ReadInv
<1>7. CASE LoadFails
  <2>1. /\ pc = "load" /\ file <= Len(files) /\ Text = Missing /\ pc' = "failed"
        /\ file' = file /\ count' = count
    BY <1>7 DEF LoadFails
  <2>2. ~ Good
    BY <1>2, <1>4, <2>1 DEF Good, Text
  <2>3. TypeOK'
    BY <1>3, <1>4, <2>1 DEF TypeOK
  <2>4. QED
    BY <1>1, <1>3, <2>1, <2>2, <2>3 DEF ReadInv, LinesRead
<1>8. CASE GetNextLine
  <2> DEFINE s == LineStart(pos)
             e == To(Text, s, {"nl"})
             l == Taken(Text, s)
  <2>1. /\ pc = "getLine" /\ Past(Text, pos, White) <= Len(Text)
        /\ line' = l /\ pos' = e
        /\ pc' = IF l = {} THEN "getLine" ELSE "parse"
        /\ file' = file /\ count' = count /\ Text' = Text
    BY <1>8 DEF GetNextLine, Taken, Text
  <2>2. /\ s \in pos .. Len(Text) + 1 /\ e \in s .. Len(Text) + 1 /\ Boundary(Text, e)
    BY <1>5, <2>1, Reaches
  <2>3. \A n \in s .. e - 1 : Text[n] # "nl"
    <3>1. s \in 1 .. Len(Text) + 1
      BY <1>5, <2>1, <2>2
    <3>2. \A n \in s .. e - 1 : Text[n] \notin {"nl"}
      BY <1>5, <2>1, <3>1, Arrives
    <3>3. QED
      BY <3>2
  <2>4. l = {n \in s .. e - 1 : Text[n] # "cont"}
    BY DEF Taken
  <2>5. AllPlain =>
               /\ l # {} => \E k \in Starts(Text) : Parsed(Text, k, s, e, l)
               /\ \A j \in Starts(Text) : j < e =>
                     j < pos \/ Blank(Text, j) \/ Comment(Text, j) \/ Parsed(Text, j, s, e, l)
    BY <1>1, <1>5, <2>1, Advances
  <2> HIDE DEF s, e, l
  <2>6. l \subseteq 1 .. e - 1 /\ \A n \in l : Text[n] \notin {"nl", "cont"}
    BY <1>5, <2>1, <2>2, <2>3, <2>4
  <2>7. TypeOK'
    <3>1. e \in 1 .. Len(Text) + 1
      BY <1>5, <2>1, <2>2
    <3>2. QED
      BY <1>3, <1>4, <1>5, <2>1, <2>6, <3>1 DEF TypeOK, Symbols
  <2>8. ASSUME AllPlain PROVE LinesRead'
    <3>1. LinesRead
      BY <1>1, <2>8
    <3>2. \A k \in Starts(Text) : k < e => Understood(Text, k) \/ Parsed(Text, k, s, e, l)
      BY <2>1, <2>5, <2>8, <3>1 DEF LinesRead, Understood
    <3>3. CASE l = {}
      <4>1. \A k \in Starts(Text) : k < e => Understood(Text, k)
        BY <3>2, <3>3 DEF Parsed
      <4>2. QED
        BY <1>3, <2>1, <3>1, <3>3, <4>1 DEF LinesRead
    <3>4. CASE l # {}
      <4>1. PICK k \in Starts(Text) : Parsed(Text, k, s, e, l)
        BY <2>5, <2>8, <3>4
      <4>2. s \in 1 .. Len(Text)
        BY <1>5, <2>1, <2>2, <4>1 DEF Parsed
      <4>3. QED
        BY <1>3, <2>1, <3>1, <3>2, <3>4, <4>1, <4>2 DEF LinesRead
    <3>5. QED
      BY <3>3, <3>4
  <2>9. QED
    BY <1>1, <1>3, <2>1, <2>2, <2>7, <2>8 DEF ReadInv
<1>9. CASE NoMoreLines
  <2>1. /\ pc = "getLine" /\ Past(Text, pos, White) > Len(Text)
        /\ file' = file + 1 /\ line' = {} /\ pc' = "load" /\ count' = count
    BY <1>9 DEF NoMoreLines
  <2>2. TypeOK'
    BY <1>2, <1>3, <1>4, <1>5, <2>1 DEF TypeOK
  <2>3. \A n \in pos .. Len(Text) : Text[n] \in White
    <3>1. /\ Past(Text, pos, White) \in pos .. Len(Text) + 1
          /\ \A n \in pos .. Past(Text, pos, White) - 1 : Text[n] \in White
      BY <1>5, <2>1, Passes
    <3>2. Past(Text, pos, White) = Len(Text) + 1
      BY <1>5, <2>1, <3>1
    <3>3. QED
      BY <1>5, <2>1, <3>1, <3>2
  <2>4. ASSUME NEW k \in Starts(Text), ~ (k < pos) PROVE Blank(Text, k)
    <3>1. k \in 1 .. Len(Text) + 1
      BY <1>5, <2>1, StartFacts
    <3>2. End(Text, k) \in k .. Len(Text) + 1
      BY <1>5, <2>1, <3>1, EndFacts
    <3>3. /\ pos \in Nat /\ Len(Text) + 1 \in Nat /\ pos <= k /\ End(Text, k) <= Len(Text) + 1
          /\ \A n \in pos .. (Len(Text) + 1) - 1 : n \in pos .. Len(Text)
      BY <1>5, <2>1, <2>4, <3>1, <3>2
    <3>4. \A n \in pos .. (Len(Text) + 1) - 1 : Text[n] \in White
      BY <2>3, <3>3
    <3>5. QED
      BY <1>5, <2>1, <3>3, <3>4, WhiteIsBlank
  <2>5. ASSUME AllPlain PROVE LinesRead'
    <3>1. LinesRead
      BY <1>1, <2>5
    <3>2. \A k \in Starts(Text) : Understood(Text, k)
      BY <2>1, <2>4, <3>1 DEF LinesRead, Understood
    <3>3. \A f \in DOMAIN files : f < file + 1 => f < file \/ f = file
      BY <1>2, <1>4
    <3>4. Text = files[file] /\ Text # Missing
      BY <1>1, <2>1 DEF Text
    <3>5. \A f \in DOMAIN files : f < file + 1 =>
             files[f] # Missing /\ \A k \in Starts(files[f]) : Understood(files[f], k)
      BY <3>1, <3>2, <3>3, <3>4 DEF LinesRead
    <3>6. QED
      BY <1>3, <2>1, <3>5 DEF LinesRead
  <2>6. QED
    BY <1>1, <1>3, <2>1, <2>2, <2>5 DEF ReadInv
<1>10. CASE CountLine
  <2>1. PICK c \in line :
        /\ pc = "parse" /\ Colon(c)
        /\ count' = [d \in DOMAIN count |-> count[d] + Given(d, c)] /\ pc' = "getLine"
        /\ file' = file /\ pos' = pos /\ line' = line /\ Text' = Text
    BY <1>10 DEF CountLine, Text
  <2>2. count' \in [Keys -> Nat]
    <3>1. \A d \in Keys : Given(d, c) \in Nat
      BY <1>5, <2>1, GivenNat
    <3>2. QED
      BY <1>4, <2>1, <3>1
  <2>3. TypeOK'
    BY <1>3, <1>4, <1>5, <2>1, <2>2 DEF TypeOK, Symbols
  <2>4. ASSUME AllPlain PROVE LinesRead'
    <3>1. LinesRead
      BY <1>1, <2>4
    <3>2. PICK s \in 1 .. Len(Text) :
             \A k \in Starts(Text) : k < pos => Understood(Text, k) \/ Parsed(Text, k, s, pos, line)
      BY <2>1, <3>1 DEF LinesRead
    <3>3. \A k \in Starts(Text) : Parsed(Text, k, s, pos, line) => Rule(Text, k)
      BY <1>5, <2>1, ColonIsRule
    <3>4. \A k \in Starts(Text) : k < pos => Understood(Text, k)
      BY <3>2, <3>3 DEF Understood
    <3>5. QED
      BY <1>3, <2>1, <3>1, <3>4 DEF LinesRead
  <2>5. QED
    BY <1>1, <1>3, <2>1, <2>3, <2>4 DEF ReadInv
<1>11. CASE BadLine
  <2>0. ~ \E c \in line : Colon(c)
    BY <1>11 DEF BadLine
  <2>1. pc = "parse" /\ pc' = "failed" /\ file' = file /\ count' = count
    BY <1>11 DEF BadLine
  <2>2. TypeOK'
    BY <1>3, <1>4, <2>1 DEF TypeOK
  <2>3. ASSUME AllPlain PROVE ~ Good
    <3>1. LinesRead
      BY <1>1, <2>3
    <3>2. PICK s \in 1 .. Len(Text), k \in Starts(Text) : Parsed(Text, k, s, pos, line)
      BY <2>1, <3>1 DEF LinesRead
    <3>3. ~ Understood(Text, k)
      <4>1. Text \in Seq(Symbols) /\ Plain(Text)
        BY <1>5, <2>1, <2>3
      <4>2. QED
        BY <2>0, <3>2, <4>1, NoColonIsBad
    <3>4. QED
      BY <1>2, <1>5, <2>1, <3>3 DEF Good, Text
  <2>4. QED
    BY <1>1, <1>3, <2>1, <2>2, <2>3 DEF ReadInv, LinesRead
<1>12. CASE Report
  <2>1. /\ pc = "load" /\ file > Len(files) /\ pc' = "printed"
        /\ file' = file /\ count' = count
    BY <1>12 DEF Report
  <2>2. file = Len(files) + 1
    BY <1>2, <1>4, <2>1
  <2>3. TypeOK'
    BY <1>3, <1>4, <2>1 DEF TypeOK
  <2>4. QED
    BY <1>1, <1>3, <2>1, <2>2, <2>3 DEF ReadInv, LinesRead
<1>13. CASE UNCHANGED vars
  <2>1. /\ file' = file /\ pos' = pos /\ line' = line /\ pc' = pc /\ count' = count
        /\ Text' = Text
    BY <1>13 DEF vars, Text
  <2>2. TypeOK'
    BY <1>1, <1>3, <2>1 DEF TypeOK
  <2>3. QED
    BY <1>1, <1>3, <2>1, <2>2 DEF ReadInv, LinesRead
<1>14. QED
  BY <1>6, <1>7, <1>8, <1>9, <1>10, <1>11, <1>12, <1>13 DEF Next

-----------------------------------------------------------------------------
(* DepStats: what has been counted *)

\* The places that file f names d at and the program has been past, and those of all files.
Done(f, d) ==
    IF f < file THEN Named(files[f], d)
    ELSE IF f = file /\ pc \in {"getLine", "parse"}
    THEN {n \in Named(Text, d) : n < pos /\ ~ (pc = "parse" /\ n \in line)}
    ELSE {}

Places(d) == UNION {{f} \X Done(f, d) : f \in DOMAIN files}

CountsRead == \A d \in Words : IsFiniteSet(Places(d)) /\ count[d] = Cardinality(Places(d))

CountInv == ReadInv /\ (AllPlain /\ pc # "failed" => CountsRead)

\* Pairs of x and the members of T are as many as those.
LEMMA AsMany ==
    ASSUME NEW T, IsFiniteSet(T), NEW x
    PROVE  IsFiniteSet({x} \X T) /\ Cardinality({x} \X T) = Cardinality(T)
<1> DEFINE f == [y \in T |-> <<x, y>>]
<1>1. f \in Bijection(T, {x} \X T)
  <2>1. f \in [T -> {x} \X T] /\ \A a, b \in T : f[a] = f[b] => a = b
    OBVIOUS
  <2>2. \A z \in {x} \X T : \E y \in T : f[y] = z
    OBVIOUS
  <2>3. QED
    BY <2>1, <2>2, Fun_IsBij
<1>2. ExistsBijection(T, {x} \X T)
  BY <1>1 DEF ExistsBijection
<1>3. QED
  BY <1>2, FS_Bijection

\* A line that is blank or a comment names nothing; a word is in the text.
LEMMA NamedFacts ==
    ASSUME NEW t \in Seq(Symbols), NEW d, NEW n \in Named(t, d)
    PROVE  /\ n \in Nat /\ n >= 1 /\ t[n] \notin {"sp", "cont"}
           /\ \E k \in Starts(t) : /\ k \in 1 .. Len(t) + 1
                                   /\ n \in k .. End(t, k) - 1 /\ n \in NamedAt(t, k, d)
                                   /\ ~ Blank(t, k) /\ ~ Comment(t, k)
<1>1. PICK k \in Starts(t) : n \in NamedAt(t, k, d)
  BY DEF Named
<1>2. PICK x \in Nat : x = Len(t)
  OBVIOUS
<1>3. k \in 1 .. x + 1
  BY <1>2, StartFacts
<1>4. End(t, k) \in k .. x + 1
  BY <1>2, <1>3, EndFacts
<1>5. PICK e \in Nat : e = End(t, k)
  BY <1>3, <1>4
<1>6. n \in Behind(t, k) /\ ~ Comment(t, k) /\ Spells(t, Behind(t, k), n, d)
  BY <1>1 DEF NamedAt
<1>7. n \in k .. e - 1 /\ t[n] # "cont" /\ \E c \in k .. n - 1 : t[c] = "colon"
  BY <1>5, <1>6 DEF Behind, On
<1>8. t[n] # "sp"
  BY <1>6 DEF Spells
<1>9. ~ Blank(t, k)
  <2>1. PICK c \in k .. n - 1 : t[c] = "colon"
    BY <1>7
  <2>2. c \in k .. e - 1
    BY <1>3, <1>7, <2>1
  <2>3. QED
    BY <1>5, <2>1, <2>2 DEF Blank, On
<1>10. QED
  BY <1>1, <1>2, <1>3, <1>5, <1>6, <1>7, <1>8, <1>9

\* What _GetNextLine() passes names nothing but in the line it returns.
LEMMA NothingLost ==
    ASSUME Text \in Seq(Symbols), Plain(Text), Boundary(Text, pos),
           Past(Text, pos, White) <= Len(Text), NEW d \in Words
    PROVE  LET s == LineStart(pos)
               e == To(Text, s, {"nl"})
               l == Taken(Text, s)
           IN  \A n \in Named(Text, d) : n < pos <=> n < e /\ n \notin l
<1> DEFINE t == Text
           s == LineStart(pos)
           e == To(t, s, {"nl"})
           l == Taken(t, s)
<1>1. PICK x \in Nat : x = Len(t)
  OBVIOUS
<1>2. pos \in 1 .. x + 1
  BY <1>1 DEF Boundary
<1>3. /\ s \in pos .. x + 1 /\ Boundary(t, e) /\ pos <= e
      /\ \A j \in Starts(t) : j < e => j < pos \/ Blank(t, j) \/ Comment(t, j) \/ Parsed(t, j, s, e, l)
  BY <1>1, Advances
<1>4. l = {n \in s .. e - 1 : t[n] # "cont"}
  BY DEF Taken
<1>5. t \in Seq(Symbols) /\ Boundary(t, pos)
  OBVIOUS
<1> HIDE DEF t, s, e, l
<1>6. e \in 1 .. x + 1
  BY <1>1, <1>3 DEF Boundary
<1>7. ASSUME NEW n \in Named(t, d) PROVE n < pos <=> n < e /\ n \notin l
  <2>1. n \in Nat /\ n >= 1 /\ t[n] \notin {"sp", "cont"}
    BY <1>5, NamedFacts
  <2>2. n < pos => n < e /\ n \notin l
    BY <1>2, <1>3, <1>4, <1>6, <2>1
  <2>3. ASSUME n < e, n \notin l PROVE n < pos
    <3>1. PICK k \in Starts(t) : /\ k \in 1 .. x + 1
                                 /\ n \in k .. End(t, k) - 1
                                 /\ ~ Blank(t, k) /\ ~ Comment(t, k)
      BY <1>1, <1>5, NamedFacts
    <3>2. PICK f \in Nat : f = End(t, k)
      BY <1>1, <1>5, <3>1, EndFacts
    <3>3. k < e
      BY <1>6, <2>1, <2>3, <3>1, <3>2
    <3>4. ~ Parsed(t, k, s, e, l)
      <4>1. SUFFICES ASSUME Parsed(t, k, s, e, l) PROVE FALSE
        OBVIOUS
      <4>2. /\ s \in k .. x /\ (\A i \in k .. s - 1 : t[i] = "sp") /\ f = e
        BY <1>1, <3>2, <4>1 DEF Parsed
      <4>3. ~ (n < s)
        <5>1. n < s => n \in k .. s - 1
          BY <3>1, <3>2, <4>2, <2>1
        <5>2. QED
          BY <2>1, <4>2, <5>1
      <4>4. n \in s .. e - 1
        BY <2>1, <2>3, <3>1, <3>2, <4>2, <4>3
      <4>5. QED
        BY <1>4, <2>1, <2>3, <4>4
    <3>5. k < pos
      BY <1>3, <3>1, <3>3, <3>4
    <3>6. f <= pos
      BY <1>5, <3>2, <3>5, EndsBefore
    <3>7. QED
      BY <1>2, <2>1, <3>1, <3>2, <3>6
  <2>4. QED
    BY <2>2, <2>3
<1>8. QED
  BY <1>7 DEF t, s, e, l

\* What is counted of a line is what it names.
LEMMA LineCounted ==
    ASSUME Text \in Seq(Symbols), NEW k \in Starts(Text), NEW s, Parsed(Text, k, s, pos, line),
           NEW c, Colon(c), NEW d
    PROVE  LET rest == {m \in line : m > c}
           IN  {n \in rest : Spells(Text, rest, n, d)}
                   = {n \in Named(Text, d) : n < pos /\ n \in line}
<1> DEFINE rest == {m \in line : m > c}
<1>1. /\ k \in Nat /\ s \in Nat /\ pos \in Nat /\ k >= 1 /\ k <= s
      /\ On(Text, k) = k .. pos - 1 /\ \A n \in k .. s - 1 : Text[n] = "sp"
      /\ line \subseteq s .. pos - 1
      /\ \A n \in s .. pos - 1 : n \in line <=> Text[n] # "cont"
      /\ Text[s] \notin {"sp", "nl", "hash"} /\ s < pos
  BY ParsedFacts
<1>2. /\ c \in line /\ c \in s .. pos - 1 /\ Text[c] = "colon"
      /\ \A n \in k .. c - 1 : Text[n] # "colon"
  BY ColonIsRule
<1>3. ~ Comment(Text, k)
  <2>1. SUFFICES ASSUME NEW h \in On(Text, k), Text[h] = "hash", \A n \in k .. h - 1 : Text[n] = "sp"
                 PROVE  FALSE
    BY DEF Comment
  <2>2. h \in k .. pos - 1 /\ h \in Nat
    BY <1>1
  <2>3. h < s => h \in k .. s - 1
    BY <1>1, <2>2
  <2>4. s < h => s \in k .. h - 1
    BY <1>1, <2>2
  <2>5. QED
    BY <1>1, <2>1, <2>2, <2>3, <2>4
<1>4. rest = Behind(Text, k)
  <2>1. ASSUME NEW n \in rest PROVE n \in Behind(Text, k)
    <3>1. n \in s .. pos - 1 /\ n \in Nat /\ n > c /\ Text[n] # "cont"
      BY <1>1
    <3>2. n \in On(Text, k) /\ c \in k .. n - 1
      BY <1>1, <1>2, <3>1
    <3>3. QED
      BY <1>2, <3>1, <3>2 DEF Behind
  <2>2. ASSUME NEW n \in Behind(Text, k) PROVE n \in rest
    <3>1. n \in k .. pos - 1 /\ n \in Nat /\ Text[n] # "cont"
      BY <1>1 DEF Behind
    <3>2. PICK b \in k .. n - 1 : Text[b] = "colon"
      BY DEF Behind
    <3>3. ~ (b < c)
      <4>1. b < c => b \in k .. c - 1
        BY <1>1, <1>2, <3>1, <3>2
      <4>2. QED
        BY <1>2, <3>2, <4>1
    <3>4. n > c /\ n \in s .. pos - 1
      BY <1>1, <1>2, <3>1, <3>2, <3>3
    <3>5. QED
      BY <1>1, <3>1, <3>4
  <2>3. QED
    BY <2>1, <2>2
<1>5. ASSUME NEW n \in rest, Spells(Text, rest, n, d)
      PROVE  n \in Named(Text, d) /\ n < pos /\ n \in line
  <2>1. n \in line /\ n \in s .. pos - 1
    BY <1>1
  <2>2. n \in NamedAt(Text, k, d)
    BY <1>3, <1>4, <1>5 DEF NamedAt
  <2>3. QED
    BY <1>1, <2>1, <2>2 DEF Named
<1>6. ASSUME NEW n \in Named(Text, d), n \in line PROVE n \in rest /\ Spells(Text, rest, n, d)
  <2>1. n \in s .. pos - 1 /\ n \in Nat
    BY <1>1, <1>6, NamedFacts
  <2>2. PICK j \in Starts(Text) : /\ j \in 1 .. Len(Text) + 1
                                  /\ n \in j .. End(Text, j) - 1 /\ n \in NamedAt(Text, j, d)
    BY NamedFacts
  <2>3. j \in Nat /\ End(Text, j) \in Int
    BY <2>2, EndFacts
  <2>4. ~ (j < k)
    BY <1>1, <2>1, <2>2, <2>3, LinesApart
  <2>5. ~ (k < j)
    <3>1. End(Text, k) = pos
      BY DEF Parsed
    <3>2. QED
      BY <1>1, <2>1, <2>2, <2>3, <3>1, LinesApart
  <2>6. j = k
    BY <1>1, <2>3, <2>4, <2>5
  <2>7. QED
    BY <1>4, <2>2, <2>6 DEF NamedAt
<1> HIDE DEF rest
<1>7. {n \in rest : Spells(Text, rest, n, d)} = {n \in Named(Text, d) : n < pos /\ n \in line}
  BY <1>5, <1>6
<1>8. QED
  BY <1>7 DEF rest

\* The places stay the same when those of each file do.
LEMMA SamePlaces ==
    ASSUME files' = files, NEW d, \A f \in DOMAIN files : Done(f, d)' = Done(f, d)
    PROVE  Places(d)' = Places(d)
  BY DEF Places

LEMMA CountStart == Init => CountInv
<1> SUFFICES ASSUME Init PROVE CountInv
  OBVIOUS
<1>1. files \in Inputs /\ file = 1 /\ pc = "load" /\ count = [d \in Keys |-> 0]
  BY DEF Init
<1>2. DOMAIN files = 1 .. Len(files) /\ Len(files) \in Nat
  BY <1>1, FilesAreTexts
<1>3. ASSUME NEW d \in Words PROVE Places(d) = {}
  <2>1. \A f \in DOMAIN files : ~ (f < file)
    BY <1>1, <1>2
  <2>2. \A f \in DOMAIN files : Done(f, d) = {}
    BY <1>1, <2>1 DEF Done
  <2>3. QED
    BY <2>2 DEF Places
<1>4. \A d \in Words : count[d] = 0
  BY <1>1 DEF Keys
<1>5. CountsRead
  BY <1>3, <1>4, FS_EmptySet DEF CountsRead
<1>6. QED
  BY <1>5, ReadInit DEF CountInv

LEMMA CountStep == CountInv /\ [Next]_vars => CountInv'
<1> SUFFICES ASSUME CountInv, [Next]_vars, AllPlain, pc' # "failed" PROVE CountsRead'
  BY ReadStep, SameFiles DEF CountInv
<1>1. ReadInv /\ TypeOK /\ LinesRead /\ files \in Inputs /\ (pc # "failed" => CountsRead)
  BY DEF CountInv, ReadInv
<1>2. /\ Len(files) \in Nat /\ DOMAIN files = 1 .. Len(files)
      /\ \A f \in 1 .. Len(files) : files[f] # Missing => files[f] \in Seq(Symbols)
  BY <1>1, FilesAreTexts
<1>3. files' = files
  BY SameFiles
<1>4. file \in 1 .. Len(files) + 1 /\ count \in [Keys -> Nat] /\ Words \subseteq Keys
  BY <1>1 DEF TypeOK, Keys
<1>5. ASSUME pc \in {"getLine", "parse"}
      PROVE  /\ file \in 1 .. Len(files) /\ Text \in Seq(Symbols) /\ Len(Text) \in Nat
             /\ pos \in 1 .. Len(Text) + 1 /\ Boundary(Text, pos)
             /\ line \subseteq 1 .. pos - 1
             /\ Plain(Text)
  <2>1. /\ file <= Len(files) /\ Text \in Seq(Symbols)
        /\ pos \in 1 .. Len(Text) + 1 /\ line \subseteq 1 .. pos - 1
        /\ Text # Missing /\ Boundary(Text, pos)
    BY <1>1, <1>5 DEF TypeOK, Symbols, ReadInv
  <2>2. file \in 1 .. Len(files)
    BY <1>2, <1>4, <2>1
  <2>3. Plain(Text)
    BY <1>2, <2>1, <2>2 DEF AllPlain, Text
  <2>4. QED
    BY <2>1, <2>2, <2>3
<1>6. ASSUME count' = count, CountsRead,
             \A d \in Words : \A f \in DOMAIN files : Done(f, d)' = Done(f, d)
      PROVE  CountsRead'
  <2>1. \A d \in Words : Places(d)' = Places(d)
    BY <1>3, <1>6, SamePlaces
  <2>2. QED
    BY <1>6, <2>1 DEF CountsRead
<1>7. CASE LoadFile
  <2>1. /\ pc = "load" /\ file <= Len(files) /\ Text # Missing /\ pos' = 1 /\ pc' = "getLine"
        /\ file' = file /\ count' = count /\ Text' = Text
    BY <1>7 DEF LoadFile, Text
  <2>2. Text \in Seq(Symbols)
    BY <1>2, <1>4, <2>1 DEF Text
  <2>3. ASSUME NEW d \in Words, NEW f \in DOMAIN files PROVE Done(f, d)' = Done(f, d)
    <3>1. {n \in Named(Text, d) : n < 1} = {}
      BY <2>2, NamedFacts
    <3>2. QED
      BY <1>3, <2>1, <3>1 DEF Done
  <2>4. QED
    BY <1>1, <1>6, <2>1, <2>3
<1>8. CASE GetNextLine
  <2> DEFINE s == LineStart(pos)
             e == To(Text, s, {"nl"})
             l == Taken(Text, s)
  <2>1. /\ pc = "getLine" /\ Past(Text, pos, White) <= Len(Text)
        /\ line' = l /\ pos' = e
        /\ pc' = IF l = {} THEN "getLine" ELSE "parse"
        /\ file' = file /\ count' = count /\ Text' = Text
    BY <1>8 DEF GetNextLine, Taken, Text
  <2>2. \A d \in Words : \A n \in Named(Text, d) : n < pos <=> n < e /\ n \notin l
    BY <1>5, <2>1, NothingLost
  <2> HIDE DEF s, e, l
  <2>3. ASSUME NEW d \in Words, NEW f \in DOMAIN files PROVE Done(f, d)' = Done(f, d)
    <3>1. {n \in Named(Text, d) : n < pos}
            = {n \in Named(Text, d) : n < e /\ ~ (pc' = "parse" /\ n \in l)}
      BY <2>1, <2>2
    <3>2. QED
      BY <1>3, <2>1, <3>1 DEF Done
  <2>4. QED
    BY <1>1, <1>6, <2>1, <2>3
<1>9. CASE NoMoreLines
  <2>1. /\ pc = "getLine" /\ Past(Text, pos, White) > Len(Text)
        /\ file' = file + 1 /\ pc' = "load" /\ count' = count
    BY <1>9 DEF NoMoreLines
  <2>2. ASSUME NEW d \in Words, NEW n \in Named(Text, d) PROVE n < pos
    <3>1. PICK k \in Starts(Text) : /\ k \in 1 .. Len(Text) + 1
                                    /\ n \in k .. End(Text, k) - 1 /\ ~ Blank(Text, k)
      BY <1>5, <2>1, NamedFacts
    <3>2. End(Text, k) \in k .. Len(Text) + 1
      BY <1>5, <2>1, <3>1, EndFacts
    <3>3. k < pos
      <4>1. SUFFICES ASSUME ~ (k < pos) PROVE FALSE
        OBVIOUS
      <4>2. /\ Past(Text, pos, White) \in pos .. Len(Text) + 1
            /\ \A i \in pos .. Past(Text, pos, White) - 1 : Text[i] \in White
        BY <1>5, <2>1, Passes
      <4>3. Past(Text, pos, White) = Len(Text) + 1
        BY <1>5, <2>1, <4>2
      <4>4. pos \in Nat /\ Len(Text) + 1 \in Nat /\ pos <= k /\ End(Text, k) <= Len(Text) + 1
        BY <1>5, <2>1, <3>1, <3>2, <4>1
      <4>5. \A i \in pos .. (Len(Text) + 1) - 1 : Text[i] \in White
        BY <4>2, <4>3
      <4>6. QED
        BY <1>5, <2>1, <3>1, <4>4, <4>5, WhiteIsBlank
    <3>4. End(Text, k) <= pos
      BY <1>5, <2>1, <3>3, EndsBefore
    <3>5. QED
      BY <1>5, <2>1, <3>1, <3>2, <3>4
  <2>3. ASSUME NEW d \in Words, NEW f \in DOMAIN files PROVE Done(f, d)' = Done(f, d)
    <3>1. {n \in Named(Text, d) : n < pos} = Named(Text, d)
      BY <2>2
    <3>2. f \in Nat /\ file \in Nat
      BY <1>2, <1>4
    <3>3. f < file + 1 <=> f < file \/ f = file
      BY <3>2
    <3>4. ~ (file < file)
      BY <3>2
    <3>5. QED
      BY <1>3, <2>1, <3>1, <3>3, <3>4 DEF Done, Text
  <2>4. QED
    BY <1>1, <1>6, <2>1, <2>3
<1>10. CASE CountLine
  <2>1. PICK c \in line :
        /\ pc = "parse" /\ Colon(c)
        /\ count' = [d \in DOMAIN count |-> count[d] + Given(d, c)] /\ pc' = "getLine"
        /\ file' = file /\ pos' = pos /\ line' = line /\ Text' = Text
    BY <1>10 DEF CountLine, Text
  <2>2. PICK s \in 1 .. Len(Text), k \in Starts(Text) : Parsed(Text, k, s, pos, line)
    BY <1>1, <2>1 DEF LinesRead
  <2>3. SUFFICES ASSUME NEW d \in Words
                 PROVE  (IsFiniteSet(Places(d)) /\ count[d] = Cardinality(Places(d)))'
    BY DEF CountsRead
  <2> DEFINE rest == {m \in line : m > c}
             new == {n \in rest : Spells(Text, rest, n, d)}
  <2>4. new = {n \in Named(Text, d) : n < pos /\ n \in line}
    BY <1>5, <2>1, <2>2, LineCounted
  <2>5. IsFiniteSet(new)
    <3>1. pos - 1 \in Int
      BY <1>5, <2>1
    <3>2. IsFiniteSet(1 .. pos - 1)
      BY <3>1, FS_Interval
    <3>3. line \subseteq 1 .. pos - 1
      BY <1>5, <2>1
    <3>4. new \in SUBSET (1 .. pos - 1)
      BY <3>3
    <3>5. QED
      BY <3>2, <3>4, FS_Subset
  <2>6. count'[d] = count[d] + Cardinality(new) /\ count[d] \in Nat
    <3>1. d # << >> /\ d \in DOMAIN count /\ count[d] \in Nat
      BY <1>4, TextsAssumption
    <3>2. Given(d, c) = Cardinality(new)
      BY <3>1 DEF Given
    <3>3. count'[d] = count[d] + Given(d, c)
      BY <2>1, <3>1
    <3>4. QED
      BY <3>1, <3>2, <3>3
  <2> HIDE DEF rest, new
  <2>7. PICK g \in DOMAIN files : g = file
    BY <1>2, <1>5, <2>1
  <2>8. /\ \A f \in DOMAIN files : f # g => Done(f, d)' = Done(f, d)
        /\ Done(g, d)' = Done(g, d) \cup new /\ Done(g, d) \cap new = {}
    <3>1. ~ (g < file)
      BY <1>4, <2>7
    <3>2. {n \in Named(Text, d) : n < pos}
            = {n \in Named(Text, d) : n < pos /\ ~ (n \in line)} \cup new
      BY <2>4
    <3>3. {n \in Named(Text, d) : n < pos /\ ~ (n \in line)} \cap new = {}
      BY <2>4
    <3>4. Done(g, d)' = {n \in Named(Text, d) : n < pos}
      BY <1>3, <2>1, <2>7, <3>1 DEF Done
    <3>5. Done(g, d) = {n \in Named(Text, d) : n < pos /\ ~ (n \in line)}
      BY <2>1, <2>7, <3>1 DEF Done
    <3>6. \A f \in DOMAIN files : f # g => Done(f, d)' = Done(f, d)
      BY <1>3, <2>1, <2>7 DEF Done
    <3>7. QED
      BY <3>2, <3>3, <3>4, <3>5, <3>6
  <2>9. Places(d)' = Places(d) \cup ({g} \X new)
    <3>1. ASSUME NEW f \in DOMAIN files
          PROVE  Done(f, d)' = Done(f, d) \cup (IF f = g THEN new ELSE {})
      BY <2>8
    <3>2. Places(d)' = UNION {{f} \X (Done(f, d) \cup (IF f = g THEN new ELSE {})) :
                              f \in DOMAIN files}
      BY <1>3, <3>1 DEF Places
    <3>3. \A z : z \in Places(d)' <=>
             \E f \in DOMAIN files : \E n \in Done(f, d) \cup (IF f = g THEN new ELSE {}) : z = <<f, n>>
      BY <3>2
    <3>4. \A z : z \in Places(d) <=> \E f \in DOMAIN files : \E n \in Done(f, d) : z = <<f, n>>
      BY DEF Places
    <3>5. \A z : z \in {g} \X new <=> \E n \in new : z = <<g, n>>
      OBVIOUS
    <3>6. \A z : z \in Places(d)' <=> z \in Places(d) \/ z \in {g} \X new
      BY <3>3, <3>4, <3>5
    <3>7. QED
      BY <3>6
  <2>10. Places(d) \cap ({g} \X new) = {}
    BY <2>8 DEF Places
  <2>11. IsFiniteSet({g} \X new) /\ Cardinality({g} \X new) = Cardinality(new)
    BY <2>5, AsMany
  <2>12. IsFiniteSet(Places(d)) /\ count[d] = Cardinality(Places(d))
    BY <1>1, <2>1 DEF CountsRead
  <2> DEFINE old == Places(d)
             more == {g} \X new
  <2>13. /\ IsFiniteSet(old \cup more)
         /\ Cardinality(old \cup more) = Cardinality(old) + Cardinality(more) - Cardinality(old \cap more)
    BY <2>11, <2>12, FS_Union
  <2>14. Cardinality(old \cap more) = 0 /\ Cardinality(new) \in Nat
    BY <2>5, <2>10, FS_EmptySet, FS_CardinalityType
  <2>15. Cardinality(old \cup more) = count[d] + Cardinality(new)
    BY <2>6, <2>11, <2>12, <2>13, <2>14
  <2>16. QED
    BY <2>6, <2>9, <2>13, <2>15
<1>11. CASE BadLine \/ LoadFails
  BY <1>11 DEF BadLine, LoadFails
<1>12. CASE Report
  <2>1. pc = "load" /\ pc' = "printed" /\ file' = file /\ count' = count
    BY <1>12 DEF Report
  <2>2. ASSUME NEW d \in Words, NEW f \in DOMAIN files PROVE Done(f, d)' = Done(f, d)
    BY <1>3, <2>1 DEF Done
  <2>3. QED
    BY <1>1, <1>6, <2>1, <2>2
<1>13. CASE UNCHANGED vars
  <2>1. /\ file' = file /\ pos' = pos /\ line' = line /\ pc' = pc /\ count' = count
        /\ Text' = Text
    BY <1>13 DEF vars, Text
  <2>2. ASSUME NEW d \in Words, NEW f \in DOMAIN files PROVE Done(f, d)' = Done(f, d)
    BY <1>3, <2>1 DEF Done
  <2>3. QED
    BY <1>1, <1>6, <2>1, <2>2
<1>14. QED
  BY <1>7, <1>8, <1>9, <1>10, <1>11, <1>12, <1>13 DEF Next

LEMMA CountInvariance == Spec => []CountInv
  BY CountStart, CountStep, PTL DEF Spec

\* The dependency statistics are right, for all texts that are Plain: the program prints
\* counts exactly when every line of every file makes sense, and each count is the number
\* of places where the rules name that dependency; what stands together without a blank is
\* one, also over a continuation.
THEOREM CountsAreThoseOfTheRules == Spec => []AnswerRight
<1>1. ASSUME CountInv PROVE AnswerRight
  <2>1. /\ ReadInv /\ files \in Inputs /\ (AllPlain => LinesRead)
        /\ pc = "printed" => file = Len(files) + 1
        /\ AllPlain /\ pc # "failed" => CountsRead
    BY <1>1 DEF CountInv, ReadInv
  <2>2. DOMAIN files = 1 .. Len(files) /\ Len(files) \in Nat
    BY <2>1, FilesAreTexts
  <2>3. pc = "failed" /\ AllPlain => ~ Good
    BY <2>1 DEF LinesRead
  <2>4. ASSUME pc = "printed", AllPlain PROVE Good /\ \A d \in Words : count[d] = Expected(d)
    <3>1. \A f \in DOMAIN files : f < file
      BY <2>1, <2>2, <2>4
    <3>2. Good
      BY <2>1, <2>4, <3>1 DEF Good, LinesRead
    <3>3. ASSUME NEW d \in Words PROVE count[d] = Expected(d)
      <4>1. \A f \in DOMAIN files : Done(f, d) = Named(files[f], d)
        BY <3>1 DEF Done
      <4>2. Places(d) = UNION {{f} \X Named(files[f], d) : f \in DOMAIN files}
        BY <4>1 DEF Places
      <4>3. QED
        BY <2>1, <2>4, <4>2 DEF CountsRead, Expected
    <3>4. QED
      BY <3>2, <3>3
  <2>5. QED
    BY <2>3, <2>4 DEF AnswerRight
<1>2. QED
  BY <1>1, CountInvariance, PTL

\* Neither reader runs past the end of what it reads, whatever it is given.
THEOREM TypesCorrect == Spec /\ Odm!Spec => []TypesOK
<1>1. CountInv /\ OdmInv => TypesOK
  BY DEF CountInv, ReadInv, OdmInv, TypesOK
<1>2. QED
  BY <1>1, CountInvariance, OdmInvariance, PTL

-----------------------------------------------------------------------------
(* The reader of depend files comes to an end. *)

\* The program is over, or the next file is begun, or it has been loaded, or p has moved on
\* in its text, or what p has moved past has been parsed.  No file is left twice, p does not
\* leave the text (TypeOK), and so that is a measure which decreases.
Nearer ==
    \/ pc \notin {"printed", "failed"} /\ pc' \in {"printed", "failed"}
    \/ file' = file + 1
    \/ /\ file' = file
       /\ \/ pc = "load" /\ pc' = "getLine"
          \/ pc = "getLine" /\ pc' \in {"getLine", "parse"} /\ Text' = Text /\ pos < pos'
          \/ pc = "parse" /\ pc' = "getLine" /\ Text' = Text /\ pos' = pos

\* _GetNextLine() moves p on whatever it finds, an empty line after a comment included.
LEMMA LineIsPassed ==
    ASSUME Text \in Seq(Symbols), pos \in 1 .. Len(Text) + 1, Past(Text, pos, White) <= Len(Text)
    PROVE  pos < To(Text, LineStart(pos), {"nl"})
<1> DEFINE t == Text
           s0 == Past(t, pos, White)
           e0 == To(t, s0, {"nl", "cont"})
           s1 == Past(t, e0 + 1, White)
           s  == LineStart(pos)
<1>1. PICK x \in Nat : x = Len(t)
  OBVIOUS
<1>2. t \in Seq(Symbols) /\ pos \in 1 .. x + 1
  BY <1>1
<1>3. s0 \in pos .. x /\ t[s0] \notin White
  BY <1>1, Passes
<1>4. s = IF s0 <= Len(t) /\ t[s0] = "hash" THEN IF e0 <= Len(t) THEN s1 ELSE e0 ELSE s0
  BY DEF LineStart
<1> HIDE DEF t, s0, e0, s1, s
<1>5. s0 \in 1 .. Len(t) + 1
  BY <1>1, <1>2, <1>3
<1>6. s \in pos .. x + 1 /\ (s = pos => t[s] # "nl" /\ s <= x)
  <2>1. CASE t[s0] # "hash"
    BY <1>1, <1>2, <1>3, <1>4, <2>1 DEF White
  <2>2. CASE t[s0] = "hash"
    <3>1. /\ e0 \in s0 .. x + 1
          /\ e0 <= Len(t) => t[e0] \in {"nl", "cont"}
      BY <1>1, <1>2, <1>5, Arrives DEF e0
    <3>2. e0 # s0
      BY <1>1, <1>3, <2>2, <3>1
    <3>3. e0 \in pos + 1 .. x + 1
      BY <1>2, <1>3, <3>1, <3>2
    <3>4. CASE e0 <= Len(t)
      <4>1. e0 + 1 \in 1 .. Len(t) + 1
        BY <1>1, <1>2, <3>3, <3>4
      <4>2. s1 \in e0 + 1 .. Len(t) + 1
        BY <1>2, <4>1, Passes DEF s1
      <4>3. s = s1
        BY <1>1, <1>3, <1>4, <2>2, <3>4
      <4>4. QED
        BY <1>1, <1>2, <3>3, <4>2, <4>3
    <3>5. CASE ~ (e0 <= Len(t))
      <4>1. s = e0
        BY <1>1, <1>3, <1>4, <2>2, <3>5
      <4>2. QED
        BY <1>2, <3>3, <4>1
    <3>6. QED
      BY <3>4, <3>5
  <2>3. QED
    BY <2>1, <2>2
<1>7. s \in 1 .. Len(t) + 1
  BY <1>1, <1>2, <1>6
<1>8. /\ To(t, s, {"nl"}) \in s .. x + 1
      /\ To(t, s, {"nl"}) <= x => t[To(t, s, {"nl"})] \in {"nl"}
  BY <1>1, <1>2, <1>7, Arrives
<1>9. PICK e \in Nat : e = To(t, s, {"nl"})
  BY <1>7, <1>8
<1>10. e \in s .. x + 1 /\ (e <= x => t[e] = "nl")
  BY <1>8, <1>9
<1>11. pos < e
  BY <1>2, <1>6, <1>10
<1>12. QED
  BY <1>9, <1>11 DEF t, s

\* Whatever the files say, depstats does not stay in a place: each step moves p on, or ends
\* a line, a file or the program (main.cpp:158-164: an empty line is a round of the loop too).
THEOREM ReaderComesNearer == Spec => [][Nearer]_vars
<1>1. ASSUME CountInv, Next PROVE Nearer
  <2>1. TypeOK
    BY <1>1 DEF CountInv, ReadInv
  <2>2. CASE GetNextLine
    <3>1. /\ pc = "getLine" /\ pc' \in {"getLine", "parse"} /\ file' = file /\ files' = files
          /\ Past(Text, pos, White) <= Len(Text) /\ pos' = To(Text, LineStart(pos), {"nl"})
      BY <2>2 DEF GetNextLine
    <3>2. Text \in Seq(Symbols) /\ pos \in 1 .. Len(Text) + 1
      BY <2>1, <3>1 DEF TypeOK, Symbols
    <3>3. pos < pos'
      BY <3>1, <3>2, LineIsPassed
    <3>4. Text' = Text
      BY <3>1 DEF Text
    <3>5. QED
      BY <3>1, <3>3, <3>4 DEF Nearer
  <2>3. CASE CountLine
    <3>1. /\ pc = "parse" /\ pc' = "getLine" /\ pos' = pos /\ file' = file /\ files' = files
      BY <2>3 DEF CountLine
    <3>2. Text' = Text
      BY <3>1 DEF Text
    <3>3. QED
      BY <3>1, <3>2 DEF Nearer
  <2>4. CASE LoadFile \/ LoadFails \/ NoMoreLines \/ Report
    BY <2>4 DEF LoadFile, LoadFails, NoMoreLines, Report, Nearer
  <2>5. CASE BadLine
    <3>1. pc = "parse" /\ pc' = "failed"
      BY <2>5 DEF BadLine
    <3>2. QED
      BY <3>1 DEF Nearer
  <2>6. QED
    BY <1>1, <2>2, <2>3, <2>4, <2>5 DEF Next
<1>2. CountInv /\ [Next]_vars => [Nearer]_vars
  BY <1>1
<1>3. QED
  BY <1>2, CountInvariance, PTL DEF Spec
=============================================================================

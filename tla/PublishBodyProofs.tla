------------------------- MODULE PublishBodyProofs -------------------------
(***************************************************************************)
(* Theorems about publish bodies, for any bodies, lengths, limits and JSON *)
(* objects, and bytes of any base.                                         *)
(***************************************************************************)
EXTENDS PublishBodyProperties, SequenceTheorems, TLAPS

-----------------------------------------------------------------------------
(* JSON objects                                                            *)

(* A member that occurs once is the first and the last one.                *)
LEMMA OnceIsFirstAndLast ==
  ASSUME NEW fields, NEW key, Len(fields) \in Nat,
         NEW i \in 1..Len(fields), fields[i].key = key,
         \A j \in 1..Len(fields) : fields[j].key = key => j = i
  PROVE  FirstOf(fields, key) = fields[i] /\ LastOf(fields, key) = fields[i]
PROOF
<1> DEFINE First(n) == fields[n].key = key
                         /\ \A j \in 1..(n - 1) : fields[j].key # key
           Last(n) == fields[n].key = key
                        /\ \A j \in (n + 1)..Len(fields) : fields[j].key # key
<1>1. First(i) /\ Last(i)
  OBVIOUS
<1>2. (CHOOSE n \in 1..Len(fields) : First(n)) = i
  BY <1>1
<1>3. (CHOOSE n \in 1..Len(fields) : Last(n)) = i
  BY <1>1
<1> QED
  BY <1>2, <1>3 DEF FirstOf, LastOf

(* A known member of an object that deserializes is the first and the last *)
(* of its name, and of a type that it may have.                            *)
LEMMA KnownMembers ==
  ASSUME NEW fields, Deserializes(fields), Len(fields) \in Nat,
         NEW key \in DOMAIN PublishMetadata, Has(fields, key)
  PROVE  \E i \in 1..Len(fields) :
           /\ FirstOf(fields, key) = fields[i]
           /\ LastOf(fields, key) = fields[i]
           /\ fields[i].type \in PublishMetadata[key]
PROOF
<1>1. PICK i \in 1..Len(fields) : fields[i].key = key
  BY DEF Has
<1>2. /\ fields[i].type \in PublishMetadata[key]
      /\ \A j \in 1..Len(fields) : fields[j].key = key => j = i
  BY <1>1 DEF Deserializes
<1>3. FirstOf(fields, key) = fields[i] /\ LastOf(fields, key) = fields[i]
  BY <1>1, <1>2, OnceIsFirstAndLast
<1> QED
  BY <1>2, <1>3

(* Both parsers find the same name in metadata that deserializes.          *)
LEMMA NamesAgree ==
  ASSUME NEW bytes \in Bodies, HasFrame(bytes, 0),
         Deserializes(Fields(Content(bytes, 0)))
  PROVE  crate_name_from_publish_body(bytes)
           = FirstOf(Fields(Content(bytes, 0)), "name").value
PROOF
<1> DEFINE fields == Fields(Content(bytes, 0))
<1>1. fields # Malformed /\ Has(fields, "name")
  BY DEF Deserializes
<1>2. Len(fields) \in Nat
  BY <1>1, FieldsAssumption
<1>3. "name" \in DOMAIN PublishMetadata /\ PublishMetadata["name"] = {"string"}
  BY DEF PublishMetadata
<1>4. LastOf(fields, "name") = FirstOf(fields, "name")
      /\ LastOf(fields, "name").type = "string"
  <2> HIDE DEF fields
  <2>1. Deserializes(fields)
    BY DEF fields
  <2> QED
    BY <1>1, <1>2, <1>3, <2>1, KnownMembers
<1> QED
  BY <1>1, <1>4 DEF crate_name_from_publish_body

(* Dependencies of metadata that deserializes are a list, each with the    *)
(* name of a crate.                                                        *)
LEMMA DepsHaveNames ==
  ASSUME NEW bytes \in Bodies, HasFrame(bytes, 0),
         Deserializes(Fields(Content(bytes, 0)))
  PROVE  LET deps == Deps(Fields(Content(bytes, 0)))
         IN  Len(deps) \in Nat /\ \A i \in 1..Len(deps) : deps[i].name # None
PROOF
<1> DEFINE fields == Fields(Content(bytes, 0))
<1>1. fields # Malformed /\ Deserializes(fields)
  BY DEF Deserializes
<1>2. /\ Len(fields) \in Nat
      /\ \A i \in 1..Len(fields) : fields[i].type = "deps" =>
           /\ Len(fields[i].value) \in Nat
           /\ \A j \in 1..Len(fields[i].value) : fields[i].value[j].name # None
  BY <1>1, FieldsAssumption
<1>3. "deps" \in DOMAIN PublishMetadata /\ PublishMetadata["deps"] = {"deps"}
  BY DEF PublishMetadata
<1> HIDE DEF fields
<1>4. CASE Has(fields, "deps")
  <2>1. PICK i \in 1..Len(fields) :
          FirstOf(fields, "deps") = fields[i] /\ fields[i].type = "deps"
    BY <1>1, <1>2, <1>3, <1>4, KnownMembers
  <2>2. Deps(fields) = fields[i].value
    BY <1>4, <2>1 DEF Deps
  <2> QED
    BY <1>2, <2>1, <2>2 DEF fields
<1>5. CASE ~Has(fields, "deps")
  BY <1>5 DEF Deps, fields
<1> QED
  BY <1>4, <1>5

-----------------------------------------------------------------------------
(* Numbers and their digits                                                *)

Number(a, b, c, d) ==
  a + Base * b + Base * Base * c + Base * Base * Base * d

(* A number is its rest and its quotient.                                  *)
LEMMA Division ==
  ASSUME NEW n \in Nat, NEW d \in Nat \ {0}
  PROVE  n \div d \in Nat /\ n % d \in 0..(d - 1) /\ n = (n % d) + d * (n \div d)
PROOF OBVIOUS

(* What is less than d times m has a quotient less than m.                 *)
LEMMA QuotientIsSmaller ==
  ASSUME NEW n \in Nat, NEW d \in Nat \ {0}, NEW m \in Nat, n < d * m
  PROVE  n \div d < m
PROOF OBVIOUS

(* The places below a digit and the digit make a number below the next     *)
(* place.                                                                  *)
LEMMA Carry ==
  ASSUME NEW m \in Nat, NEW r \in 0..(m - 1), NEW b \in Byte
  PROVE  r + m * b \in 0..(m * Base - 1)
PROOF
<1>1. b \in Nat /\ b + 1 <= Base /\ Base \in Nat
  BY BaseAssumption DEF Byte
<1>2. m * (b + 1) <= m * Base
  BY <1>1
<1>3. m * (b + 1) = m * b + m
  BY <1>1
<1>4. m * b \in Nat /\ m * Base \in Nat
  BY <1>1
<1> QED
  BY <1>2, <1>3, <1>4

(* to_le_bytes finds the digits of a number again.                         *)
LEMMA DigitsOfNumber ==
  ASSUME NEW a \in Byte, NEW b \in Byte, NEW c \in Byte, NEW d \in Byte
  PROVE  /\ Number(a, b, c, d) \in 0..(Base * Base * Base * Base - 1)
         /\ to_le_bytes(Number(a, b, c, d)) = <<a, b, c, d>>
PROOF
<1> DEFINE B2 == Base * Base
           B3 == Base * Base * Base
           n == Number(a, b, c, d)
<1>1. /\ Base \in Nat \ {0} /\ B2 \in Nat \ {0} /\ B3 \in Nat \ {0}
      /\ a \in Nat /\ b \in Nat /\ c \in Nat /\ d \in Nat
  BY BaseAssumption DEF Byte
<1>2. /\ a \in 0..(Base - 1)
      /\ a + Base * b \in 0..(B2 - 1)
      /\ a + Base * b + B2 * c \in 0..(B3 - 1)
      /\ a + Base * b + B2 * c + B3 * d \in 0..(B3 * Base - 1)
  <2>1. a + Base * b \in 0..(B2 - 1)
    BY <1>1, Carry DEF Byte
  <2>2. a + Base * b + B2 * c \in 0..(B3 - 1)
    <3> HIDE DEF B2
    <3>1. B3 = B2 * Base
      BY DEF B2
    <3> HIDE DEF B3
    <3> QED
    BY <1>1, <2>1, <3>1, Carry
  <2>3. a + Base * b + B2 * c + B3 * d \in 0..(B3 * Base - 1)
    <3> HIDE DEF B2, B3
    <3> QED
    BY <1>1, <2>2, Carry
  <2> QED
    BY <2>1, <2>2, <2>3 DEF Byte
<1>3. n = a + Base * b + B2 * c + B3 * d
  BY DEF Number
<1>4. b + Base * c + B2 * d \in Nat /\ c + Base * d \in Nat
  BY <1>1
<1>5. /\ n = a + Base * (b + Base * c + B2 * d)
      /\ n = (a + Base * b) + B2 * (c + Base * d)
      /\ n = (a + Base * b + B2 * c) + B3 * d
      /\ b + Base * c + B2 * d = b + Base * (c + Base * d)
  BY <1>1, <1>3
<1> DEFINE q1 == b + Base * c + B2 * d
           q2 == c + Base * d
           r2 == a + Base * b
           r3 == a + Base * b + B2 * c
<1>6. /\ n = a + Base * q1 /\ q1 = b + Base * q2 /\ q1 \in Nat
      /\ n = r2 + B2 * q2 /\ q2 \in Nat /\ r2 \in 0..(B2 - 1)
      /\ n = r3 + B3 * d /\ d \in Nat /\ r3 \in 0..(B3 - 1)
      /\ q2 = c + Base * d /\ d = d + Base * 0
  BY <1>1, <1>2, <1>4, <1>5
<1>7. /\ n % Base = a
      /\ (n \div Base) % Base = b
      /\ (n \div B2) % Base = c
      /\ (n \div B3) % Base = d
  <2> HIDE DEF n, B2, B3, q1, q2, r2, r3
  <2>1. n % Base = a /\ n \div Base = q1
    <3>1. /\ Base \in Nat \ {0} /\ q1 \in Nat /\ a \in 0..(Base - 1)
          /\ n = a + Base * q1
      BY <1>1, <1>2, <1>6 DEF Byte
    <3> QED
      BY <3>1
  <2>2. q1 % Base = b
    <3>1. /\ Base \in Nat \ {0} /\ q2 \in Nat /\ b \in 0..(Base - 1)
          /\ q1 = b + Base * q2
      BY <1>1, <1>2, <1>6 DEF Byte
    <3> QED
      BY <3>1
  <2>3. n \div B2 = q2
    <3>1. /\ B2 \in Nat \ {0} /\ q2 \in Nat /\ r2 \in 0..(B2 - 1)
          /\ n = r2 + B2 * q2
      BY <1>1, <1>2, <1>6 DEF Byte
    <3> QED
      BY <3>1
  <2>4. q2 % Base = c
    <3>1. /\ Base \in Nat \ {0} /\ d \in Nat /\ c \in 0..(Base - 1)
          /\ q2 = c + Base * d
      BY <1>1, <1>2, <1>6 DEF Byte
    <3> QED
      BY <3>1
  <2>5. n \div B3 = d
    <3>1. /\ B3 \in Nat \ {0} /\ d \in Nat /\ r3 \in 0..(B3 - 1)
          /\ n = r3 + B3 * d
      BY <1>1, <1>2, <1>6 DEF Byte
    <3> QED
      BY <3>1
  <2>6. d % Base = d
    BY <1>1, <1>2 DEF Byte
  <2> QED
    BY <2>1, <2>2, <2>3, <2>4, <2>5, <2>6
<1>10. n \in 0..(Base * Base * Base * Base - 1)
  BY <1>2, <1>3
<1> QED
  BY <1>7, <1>10 DEF to_le_bytes

(* Every number that four bytes can hold has four digits.                  *)
LEMMA NumberOfDigits ==
  ASSUME NEW n \in Nat, n < Base * Base * Base * Base
  PROVE  \E a, b, c, d \in Byte : n = Number(a, b, c, d)
PROOF
<1> DEFINE q == n \div Base
           s == q \div Base
           t == s \div Base
           B2 == Base * Base
           B3 == Base * Base * Base
<1>1. Base \in Nat \ {0} /\ B2 \in Nat /\ B3 \in Nat
  BY BaseAssumption
<1>2. q \in Nat /\ n % Base \in Byte /\ n = (n % Base) + Base * q /\ q < B3
  <2>1. n < Base * B3
    BY BaseAssumption
  <2> HIDE DEF B3
  <2> QED
    BY <1>1, <2>1, Division, QuotientIsSmaller DEF Byte
<1>3. s \in Nat /\ q % Base \in Byte /\ q = (q % Base) + Base * s /\ s < B2
  <2>1. q < Base * B2
    BY <1>1, <1>2
  <2> HIDE DEF q, B2
  <2> QED
    BY <1>1, <1>2, <2>1, Division, QuotientIsSmaller DEF Byte
<1>4. t \in Nat /\ s % Base \in Byte /\ s = (s % Base) + Base * t /\ t < Base
  <2> HIDE DEF s
  <2> QED
    BY <1>1, <1>3, Division, QuotientIsSmaller DEF Byte
<1>5. n = Number(n % Base, q % Base, s % Base, t)
  <2> DEFINE a == n % Base
             b == q % Base
             c == s % Base
  <2>1. /\ n = a + Base * q /\ q = b + Base * s /\ s = c + Base * t
        /\ a \in Nat /\ b \in Nat /\ c \in Nat /\ t \in Nat /\ q \in Nat /\ s \in Nat
    BY <1>1, <1>2, <1>3, <1>4 DEF Byte
  <2> HIDE DEF a, b, c, q, s, t
  <2>2. n = a + Base * (b + Base * (c + Base * t))
    BY <2>1
  <2>3. n = Number(a, b, c, t)
    BY <1>1, <2>1, <2>2 DEF Number
  <2> QED
    BY <2>3 DEF a, b, c
<1>6. t \in Byte
  BY <1>1, <1>4 DEF Byte
<1> QED
  BY <1>2, <1>3, <1>4, <1>5, <1>6

-----------------------------------------------------------------------------
(* Frames                                                                  *)

(* A length read back from four bytes is a number, and is encoded by them. *)
LEMMA LengthField ==
  ASSUME NEW bytes \in Seq(Byte), NEW at \in Nat, at + 4 <= Len(bytes)
  PROVE  /\ u32(bytes, at) \in Nat
         /\ to_le_bytes(u32(bytes, at)) = SubSeq(bytes, at + 1, at + 4)
PROOF
<1>1. /\ Len(bytes) \in Nat
      /\ \A i \in 1..4 : at + i \in 1..Len(bytes) /\ bytes[at + i] \in Byte
  BY LenProperties, ElementOfSeq
<1> DEFINE a == bytes[at + 1]
           b == bytes[at + 2]
           c == bytes[at + 3]
           d == bytes[at + 4]
<1>2. /\ a \in Byte /\ b \in Byte /\ c \in Byte /\ d \in Byte
      /\ u32(bytes, at) = Number(a, b, c, d)
  BY <1>1 DEF u32, Number
<1>3. /\ u32(bytes, at) \in Nat
      /\ to_le_bytes(u32(bytes, at)) = <<a, b, c, d>>
  <2> HIDE DEF a, b, c, d
  <2> QED
    BY <1>2, DigitsOfNumber
<1>4. SubSeq(bytes, at + 1, at + 4) = <<a, b, c, d>>
  <2> DEFINE field == SubSeq(bytes, at + 1, at + 4)
             digits == <<a, b, c, d>>
  <2>1. /\ field \in Seq(Byte) /\ Len(field) = 4
        /\ \A i \in 1..4 : field[i] = bytes[at + i]
    <3>1. \A i \in (at + 1)..(at + 4) : bytes[i] \in Byte
      BY <1>1, ElementOfSeq
    <3>2. /\ field \in Seq(Byte)
          /\ Len(field) = IF at + 1 <= at + 4 THEN (at + 4) - (at + 1) + 1 ELSE 0
          /\ \A i \in 1..((at + 4) - (at + 1) + 1) : field[i] = bytes[(at + 1) + i - 1]
      BY <3>1, SubSeqProperties
    <3> QED
      BY <3>2
  <2>2. /\ digits \in Seq(Byte) /\ Len(digits) = 4
        /\ \A i \in 1..4 : digits[i] = bytes[at + i]
    BY <1>2
  <2> HIDE DEF field, digits
  <2>3. /\ Len(field) = Len(digits)
        /\ \A i \in 1..Len(field) : field[i] = digits[i]
    BY <2>1, <2>2
  <2>4. field = digits
    BY <2>1, <2>2, <2>3, SeqEqual
  <2> QED
    BY <2>4 DEF field, digits
<1> QED
  BY <1>3, <1>4

(* The four bytes of a length that fits give that length.                  *)
LEMMA LengthRead ==
  ASSUME NEW n \in Nat, n < Base * Base * Base * Base
  PROVE  /\ to_le_bytes(n) \in Seq(Byte) /\ Len(to_le_bytes(n)) = 4
         /\ \A bytes, at :
              (\A i \in 1..4 : bytes[at + i] = to_le_bytes(n)[i])
                => u32(bytes, at) = n
PROOF
<1>1. PICK a \in Byte, b \in Byte, c \in Byte, d \in Byte : n = Number(a, b, c, d)
  BY NumberOfDigits
<1>2. to_le_bytes(n) = <<a, b, c, d>>
  BY <1>1, DigitsOfNumber
<1>3. ASSUME NEW bytes, NEW at, \A i \in 1..4 : bytes[at + i] = to_le_bytes(n)[i]
      PROVE  u32(bytes, at) = n
  <2>1. /\ bytes[at + 1] = a /\ bytes[at + 2] = b
        /\ bytes[at + 3] = c /\ bytes[at + 4] = d
    BY <1>2, <1>3
  <2> QED
    BY <1>1, <2>1 DEF u32, Number
<1> QED
  BY <1>2, <1>3

(* Where the two frames of a framed body lie.                              *)
LEMMA FramesOfBody ==
  ASSUME NEW bytes \in Seq(Byte), Framed(bytes)
  PROVE  LET middle == FrameEnd(bytes, 0)
         IN  /\ middle \in 4..Len(bytes) /\ middle + 4 <= Len(bytes)
             /\ Content(bytes, 0) = SubSeq(bytes, 5, middle)
             /\ Len(Content(bytes, 0)) = u32(bytes, 0)
             /\ Content(bytes, middle) = SubSeq(bytes, middle + 5, Len(bytes))
             /\ Len(Content(bytes, middle)) = u32(bytes, middle)
PROOF
<1> DEFINE middle == FrameEnd(bytes, 0)
           m == u32(bytes, 0)
           k == u32(bytes, middle)
<1>1. Len(bytes) \in Nat /\ \A i \in 1..Len(bytes) : bytes[i] \in Byte
  BY LenProperties, ElementOfSeq
<1>2. 4 <= Len(bytes) /\ middle <= Len(bytes) /\ middle = 4 + m /\ m \in Nat
  BY LengthField DEF Framed, HasFrame, FrameEnd
<1>3. middle \in Nat /\ middle + 4 <= Len(bytes) /\ k \in Nat
      /\ Len(bytes) = middle + 4 + k
  <2>1. middle \in Nat
    BY <1>2
  <2>2. middle + 4 <= Len(bytes) /\ FrameEnd(bytes, middle) = Len(bytes)
    BY DEF Framed, HasFrame
  <2>3. k \in Nat
    BY <2>1, <2>2, LengthField
  <2> QED
    BY <2>1, <2>2, <2>3 DEF FrameEnd
<1>4. /\ Content(bytes, 0) = SubSeq(bytes, 5, middle)
      /\ Content(bytes, middle) = SubSeq(bytes, middle + 5, Len(bytes))
  BY <1>2, <1>3 DEF Content, FrameEnd
<1> HIDE DEF middle, m, k
<1>5. Len(SubSeq(bytes, 5, middle)) = m
  <2>1. \A i \in 5..middle : bytes[i] \in Byte
    BY <1>1, <1>2, <1>3
  <2>2. Len(SubSeq(bytes, 5, middle)) = IF 5 <= middle THEN middle - 5 + 1 ELSE 0
    BY <1>3, <2>1, SubSeqProperties
  <2> QED
    BY <1>2, <2>2
<1>6. Len(SubSeq(bytes, middle + 5, Len(bytes))) = k
  <2>1. \A i \in (middle + 5)..Len(bytes) : bytes[i] \in Byte
    BY <1>1, <1>3
  <2>2. Len(SubSeq(bytes, middle + 5, Len(bytes)))
          = IF middle + 5 <= Len(bytes) THEN Len(bytes) - (middle + 5) + 1 ELSE 0
    BY <1>1, <1>3, <2>1, SubSeqProperties
  <2> QED
    BY <1>1, <1>3, <2>2
<1>7. middle \in 4..Len(bytes)
  BY <1>1, <1>2, <1>3
<1>8. Len(Content(bytes, 0)) = m /\ Len(Content(bytes, middle)) = k
  BY <1>4, <1>5, <1>6
<1> QED
  BY <1>3, <1>4, <1>7, <1>8 DEF middle, m, k

(* A framed body is the encoding of what its frames hold.                  *)
LEMMA FramedIsEncoded ==
  ASSUME NEW bytes \in Seq(Byte), Framed(bytes)
  PROVE  bytes = Encode(Content(bytes, 0), Content(bytes, FrameEnd(bytes, 0)))
PROOF
<1> DEFINE middle == FrameEnd(bytes, 0)
           size == Len(bytes)
<1>1. size \in Nat /\ middle \in 4..size /\ middle + 4 <= size
  BY FramesOfBody, LenProperties
<1>2. /\ to_le_bytes(Len(Content(bytes, 0))) = SubSeq(bytes, 1, 4)
      /\ Content(bytes, 0) = SubSeq(bytes, 4 + 1, middle)
  <2>1. to_le_bytes(u32(bytes, 0)) = SubSeq(bytes, 0 + 1, 0 + 4)
    BY <1>1, LengthField
  <2> QED
    BY <2>1, FramesOfBody
<1>3. /\ to_le_bytes(Len(Content(bytes, middle))) = SubSeq(bytes, middle + 1, middle + 4)
      /\ Content(bytes, middle) = SubSeq(bytes, (middle + 4) + 1, size)
  <2>1. to_le_bytes(u32(bytes, middle)) = SubSeq(bytes, middle + 1, middle + 4)
    <3> HIDE DEF middle
    <3> QED
      BY <1>1, LengthField
  <2>2. (middle + 4) + 1 = middle + 5
    BY <1>1
  <2> QED
    BY <2>1, <2>2, FramesOfBody
<1> HIDE DEF middle, size
<1>4. SubSeq(bytes, 1, 4) \o SubSeq(bytes, 4 + 1, middle) = SubSeq(bytes, 1, middle)
  <2>1. 1 \in 1..(Len(bytes) + 1) /\ 4 \in (1 - 1)..Len(bytes) /\ middle \in 4..Len(bytes)
    BY <1>1 DEF size
  <2> QED
    BY <2>1, ConcatAdjacentSubSeq
<1>5. SubSeq(bytes, 1, middle) \o SubSeq(bytes, middle + 1, middle + 4)
        = SubSeq(bytes, 1, middle + 4)
  <2>1. /\ 1 \in 1..(Len(bytes) + 1) /\ middle \in (1 - 1)..Len(bytes)
        /\ middle + 4 \in middle..Len(bytes)
    BY <1>1 DEF size
  <2> QED
    BY <2>1, ConcatAdjacentSubSeq
<1>6. SubSeq(bytes, 1, middle + 4) \o SubSeq(bytes, (middle + 4) + 1, size)
        = SubSeq(bytes, 1, size)
  <2>1. /\ 1 \in 1..(Len(bytes) + 1) /\ middle + 4 \in (1 - 1)..Len(bytes)
        /\ size \in (middle + 4)..Len(bytes)
    BY <1>1 DEF size
  <2> QED
    BY <2>1, ConcatAdjacentSubSeq
<1>7. SubSeq(bytes, 1, size) = bytes
  BY SubSeqFull DEF size
<1> QED
  BY <1>2, <1>3, <1>4, <1>5, <1>6, <1>7 DEF Encode, middle

(* What Cargo encodes is framed where it put its lengths.                  *)
LEMMA EncodedIsFramed ==
  ASSUME NEW bytes \in Seq(Byte), NEW n \in 4..Len(bytes),
         Len(SubSeq(bytes, 5, n)) < Base * Base * Base * Base,
         Len(SubSeq(bytes, n + 5, Len(bytes))) < Base * Base * Base * Base,
         bytes = Encode(SubSeq(bytes, 5, n), SubSeq(bytes, n + 5, Len(bytes)))
  PROVE  /\ HasFrame(bytes, 0) /\ FrameEnd(bytes, 0) = n
         /\ Framed(bytes)
         /\ Len(bytes) = Len(SubSeq(bytes, 5, n)) + 8
                           + Len(SubSeq(bytes, n + 5, Len(bytes)))
         /\ Content(bytes, 0) = SubSeq(bytes, 5, n)
         /\ Content(bytes, n) = SubSeq(bytes, n + 5, Len(bytes))
PROOF
<1> DEFINE size == Len(bytes)
           metadata == SubSeq(bytes, 5, n)
           tarball == SubSeq(bytes, n + 5, size)
           first == to_le_bytes(Len(metadata))
           second == to_le_bytes(Len(tarball))
<1>1. /\ size \in Nat /\ \A i \in 1..size : bytes[i] \in Byte
      /\ n \in Nat /\ 4 <= n /\ n <= size
  BY LenProperties, ElementOfSeq
<1>2. metadata \in Seq(Byte) /\ Len(metadata) = n - 4
  <2>1. \A i \in 5..n : bytes[i] \in Byte
    BY <1>1
  <2>2. /\ metadata \in Seq(Byte)
        /\ Len(metadata) = IF 5 <= n THEN n - 5 + 1 ELSE 0
    BY <1>1, <2>1, SubSeqProperties
  <2> QED
    BY <1>1, <2>2
<1>3. tarball \in Seq(Byte) /\ Len(tarball) \in Nat
  <2>1. \A i \in (n + 5)..size : bytes[i] \in Byte
    BY <1>1
  <2>2. tarball \in Seq(Byte)
    BY <1>1, <2>1, SubSeqProperties
  <2> QED
    BY <2>2, LenProperties
<1>4. /\ first \in Seq(Byte) /\ Len(first) = 4
      /\ second \in Seq(Byte) /\ Len(second) = 4
      /\ \A at : (\A i \in 1..4 : bytes[at + i] = first[i])
                   => u32(bytes, at) = Len(metadata)
      /\ \A at : (\A i \in 1..4 : bytes[at + i] = second[i])
                   => u32(bytes, at) = Len(tarball)
  <2>1. Len(metadata) \in Nat /\ Len(tarball) \in Nat
    BY <1>1, <1>2, <1>3
  <2> QED
    BY <2>1, LengthRead
<1>5. bytes = ((first \o metadata) \o second) \o tarball
  BY DEF Encode
<1> HIDE DEF size, metadata, tarball, first, second
<1> DEFINE front == first \o metadata
           most == front \o second
<1>6. /\ front \in Seq(Byte) /\ Len(front) = n
      /\ \A i \in 1..4 : front[i] = first[i]
  <2>1. /\ front \in Seq(Byte) /\ Len(front) = Len(first) + Len(metadata)
        /\ \A i \in 1..(Len(first) + Len(metadata)) :
             front[i] = IF i <= Len(first) THEN first[i] ELSE metadata[i - Len(first)]
    BY <1>2, <1>4, ConcatProperties
  <2> QED
    BY <1>1, <1>2, <1>4, <2>1
<1> HIDE DEF front
<1>7. /\ most \in Seq(Byte) /\ Len(most) = n + 4
      /\ \A i \in 1..4 : most[i] = first[i] /\ most[n + i] = second[i]
  <2>1. /\ most \in Seq(Byte) /\ Len(most) = Len(front) + Len(second)
        /\ \A i \in 1..(Len(front) + Len(second)) :
             most[i] = IF i <= Len(front) THEN front[i] ELSE second[i - Len(front)]
    <3>1. front \in Seq(Byte) /\ second \in Seq(Byte)
      BY <1>4, <1>6
    <3> QED
      BY <3>1, ConcatProperties
  <2>2. ASSUME NEW i \in 1..4
        PROVE  most[i] = first[i] /\ most[n + i] = second[i]
    <3>1. /\ i \in 1..(Len(front) + Len(second)) /\ i <= Len(front)
          /\ n + i \in 1..(Len(front) + Len(second)) /\ ~(n + i <= Len(front))
          /\ (n + i) - Len(front) = i
      BY <1>1, <1>4, <1>6
    <3> QED
      BY <1>6, <2>1, <3>1
  <2> QED
    BY <1>4, <1>6, <2>1, <2>2
<1> HIDE DEF most
<1>8. /\ size = n + 4 + Len(tarball)
      /\ \A i \in 1..4 : bytes[0 + i] = first[i] /\ bytes[n + i] = second[i]
  <2>1. /\ bytes = most \o tarball
        /\ Len(most \o tarball) = Len(most) + Len(tarball)
        /\ \A i \in 1..(Len(most) + Len(tarball)) :
             (most \o tarball)[i] = IF i <= Len(most) THEN most[i]
                                    ELSE tarball[i - Len(most)]
    <3>1. bytes = most \o tarball
      BY <1>5 DEF front, most
    <3> QED
      BY <1>3, <1>7, <3>1, ConcatProperties
  <2>2. ASSUME NEW i \in 1..4
        PROVE  bytes[i] = first[i] /\ bytes[n + i] = second[i]
    <3>1. /\ i \in 1..(Len(most) + Len(tarball)) /\ i <= Len(most)
          /\ n + i \in 1..(Len(most) + Len(tarball)) /\ n + i <= Len(most)
      <4>1. Len(most) = n + 4 /\ n \in Nat /\ Len(tarball) \in Nat
        BY <1>1, <1>3, <1>7
      <4> QED
        BY <4>1
    <3>2. bytes[i] = most[i] /\ bytes[n + i] = most[n + i]
      <4>1. /\ (most \o tarball)[i] = most[i]
            /\ (most \o tarball)[n + i] = most[n + i]
        BY <2>1, <3>1, Zenon
      <4> QED
        BY <2>1, <4>1, Zenon
    <3> QED
      BY <1>7, <3>2
  <2> QED
    BY <1>1, <1>3, <1>7, <2>1, <2>2 DEF size
<1>9. u32(bytes, 0) = n - 4 /\ u32(bytes, n) = Len(tarball)
  BY <1>2, <1>4, <1>8
<1>10. FrameEnd(bytes, 0) = n /\ FrameEnd(bytes, n) = size
  BY <1>1, <1>3, <1>8, <1>9 DEF FrameEnd
<1>11. Framed(bytes)
  BY <1>1, <1>3, <1>8, <1>10 DEF Framed, HasFrame, size
<1>12. Content(bytes, 0) = metadata /\ Content(bytes, n) = tarball
  BY <1>10 DEF Content, metadata, tarball, size
<1>13. HasFrame(bytes, 0) /\ FrameEnd(bytes, 0) = n
  BY <1>10, <1>11 DEF Framed
<1>14. Len(bytes) = Len(metadata) + 8 + Len(tarball)
  BY <1>1, <1>2, <1>3, <1>8 DEF size
<1> QED
  BY <1>11, <1>12, <1>13, <1>14 DEF metadata, tarball, size

(* Cargo's encoding within the limits passes both parsers.                 *)
LEMMA EncodedParses ==
  ASSUME NEW bytes \in Bodies, NEW n \in 4..Len(bytes),
         Len(SubSeq(bytes, 5, n)) < Base * Base * Base * Base,
         Len(SubSeq(bytes, n + 5, Len(bytes))) < Base * Base * Base * Base,
         bytes = Encode(SubSeq(bytes, 5, n), SubSeq(bytes, n + 5, Len(bytes))),
         Len(SubSeq(bytes, n + 5, Len(bytes))) <= MaxTarball,
         Len(SubSeq(bytes, 5, n)) + 8 <= Allowance,
         Deserializes(Fields(SubSeq(bytes, 5, n))),
         FirstOf(Fields(SubSeq(bytes, 5, n)), "name").value \in Names,
         FirstOf(Fields(SubSeq(bytes, 5, n)), "vers").value \in Versions
  PROVE  /\ Fits(bytes)
         /\ crate_name_from_publish_body(bytes)
              = FirstOf(Fields(SubSeq(bytes, 5, n)), "name").value
         /\ parse_publish_body(bytes)
              = [index_entry |-> build_index_entry(Fields(SubSeq(bytes, 5, n))),
                 crate_bytes |-> SubSeq(bytes, n + 5, Len(bytes))]
PROOF
<1> DEFINE metadata == SubSeq(bytes, 5, n)
           tarball == SubSeq(bytes, n + 5, Len(bytes))
<1>1. bytes \in Seq(Byte)
  BY BodyAssumption
<1>2. /\ HasFrame(bytes, 0) /\ FrameEnd(bytes, 0) = n /\ Framed(bytes)
      /\ Len(bytes) = Len(metadata) + 8 + Len(tarball)
      /\ Content(bytes, 0) = metadata /\ Content(bytes, n) = tarball
  BY <1>1, EncodedIsFramed
<1>3. Len(metadata) \in Nat /\ Len(tarball) \in Nat
  <2>1. \A i \in 1..Len(bytes) : bytes[i] \in Byte
    BY <1>1, ElementOfSeq
  <2>2. Len(bytes) \in Nat /\ n \in Nat /\ n <= Len(bytes)
    BY <1>1, LenProperties
  <2>3. \A i \in 5..n : bytes[i] \in Byte
    BY <2>1, <2>2
  <2>4. \A i \in (n + 5)..Len(bytes) : bytes[i] \in Byte
    BY <2>1, <2>2
  <2>5. metadata \in Seq(Byte) /\ tarball \in Seq(Byte)
    BY <2>2, <2>3, <2>4, SubSeqProperties
  <2> QED
    BY <2>5, LenProperties
<1>4. Fits(bytes)
  BY <1>2, <1>3, LimitAssumption DEF Fits
<1>5. crate_name_from_publish_body(bytes) = FirstOf(Fields(metadata), "name").value
  <2>1. Deserializes(Fields(Content(bytes, 0)))
    BY <1>2
  <2>2. crate_name_from_publish_body(bytes)
          = FirstOf(Fields(Content(bytes, 0)), "name").value
    BY <1>2, <2>1, NamesAgree
  <2> QED
    BY <1>2, <2>2
<1>6. parse_publish_body(bytes)
        = [index_entry |-> build_index_entry(Fields(metadata)), crate_bytes |-> tarball]
  BY <1>2, <1>4 DEF parse_publish_body, TarballFits
<1> QED
  BY <1>4, <1>5, <1>6

-----------------------------------------------------------------------------
(* The handler                                                             *)

(* Both parsers have seen the body that the client sent.                   *)
Parsed ==
  /\ body \in Bodies
  /\ name # None => name = crate_name_from_publish_body(body)
  /\ published # None => name # None /\ published = parse_publish_body(body)

(* What it takes to be published.                                          *)
LEMMA ParsedBody ==
  ASSUME Parsed, published # None
  PROVE  LET fields == Fields(Content(body, 0))
             tarball == Content(body, FrameEnd(body, 0))
         IN  /\ body \in Seq(Byte) /\ Framed(body) /\ HasFrame(body, 0)
             /\ TarballFits(tarball) /\ Deserializes(fields)
             /\ published = [index_entry |-> build_index_entry(fields),
                             crate_bytes |-> tarball]
PROOF
<1>1. parse_publish_body(body) # None /\ published = parse_publish_body(body)
  BY DEF Parsed
<1>2. body \in Seq(Byte)
  BY BodyAssumption DEF Parsed
<1> QED
  BY <1>1, <1>2 DEF parse_publish_body, Framed

(* Parsed is an invariant.                                                 *)
LEMMA BodiesAreParsed == Spec => []Parsed
PROOF
<1>1. Init => Parsed
  BY DEF Init, Parsed
<1>2. Parsed /\ [Next]_vars => Parsed'
  <2> SUFFICES ASSUME Parsed, [Next]_vars
               PROVE  Parsed'
    OBVIOUS
  <2>1. CASE ReadBody
    BY <2>1 DEF ReadBody, Parsed
  <2>2. CASE ReadName
    BY <2>2 DEF ReadName, Parsed
  <2>3. CASE Publish
    BY <2>3 DEF Publish, Parsed
  <2>4. CASE UNCHANGED vars
    BY <2>4 DEF vars, Parsed
  <2> QED
    BY <2>1, <2>2, <2>3, <2>4 DEF Next
<1> QED
  BY <1>1, <1>2, PTL DEF Spec

(* The name that is published is the name that the right was checked for,  *)
(* whatever members the metadata repeats.                                  *)
THEOREM PublishedIsAuthorized == Spec => []AuthorizedIsPublished
PROOF
<1>1. Parsed => AuthorizedIsPublished
  <2> SUFFICES ASSUME Parsed, published # None
               PROVE  published.index_entry.name = name
    BY DEF AuthorizedIsPublished
  <2>1. name = FirstOf(Fields(Content(body, 0)), "name").value
    BY ParsedBody, NamesAgree DEF Parsed
  <2> QED
    BY <2>1, ParsedBody DEF build_index_entry
<1> QED
  BY <1>1, BodiesAreParsed, PTL

(* What is published are the parts that Cargo put into the body, byte for  *)
(* byte, whatever the lengths in it say.                                   *)
THEOREM PublishedIsEncoded == Spec => []PublishedAsEncoded
PROOF
<1>1. Parsed => PublishedAsEncoded
  <2> SUFFICES ASSUME Parsed, published # None
               PROVE  /\ Len(published.crate_bytes) <= MaxTarball
                      /\ body = Encode(Content(body, 0), published.crate_bytes)
    BY DEF PublishedAsEncoded
  <2>1. published.crate_bytes = Content(body, FrameEnd(body, 0))
    BY ParsedBody
  <2> QED
    BY <2>1, ParsedBody, FramedIsEncoded DEF TarballFits
<1> QED
  BY <1>1, BodiesAreParsed, PTL

(* Cargo's encoding of any crate within the limits is taken and read back. *)
THEOREM EncodingsAreTaken == Spec => []EncodedIsPublishable
PROOF
<1>1. Parsed => EncodedIsPublishable
  BY EncodedParses DEF Parsed, EncodedIsPublishable
<1> QED
  BY <1>1, BodiesAreParsed, PTL

(* Cargo reads back from the index the dependencies it sent, with the      *)
(* crates they are on and the names their author gave them.                *)
THEOREM DependenciesAreResolved == Spec => []DependenciesResolve
PROOF
<1>1. Parsed => DependenciesResolve
  <2> SUFFICES ASSUME Parsed, published # None
               PROVE  DependenciesResolve
    BY DEF DependenciesResolve
  <2> DEFINE deps == Deps(Fields(Content(body, 0)))
             listed == published.index_entry.deps
  <2>1. Len(deps) \in Nat /\ \A i \in 1..Len(deps) : deps[i].name # None
    BY ParsedBody, DepsHaveNames DEF Parsed
  <2>2. listed = [i \in 1..Len(deps) |-> index_dependency(deps[i])]
    BY ParsedBody DEF build_index_entry
  <2> HIDE DEF deps, listed
  <2>3. Len(listed) = Len(deps)
    BY <2>1, <2>2
  <2>4. ASSUME NEW i \in 1..Len(deps)
        PROVE  /\ Read(listed[i]).name = deps[i].name
               /\ Read(listed[i]).explicit_name_in_toml
                    = deps[i].explicit_name_in_toml
    <3>1. listed[i] = index_dependency(deps[i]) /\ deps[i].name # None
      BY <2>1, <2>2
    <3> QED
      BY <3>1 DEF index_dependency, Read
  <2> QED
    BY <2>3, <2>4 DEF DependenciesResolve, deps, listed
<1> QED
  BY <1>1, BodiesAreParsed, PTL
=============================================================================

--------------------------- MODULE WebSocketProofs ---------------------------
(***************************************************************************)
(* A session over a WebSocket, for any commands, types of arguments,       *)
(* masks, lengths and limits, however the socket cuts what it carries: no  *)
(* read leaves the buffer, replies are written whole, and the commands run *)
(* in their order, each once, on the arguments that they were sent with.   *)
(***************************************************************************)
EXTENDS WebSocket, CodecProofs

-----------------------------------------------------------------------------
(* A frame, as it is written and as it is read. *)

\* What read_header and read_length make of the bytes they have read.
HeaderOf(s) ==
    IF s[2] = MEDIUM_STREAM
    THEN [header_size |-> 8, mask_offset |-> 4, payload_size |-> Extract2(SubSeq(s, 3, 4))]
    ELSE IF s[2] = BIG_STREAM
    THEN [header_size |-> 14, mask_offset |-> 10, payload_size |-> Extract8(SubSeq(s, 3, 10))]
    ELSE [header_size |-> 6, mask_offset |-> 2, payload_size |-> s[2]]

\* The bytes reach as far as the payload's length.
Headed(s) ==
    /\ Len(s) >= 2
    /\ s[2] = MEDIUM_STREAM => Len(s) >= 4
    /\ s[2] = BIG_STREAM => Len(s) >= 10

\* And what decode_raw_stream_cmd makes of a whole frame.
Decoded(s) ==
    Unmasked(SubSeq(s, HeaderOf(s).header_size + 1, Len(s)),
             SubSeq(s, HeaderOf(s).mask_offset + 1, HeaderOf(s).mask_offset + 4))

\* A part of the first of two strings.
LEMMA FirstPart ==
    \A a, u \in Bytes, i, j \in Nat : 1 <= i /\ j <= Len(a) =>
        SubSeq(Cat(a, u), i, j) = SubSeq(a, i, j)
<1>. SUFFICES ASSUME NEW a \in Seq(Byte), NEW u \in Seq(Byte), NEW i \in Nat, NEW j \in Nat,
                     1 <= i, j <= Len(a)
              PROVE  SubSeq(a \o u, i, j) = SubSeq(a, i, j)
  BY Zenon DEF Cat, Bytes
<1>1. \A k \in 1..Len(a) : (a \o u)[k] = a[k]
  OBVIOUS
<1>2. \A k \in 1..(j - i + 1) : k + i - 1 \in 1..Len(a)
  OBVIOUS
<1>. DEFINE w == a \o u
<1>3. w \in Seq(Byte) /\ Len(w) \in Nat /\ Len(w) >= Len(a)
  OBVIOUS
<1>. HIDE DEF w
<1>4. \A k \in 1..Len(a) : w[k] = a[k]
  BY <1>1 DEF w
<1>5. SubSeq(w, i, j) = [k \in 1..(j - i + 1) |-> w[k + i - 1]]
  BY <1>3
<1>6. SubSeq(a, i, j) = [k \in 1..(j - i + 1) |-> a[k + i - 1]]
  OBVIOUS
<1>7. \A k \in 1..(j - i + 1) : w[k + i - 1] = a[k + i - 1]
  BY <1>2, <1>4
<1>8. SubSeq(w, i, j) = SubSeq(a, i, j)
  BY <1>5, <1>6, <1>7
<1>. QED BY <1>8 DEF w

\* Two bytes and eight give a length.
LEMMA LengthType ==
    /\ \A s \in Bytes : Len(s) >= 4 => Extract2(SubSeq(s, 3, 4)) \in Nat
    /\ \A s \in Bytes : Len(s) >= 10 => Extract8(SubSeq(s, 3, 10)) \in Nat
<1>0. \A s \in Bytes : Len(s) \in Nat /\ \A i \in 1..Len(s) : s[i] \in Nat
  BY Radixes DEF Bytes, Byte
<1>1. ASSUME NEW s \in Bytes, Len(s) >= 4 PROVE Extract2(SubSeq(s, 3, 4)) \in Nat
  <2>1. \A i \in 1..4 : s[i] \in Nat
    BY <1>0, <1>1
  <2>2. SubSeq(s, 3, 4)[1] = s[3] /\ SubSeq(s, 3, 4)[2] = s[4]
    BY <1>1 DEF Bytes
  <2>3. s[3] \in Nat /\ s[4] \in Nat
    BY <2>1
  <2>4. s[3] * Radix \in Nat
    BY <2>3, Radixes, Products
  <2>. QED BY <2>2, <2>3, <2>4 DEF Extract2
<1>2. ASSUME NEW s \in Bytes, Len(s) >= 10 PROVE Extract8(SubSeq(s, 3, 10)) \in Nat
  <2>1. \A i \in 1..10 : s[i] \in Nat
    BY <1>0, <1>2
  <2>. DEFINE b == SubSeq(s, 3, 10)
              p == SubSeq(b, 1, 4)
              q == SubSeq(b, 5, 8)
  <2>2. b \in Bytes /\ Len(b) = 8 /\ \A i \in 1..8 : b[i] = s[i + 2]
    BY <1>2 DEF Bytes
  <2>. HIDE DEF b
  <2>3. /\ \A i \in 1..4 : p[i] = b[i] /\ q[i] = b[i + 4]
    BY <2>2 DEF Bytes
  <2>. HIDE DEF p, q
  <2>4. \A i \in 1..8 : b[i] \in Nat
    <3>1. \A i \in 1..8 : i + 2 \in 1..10
      OBVIOUS
    <3>. QED BY <2>1, <2>2, <3>1, Zenon
  <2>5. /\ p[1] \in Nat /\ p[2] \in Nat /\ p[3] \in Nat /\ p[4] \in Nat
        /\ q[1] \in Nat /\ q[2] \in Nat /\ q[3] \in Nat /\ q[4] \in Nat
    BY <2>3, <2>4
  <2>6. ASSUME NEW t, t[1] \in Nat, t[2] \in Nat, t[3] \in Nat, t[4] \in Nat
        PROVE  Extract4(t) \in Nat
    <3>1. /\ t[3] * Radix \in Nat /\ t[2] * Radix2 \in Nat
          /\ t[1] * Radix2 \in Nat
      BY <2>6, Radixes, Products
    <3>2. t[1] * Radix2 * Radix \in Nat
      BY <3>1, Radixes, Products
    <3>. QED BY <2>6, <3>1, <3>2 DEF Extract4
  <2>7. Extract4(p) \in Nat /\ Extract4(q) \in Nat
    BY <2>5, <2>6
  <2>8. Extract4(p) * Radix4 \in Nat
    BY <2>7, Radixes, Products
  <2>. QED BY <2>7, <2>8 DEF Extract8, b, p, q
<1>. QED BY <1>1, <1>2

\* A header takes 6, 8 or 14 bytes, the mask's four its last.
LEMMA HeaderType ==
    \A s \in Bytes : Headed(s) =>
        LET h == HeaderOf(s)
        IN  /\ h.header_size \in {6, 8, 14} /\ h.mask_offset + 4 = h.header_size
            /\ h.mask_offset \in Nat /\ h.payload_size \in Nat
            /\ h.mask_offset \in {2, 4, 10}
<1>. SUFFICES ASSUME NEW s \in Bytes, Headed(s)
              PROVE  LET h == HeaderOf(s)
                     IN  /\ h.header_size \in {6, 8, 14} /\ h.mask_offset + 4 = h.header_size
                         /\ h.mask_offset \in Nat /\ h.payload_size \in Nat
                         /\ h.mask_offset \in {2, 4, 10}
  OBVIOUS
<1>1. s[2] \in Nat
  BY Radixes DEF Headed, Bytes, Byte
<1>2. /\ s[2] = MEDIUM_STREAM => Extract2(SubSeq(s, 3, 4)) \in Nat
      /\ s[2] = BIG_STREAM => Extract8(SubSeq(s, 3, 10)) \in Nat
  BY LengthType DEF Headed
<1>. QED BY <1>1, <1>2 DEF HeaderOf

\* What comes after the length of the payload does not change the header.
LEMMA HeaderFirst ==
    \A a, u \in Bytes : Headed(a) =>
        /\ HeaderOf(Cat(a, u)) = HeaderOf(a) /\ Headed(Cat(a, u))
        /\ Cat(a, u)[1] = a[1] /\ Cat(a, u)[2] = a[2]
<1>. SUFFICES ASSUME NEW a \in Bytes, NEW u \in Bytes, Headed(a)
              PROVE  /\ HeaderOf(Cat(a, u)) = HeaderOf(a) /\ Headed(Cat(a, u))
                     /\ Cat(a, u)[1] = a[1] /\ Cat(a, u)[2] = a[2]
  OBVIOUS
<1>1. /\ Len(a) \in Nat /\ Len(u) \in Nat /\ Len(Cat(a, u)) = Len(a) + Len(u) /\ Len(a) >= 2
  BY CatBytes, EmptyBytes DEF Headed
<1>2. Cat(a, u)[1] = a[1] /\ Cat(a, u)[2] = a[2]
  BY <1>1 DEF Cat, Bytes
<1>. DEFINE w == Cat(a, u)
<1>3. /\ a[2] = MEDIUM_STREAM => SubSeq(w, 3, 4) = SubSeq(a, 3, 4)
      /\ a[2] = BIG_STREAM => SubSeq(w, 3, 10) = SubSeq(a, 3, 10)
  <2>1. a[2] = MEDIUM_STREAM => Len(a) >= 4
    BY DEF Headed
  <2>2. a[2] = BIG_STREAM => Len(a) >= 10
    BY DEF Headed
  <2>. QED BY <2>1, <2>2, FirstPart
<1>. HIDE DEF w
<1>4. w[1] = a[1] /\ w[2] = a[2] /\ Len(w) = Len(a) + Len(u)
  BY <1>1, <1>2 DEF w
<1>5. HeaderOf(w) = HeaderOf(a)
  BY <1>3, <1>4 DEF HeaderOf
<1>6. Headed(w)
  BY <1>1, <1>4 DEF Headed
<1>. QED BY <1>2, <1>5, <1>6 DEF w

\* Two beginnings of one string that reach as far have the same header.
LEMMA SameHeader ==
    \A a, b, u, v \in Bytes : Cat(a, u) = Cat(b, v) /\ Headed(a) /\ Headed(b) =>
        HeaderOf(a) = HeaderOf(b) /\ a[1] = b[1]
<1>. SUFFICES ASSUME NEW a \in Bytes, NEW b \in Bytes, NEW u \in Bytes, NEW v \in Bytes,
                     Cat(a, u) = Cat(b, v), Headed(a), Headed(b)
              PROVE  HeaderOf(a) = HeaderOf(b) /\ a[1] = b[1]
  OBVIOUS
<1>1. /\ HeaderOf(Cat(a, u)) = HeaderOf(a) /\ Cat(a, u)[1] = a[1]
      /\ HeaderOf(Cat(b, v)) = HeaderOf(b) /\ Cat(b, v)[1] = b[1]
  BY HeaderFirst
<1>. QED BY <1>1, Zenon

\* A length that eight bytes can hold is less than what they can count to.
LEMMA Counted ==
    ASSUME NEW n, Countable(n)
    PROVE  n \in Nat /\ n % Radix8 = n
<1>. DEFINE q == n \div Radix4
            r == n % Radix4
<1>1. n \in Nat /\ Radix4 \in Nat \ {0} /\ q < Radix4
  BY Radixes DEF Countable
<1>2. q \in Nat /\ r \in 0..(Radix4 - 1) /\ n = r + Radix4 * q
  BY <1>1, DivMod
<1>. HIDE DEF q, r
<1>3. Radix4 * q \in Nat /\ Radix4 * (Radix4 - 1) \in Nat /\ Radix4 * q <= Radix4 * (Radix4 - 1)
  BY <1>1, <1>2
<1>4. Radix4 * (Radix4 - 1) = Radix8 - Radix4 /\ Radix8 \in Nat \ {0}
  BY <1>1, Radixes DEF Radix8
<1>5. n \in 0..(Radix8 - 1)
  BY <1>1, <1>2, <1>3, <1>4
<1>. QED BY <1>4, <1>5, Small

\* set_send_header: opcode and length as they are read again.
LEMMA SendHeader ==
    ASSUME NEW op \in Byte, NEW n \in Nat
    PROVE  LET s == set_send_header(op, n)
           IN  /\ s \in Bytes /\ Headed(s) /\ s[1] = op /\ Len(s) = HeaderOf(s).mask_offset
               /\ Countable(n) => HeaderOf(s).payload_size = n
<1>. DEFINE s == set_send_header(op, n)
            Good == /\ s \in Bytes /\ Headed(s) /\ s[1] = op /\ Len(s) = HeaderOf(s).mask_offset
                    /\ Countable(n) => HeaderOf(s).payload_size = n
<1>. SUFFICES Good
  OBVIOUS
<1>0. /\ SMALL_STREAM \in Nat /\ MediumMax \in Nat /\ SMALL_STREAM <= MediumMax
      /\ SMALL_STREAM + 2 < Radix /\ MediumMax < Radix2 /\ Radix \in Nat /\ Radix2 \in Nat
  BY WebSocketAssumption, Radixes
<1>1. /\ MEDIUM_STREAM \in Byte /\ BIG_STREAM \in Byte /\ MEDIUM_STREAM # BIG_STREAM
      /\ MEDIUM_STREAM > SMALL_STREAM /\ BIG_STREAM > SMALL_STREAM
      /\ MEDIUM_STREAM \in Nat /\ BIG_STREAM \in Nat
  BY <1>0 DEF MEDIUM_STREAM, BIG_STREAM, Byte
<1>2. CASE n <= SMALL_STREAM
  <2>1. s = <<op, n>>
    BY <1>2, <1>0 DEF set_send_header
  <2>2. n \in Byte
    BY <1>0, <1>2 DEF Byte
  <2>3. s \in Bytes /\ Len(s) = 2 /\ s[1] = op /\ s[2] = n
    <3>. HIDE DEF s
    <3>. QED BY <2>1, <2>2 DEF Bytes
  <2>. HIDE DEF s
  <2>4. n # MEDIUM_STREAM /\ n # BIG_STREAM
    BY <1>0, <1>1, <1>2
  <2>5. HeaderOf(s) = [header_size |-> 6, mask_offset |-> 2, payload_size |-> n]
    BY <2>3, <2>4 DEF HeaderOf
  <2>6. Headed(s)
    BY <2>3, <2>4 DEF Headed
  <2>. QED BY <2>3, <2>5, <2>6
<1>3. ASSUME NEW k \in {MEDIUM_STREAM, BIG_STREAM}, NEW b \in Bytes, s = <<op, k>> \o b,
             k = MEDIUM_STREAM => Len(b) = 2 /\ (Countable(n) => Extract2(b) = n),
             k = BIG_STREAM => Len(b) = 8 /\ (Countable(n) => Extract8(b) = n)
      PROVE  Good
  <2>. DEFINE a == <<op, k>>
  <2>1. a \in Bytes /\ Len(a) = 2 /\ a[1] = op /\ a[2] = k
    BY <1>1, <1>3 DEF Bytes
  <2>2. s = Cat(a, b)
    BY <1>3 DEF Cat
  <2>. HIDE DEF a, s
  <2>3. /\ Len(b) \in Nat /\ s \in Bytes /\ Len(s) = 2 + Len(b)
    BY <2>1, <2>2, CatBytes, EmptyBytes
  <2>4. SubSeq(s, 3, 2 + Len(b)) = b
    <3>1. SubSeq(Cat(a, b), Len(a) + 1, Len(Cat(a, b))) = b
      BY <2>1, CutAfter
    <3>. QED BY <2>1, <2>2, <2>3, <3>1
  <2>5. s[1] = op /\ s[2] = k
    <3>1. \A i \in 1..Len(a) : (a \o b)[i] = a[i]
      BY <2>1, Joined DEF Bytes
    <3>2. 1 \in 1..Len(a) /\ 2 \in 1..Len(a)
      BY <2>1
    <3>. QED BY <2>1, <2>2, <3>1, <3>2, Zenon DEF Cat
  <2>6. CASE k = MEDIUM_STREAM
    <3>1. Len(b) = 2 /\ Len(s) = 4 /\ SubSeq(s, 3, 4) = b
      <4>1. Len(b) = 2
        BY <1>3, <2>6
      <4>. QED BY <2>3, <2>4, <4>1
    <3>2. HeaderOf(s) = [header_size |-> 8, mask_offset |-> 4, payload_size |-> Extract2(b)]
      BY <2>5, <2>6, <3>1 DEF HeaderOf
    <3>3. Headed(s)
      BY <1>1, <2>5, <2>6, <3>1 DEF Headed
    <3>. QED BY <1>3, <2>3, <2>5, <2>6, <3>1, <3>2, <3>3
  <2>7. CASE k = BIG_STREAM
    <3>1. Len(b) = 8 /\ Len(s) = 10 /\ SubSeq(s, 3, 10) = b
      <4>1. Len(b) = 8
        BY <1>3, <2>7
      <4>. QED BY <2>3, <2>4, <4>1
    <3>2. HeaderOf(s) = [header_size |-> 14, mask_offset |-> 10, payload_size |-> Extract8(b)]
      BY <1>1, <2>5, <2>7, <3>1 DEF HeaderOf
    <3>3. Headed(s)
      BY <1>1, <2>5, <2>7, <3>1 DEF Headed
    <3>. QED BY <1>3, <2>3, <2>5, <2>7, <3>1, <3>2, <3>3
  <2>. QED BY <1>3, <2>6, <2>7
<1>4. CASE n > SMALL_STREAM /\ n <= MediumMax
  <2>1. s = <<op, MEDIUM_STREAM>> \o Append2(n)
    BY <1>4, <1>0 DEF set_send_header
  <2>2. Append2(n) \in Bytes /\ Len(Append2(n)) = 2 /\ Extract2(Append2(n)) = n % Radix2
    BY Bytes2 DEF Bytes
  <2>3. n % Radix2 = n
    BY <1>0, <1>4, Radixes, Small
  <2>4. Extract2(Append2(n)) = n
    BY <2>2, <2>3
  <2>5. Append2(n) \in Bytes /\ Len(Append2(n)) = 2
    BY <2>2
  <2>. HIDE DEF Good, s
  <2>. QED BY <1>1, <1>3, <2>1, <2>4, <2>5
<1>5. CASE n > MediumMax
  <2>1. s = <<op, BIG_STREAM>> \o Append8(n)
    BY <1>5, <1>0 DEF set_send_header
  <2>2. Append8(n) \in Bytes /\ Len(Append8(n)) = 8 /\ Extract8(Append8(n)) = n % Radix8
    BY Bytes8 DEF Bytes
  <2>3. Countable(n) => n % Radix8 = n
    BY Counted
  <2>4. Countable(n) => Extract8(Append8(n)) = n
    BY <2>2, <2>3
  <2>5. Append8(n) \in Bytes /\ Len(Append8(n)) = 8
    BY <2>2
  <2>. HIDE DEF Good, s
  <2>. QED BY <1>1, <1>3, <2>1, <2>4, <2>5
<1>. HIDE DEF Good, s
<1>. QED BY <1>0, <1>2, <1>4, <1>5

\* What is masked and unmasked with the same bytes is what it was.
LEMMA MaskTwice ==
    ASSUME NEW p \in Bytes, NEW mask \in [1..4 -> Byte]
    PROVE  /\ Mask(p, mask) \in Bytes /\ Len(Mask(p, mask)) = Len(p)
           /\ Unmasked(Mask(p, mask), mask) = p
<1>. DEFINE m == Mask(p, mask)
<1>1. /\ Len(p) \in Nat /\ DOMAIN p = 1..Len(p) /\ \A i \in 1..Len(p) : p[i] \in Byte
  BY DEF Bytes
<1>2. \A i \in 1..Len(p) : ((i - 1) % 4) + 1 \in 1..4
  BY <1>1
<1>3. \A i \in 1..Len(p) : mask[((i - 1) % 4) + 1] \in Byte
  BY <1>2
<1>4. m = [i \in 1..Len(p) |-> Xored(p[i], mask[((i - 1) % 4) + 1])]
  BY <1>1 DEF Mask
<1>5. \A i \in 1..Len(p) : /\ Xored(p[i], mask[((i - 1) % 4) + 1]) \in Byte
                           /\ Xored(Xored(p[i], mask[((i - 1) % 4) + 1]), mask[((i - 1) % 4) + 1]) = p[i]
  BY <1>1, <1>3, WebSocketAssumption
<1>. HIDE DEF m
<1>6. m \in [1..Len(p) -> Byte]
  BY <1>4, <1>5
<1>7. m \in Bytes /\ Len(m) = Len(p) /\ DOMAIN m = 1..Len(p)
  BY <1>1, <1>6 DEF Bytes
<1>8. Unmasked(m, mask) = [i \in 1..Len(p) |-> Xored(m[i], mask[((i - 1) % 4) + 1])]
  BY <1>7 DEF Unmasked
<1>9. \A i \in 1..Len(p) : Xored(m[i], mask[((i - 1) % 4) + 1]) = p[i]
  BY <1>4, <1>5
<1>10. Unmasked(m, mask) = [i \in 1..Len(p) |-> p[i]]
  BY <1>8, <1>9
<1>11. [i \in 1..Len(p) |-> p[i]] = p
  BY <1>1 DEF Bytes
<1>. QED BY <1>7, <1>10, <1>11 DEF m

\* A frame is read as it was written.
LEMMA FrameReadsBack ==
    ASSUME NEW op \in Byte, NEW p \in Bytes, NEW mask \in [1..4 -> Byte], Countable(Len(p))
    PROVE  LET f == Frame(op, p, mask)
               h == HeaderOf(f)
           IN  /\ f \in Bytes /\ Headed(f) /\ f[1] = op
               /\ h.payload_size = Len(p) /\ Len(f) = h.header_size + h.payload_size
               /\ Decoded(f) = p
<1>. DEFINE s == set_send_header(op, Len(p))
            m == Mask(p, mask)
            f == Frame(op, p, mask)
            h == HeaderOf(f)
<1>1. Len(p) \in Nat
  BY EmptyBytes
<1>2. s \in Bytes /\ Headed(s) /\ s[1] = op /\ Len(s) = HeaderOf(s).mask_offset /\ HeaderOf(s).payload_size = Len(p)
  BY <1>1, SendHeader
<1>3. mask \in Bytes /\ Len(mask) = 4
  <2>1. mask \in Seq(Byte)
    BY SeqDef
  <2>2. DOMAIN mask = 1..4
    OBVIOUS
  <2>. QED BY <2>1, <2>2, LenProperties DEF Bytes
<1>4. m \in Bytes /\ Len(m) = Len(p) /\ Unmasked(m, mask) = p
  BY MaskTwice
<1>5. f = Cat(Cat(s, mask), m)
  BY DEF Frame, Cat
<1>. HIDE DEF s, m, f
<1>6. /\ Cat(s, mask) \in Bytes /\ Cat(mask, m) \in Bytes /\ f \in Bytes /\ f = Cat(s, Cat(mask, m))
      /\ Len(Cat(s, mask)) = Len(s) + 4 /\ Len(f) = Len(s) + 4 + Len(p)
  <2>1. /\ Cat(s, mask) \in Bytes /\ Cat(mask, m) \in Bytes /\ f \in Bytes
        /\ Len(Cat(s, mask)) = Len(s) + Len(mask) /\ Len(f) = Len(Cat(s, mask)) + Len(m)
    BY <1>2, <1>3, <1>4, <1>5, CatBytes
  <2>2. f = Cat(s, Cat(mask, m))
    BY <1>2, <1>3, <1>4, <1>5, CatAssociative
  <2>. QED BY <1>3, <1>4, <2>1, <2>2
<1>7. h = HeaderOf(s) /\ Headed(f) /\ f[1] = op
  BY <1>2, <1>6, HeaderFirst
<1>8. /\ HeaderOf(s).header_size = Len(s) + 4 /\ HeaderOf(s).mask_offset = Len(s) /\ Len(s) \in Nat
  BY <1>2, HeaderType, EmptyBytes
<1>9. SubSeq(f, Len(s) + 4 + 1, Len(f)) = m
  <2>1. SubSeq(Cat(Cat(s, mask), m), Len(Cat(s, mask)) + 1, Len(Cat(Cat(s, mask), m))) = m
    BY <1>4, <1>6, CutAfter
  <2>. QED BY <2>1, <1>5, <1>6
<1>10. SubSeq(f, Len(s) + 1, Len(s) + 4) = mask
  <2>1. SubSeq(s \o (mask \o m), Len(s) + 1, Len(s) + Len(mask)) = mask
    BY <1>2, <1>3, <1>4, Within DEF Bytes
  <2>. QED BY <2>1, <1>3, <1>6 DEF Cat
<1>11. Decoded(f) = p
  BY <1>4, <1>7, <1>8, <1>9, <1>10 DEF Decoded
<1>12. h.payload_size = Len(p) /\ Len(f) = h.header_size + h.payload_size
  <2>. HIDE DEF h
  <2>. QED BY <1>1, <1>2, <1>6, <1>7, <1>8
<1>. QED BY <1>6, <1>7, <1>11, <1>12 DEF f

-----------------------------------------------------------------------------
(* A command, as it is sent and as its arguments are read. *)

\* An argument that begins where the last one ended is read as it was sent.
LEMMA ArgReadsBack ==
    ASSUME NEW t \in Types, NEW x, Holds(t, x), NEW p \in Bytes, NEW q \in Bytes, NEW args
    PROVE  extract_arg(Cat(p, Cat(Written(t, x), q)), [at |-> Len(p), args |-> args], t)
             = [at |-> Len(p) + Len(Written(t, x)), args |-> Append(args, x)]
<1>. DEFINE w == Written(t, x)
            b == Cat(p, Cat(w, q))
            s == [at |-> Len(p), args |-> args]
<1>0. /\ Len(p) \in Nat /\ w \in Bytes /\ Len(w) \in Nat
      /\ t.kind \in {"scalar", "array", "vector"} /\ SizeOf["uint32_t"] = 4
  BY EmptyBytes, WrittenReadsBack, FixedSizes DEF SizeOf
<1>1. SubSeq(b, Len(p) + 1, Len(p) + Len(w)) = w
  <2>1. p \in Seq(Byte) /\ w \in Seq(Byte) /\ q \in Seq(Byte)
    BY <1>0, Zenon DEF Bytes
  <2>2. b = p \o (w \o q)
    BY Zenon DEF Cat
  <2>. HIDE DEF b, w
  <2>. QED BY <2>1, <2>2, Within
<1>2. CASE t.kind # "vector"
  <2>1. FixedSize(t) = Len(w)
    BY <1>0, <1>2, WrittenReadsBack
  <2>2. (IF t.kind = "scalar" THEN extract(t.T, w) ELSE elements(t.T, w)) = x
    BY <1>0, <1>2, WrittenReadsBack
  <2>. HIDE DEF w, b
  <2>3. extract_arg(b, s, t) =
          [ at |-> Len(p) + 0 + Len(w),
            args |-> Append(args, IF t.kind = "scalar"
                                  THEN extract(t.T, SubSeq(b, Len(p) + 0 + 1, Len(p) + 0 + Len(w)))
                                  ELSE elements(t.T, SubSeq(b, Len(p) + 0 + 1, Len(p) + 0 + Len(w)))) ]
    BY <1>2, <2>1 DEF extract_arg
  <2>4. Len(p) + 0 = Len(p)
    BY <1>0
  <2>5. extract_arg(b, s, t) = [at |-> Len(p) + Len(w), args |-> Append(args, x)]
    BY <1>1, <2>2, <2>3, <2>4
  <2>. QED BY <2>5 DEF w, b
<1>3. CASE t.kind = "vector"
  <2>. DEFINE length == append("uint32_t", Len(x) * SizeOf[t.T])
              payload == dump_array_to_buffer(t, x)
              pl == Cat(p, length)
  <2>1. /\ w = Cat(length, payload) /\ length \in Bytes /\ payload \in Bytes /\ Len(length) = 4
        /\ extract("uint32_t", length) = Len(payload) /\ elements(t.T, payload) = x
    BY <1>3, WrittenReadsBack
  <2>. HIDE DEF w, b, length, payload
  <2>2. /\ Len(payload) \in Nat /\ Len(w) = 4 + Len(payload)
        /\ pl \in Bytes /\ Len(pl) = Len(p) + 4 /\ Cat(payload, q) \in Bytes
    <3>1. Len(payload) \in Nat /\ Cat(payload, q) \in Bytes
      BY <2>1, CatBytes, EmptyBytes
    <3>2. Len(w) = Len(length) + Len(payload)
      BY <2>1, CatBytes
    <3>3. Cat(p, length) \in Bytes /\ Len(Cat(p, length)) = Len(p) + Len(length)
      BY <2>1, CatBytes
    <3>. QED BY <2>1, <3>1, <3>2, <3>3
  <2>3. b = Cat(p, Cat(length, Cat(payload, q))) /\ b = Cat(pl, Cat(payload, q))
    <3>1. b = Cat(p, Cat(w, q))
      BY DEF b
    <3>2. Cat(w, q) = Cat(length, Cat(payload, q))
      BY <2>1, CatAssociative
    <3>3. Cat(p, Cat(length, Cat(payload, q))) = Cat(pl, Cat(payload, q))
      BY <2>1, <2>2, CatAssociative
    <3>. QED BY <3>1, <3>2, <3>3, Zenon
  <2>4. SubSeq(b, Len(p) + 1, Len(p) + 4) = length
    <3>1. p \in Seq(Byte) /\ length \in Seq(Byte) /\ Cat(payload, q) \in Seq(Byte)
      BY <2>1, <2>2, Zenon DEF Bytes
    <3>2. b = p \o (length \o Cat(payload, q))
      BY <2>3, Zenon DEF Cat
    <3>3. SubSeq(b, Len(p) + 1, Len(p) + Len(length)) = length
      BY <3>1, <3>2, Within
    <3>. QED BY <2>1, <3>3
  <2>. HIDE DEF pl
  <2>5. SubSeq(b, Len(p) + 4 + 1, Len(p) + 4 + Len(payload)) = payload
    <3>1. pl \in Seq(Byte) /\ payload \in Seq(Byte) /\ q \in Seq(Byte)
      BY <2>1, <2>2, Zenon DEF Bytes
    <3>2. b = pl \o (payload \o q)
      BY <2>3, Zenon DEF Cat
    <3>3. SubSeq(b, Len(pl) + 1, Len(pl) + Len(payload)) = payload
      BY <3>1, <3>2, Within
    <3>. QED BY <2>2, <3>3
  <2>6. extract_arg(b, s, t) =
          [ at |-> Len(p) + 4 + Len(payload),
            args |-> Append(args, elements(t.T, SubSeq(b, Len(p) + 4 + 1, Len(p) + 4 + Len(payload)))) ]
    <3>1. t.kind # "scalar"
      BY <1>3
    <3>2. extract("uint32_t", SubSeq(b, Len(p) + 1, Len(p) + 4)) = Len(payload)
      BY <2>1, <2>4
    <3>. QED BY <1>0, <1>3, <3>1, <3>2 DEF extract_arg
  <2>7. Len(p) + 4 + Len(payload) = Len(p) + Len(w)
    BY <1>0, <2>2
  <2>8. extract_arg(b, s, t) = [at |-> Len(p) + Len(w), args |-> Append(args, x)]
    BY <2>1, <2>5, <2>6, <2>7
  <2>. QED BY <2>8 DEF w, b
<1>. QED BY <1>2, <1>3

\* f takes one argument after the other, and gives what extract_args does.
ArgByArg(types, b, f) ==
    /\ extract_args(types, b) = f[1..Len(types)].args
    /\ f[1..0] = [at |-> 0, args |-> <<>>]
    /\ \A k \in 1..Len(types) : f[1..k] = extract_arg(b, f[1..(k - 1)], types[k])

\* There is such a function: the one on sets of positions, of which it takes out
\* the largest first, that the fold picks.
LEMMA ArgSteps ==
    ASSUME NEW types \in Seq(Types), NEW b
    PROVE  \E f : ArgByArg(types, b, f)
<1>. DEFINE n == Len(types)
            base == [at |-> 0, args |-> <<>>]
            Step(h) == [t \in SUBSET (1..n) |->
                          IF t = {} THEN base
                          ELSE extract_arg(b, h[t \ {Max(t)}], types[Max(t)])]
            f == CHOOSE h : h = Step(h)
<1>1. n \in Nat /\ DOMAIN types = 1..n
  OBVIOUS
<1>2. extract_args(types, b) = f[1..n].args
  BY <1>1, Zenon DEF extract_args, FoldLeft, MapThenFoldSet
<1>. HIDE DEF n, base
<1>3. f = Step(f)
  <2>. DEFINE Good(h, m) == h = [t \in SUBSET (1..m) |->
                                   IF t = {} THEN base
                                   ELSE extract_arg(b, h[t \ {Max(t)}], types[Max(t)])]
              N == {m \in 0..n : \E h : Good(h, m)}
  <2>1. 0 \in N
    <3>1. \A t \in SUBSET (1..0) : t = {}
      OBVIOUS
    <3>2. Good([t \in SUBSET (1..0) |-> base], 0)
      BY <3>1
    <3>. HIDE DEF Good
    <3>. QED BY <1>1, <3>2
  <2>2. \A m \in 1..n : m - 1 \in N => m \in N
    <3>. SUFFICES ASSUME NEW m \in 1..n, NEW h, Good(h, m - 1) PROVE \E g : Good(g, m)
      <4>. HIDE DEF Good
      <4>. QED BY <1>1
    <3>. DEFINE S == SUBSET (1..m)
                g == [t \in S |-> IF m \in t THEN extract_arg(b, h[t \ {m}], types[m]) ELSE h[t]]
    <3>0. m \in Nat
      BY <1>1
    <3>1. \A t \in S : /\ m \in t => t \ {m} \in SUBSET (1..(m - 1)) /\ Max(t) = m /\ t # {}
                       /\ m \notin t => t \in SUBSET (1..(m - 1))
      <4>1. \A t \in S : m \in t => t \ {m} \in SUBSET (1..(m - 1)) /\ t # {}
        BY <3>0
      <4>2. \A t \in S : m \notin t => t \in SUBSET (1..(m - 1))
        BY <3>0
      <4>. QED BY <3>0, <4>1, <4>2, Largest
    <3>2. ASSUME NEW t \in S
          PROVE  g[t] = IF t = {} THEN base ELSE extract_arg(b, g[t \ {Max(t)}], types[Max(t)])
      <4>1. CASE m \in t
        <5>1. Max(t) = m /\ t # {} /\ t \ {m} \in S /\ g[t \ {m}] = h[t \ {m}]
          BY <3>1, <4>1
        <5>2. g[t] = extract_arg(b, h[t \ {m}], types[m])
          BY <4>1
        <5>. HIDE DEF g
        <5>. QED BY <5>1, <5>2
      <4>2. CASE m \notin t
        <5>. DEFINE u == t \ {Max(t)}
        <5>1. t \in SUBSET (1..(m - 1)) /\ u \in SUBSET (1..(m - 1)) /\ u \in S /\ m \notin u
          BY <3>1, <4>2
        <5>2. g[t] = h[t] /\ g[u] = h[u]
          BY <4>2, <5>1
        <5>3. h[t] = IF t = {} THEN base ELSE extract_arg(b, h[u], types[Max(t)])
          BY <5>1
        <5>. HIDE DEF g, u
        <5>4. g[t] = IF t = {} THEN base ELSE extract_arg(b, g[u], types[Max(t)])
          BY <5>2, <5>3, Zenon
        <5>. QED BY <5>4 DEF u
      <4>. QED BY <4>1, <4>2
    <3>3. g = [t \in S |-> g[t]]
      OBVIOUS
    <3>. HIDE DEF g
    <3>4. Good(g, m)
      BY <3>2, <3>3
    <3>. QED BY <3>4
  <2>3. n \in N
    <3>. HIDE DEF N
    <3>. QED BY <1>1, <2>1, <2>2, UpTo
  <2>4. \E h : h = Step(h)
    BY <2>3
  <2>. HIDE DEF Step
  <2>. QED BY <2>4
<1>. HIDE DEF f
<1>4. f[1..0] = base
  <2>1. 1..0 = {} /\ 1..0 \in SUBSET (1..n)
    OBVIOUS
  <2>. QED BY <1>3, <2>1
<1>5. \A k \in 1..n : f[1..k] = extract_arg(b, f[1..(k - 1)], types[k])
  <2>. SUFFICES ASSUME NEW k \in 1..n PROVE f[1..k] = extract_arg(b, f[1..(k - 1)], types[k])
    OBVIOUS
  <2>1. /\ Max(1..k) = k /\ (1..k) \ {k} = 1..(k - 1)
        /\ 1..k \in SUBSET (1..n) /\ 1..k # {}
    BY <1>1, FirstNumbers, Zenon
  <2>2. f[1..k] = extract_arg(b, f[(1..k) \ {Max(1..k)}], types[Max(1..k)])
    BY <1>3, <2>1
  <2>. QED BY <2>1, <2>2
<1>6. ArgByArg(types, b, f)
  BY <1>2, <1>4, <1>5, Zenon DEF ArgByArg, n, base
<1>. QED BY <1>6

\* The arguments are read as they were sent.
LEMMA ArgsReadBack ==
    ASSUME NEW types \in Seq(Types), NEW v, Typed(types, v)
    PROVE  extract_args(types, BytesOf(types, v)) = v
<1>. DEFINE n == Len(types)
            w == Blocked(types, v)
            b == BytesOf(types, v)
            pre(k) == FlattenSeq(SubSeq(w, 1, k))
            V == {v[i] : i \in 1..n}
<1>0. Fit(types, v)
  BY DEF Typed, Fit
<1>1. /\ n \in Nat /\ DOMAIN types = 1..n /\ \A i \in 1..n : types[i] \in Types /\ Holds(types[i], v[i])
  BY <1>0 DEF Fit
<1>2. v \in Seq(V) /\ Len(v) = n
  <2>1. v = [i \in 1..n |-> v[i]]
    BY <1>1 DEF Typed
  <2>2. \A i \in 1..n : v[i] \in V
    OBVIOUS
  <2>. HIDE DEF V, n
  <2>. QED BY <1>1, <2>1, <2>2
<1>3. /\ w \in Seq(Bytes) /\ Len(w) = n /\ b = FlattenSeq(w) /\ b \in Bytes
      /\ \A i \in 1..n : w[i] = Written(types[i], v[i])
  BY <1>0, BlockedType, Zenon DEF BytesOf
<1>. HIDE DEF w, n, b, V
<1>4. ASSUME NEW k \in 1..n
      PROVE  /\ pre(k - 1) \in Bytes /\ w[k] \in Bytes
             /\ \E q \in Bytes : b = Cat(pre(k - 1), Cat(w[k], q))
             /\ Len(pre(k)) = Len(pre(k - 1)) + Len(w[k])
  <2>1. w \in Seq(Seq(Byte)) /\ k \in 1..Len(w)
    BY <1>3, Zenon DEF Bytes
  <2>. DEFINE q == FlattenSeq(SubSeq(w, k + 1, Len(w)))
  <2>2. /\ pre(k - 1) \in Bytes /\ w[k] \in Bytes /\ q \in Bytes
        /\ FlattenSeq(w) = Cat(pre(k - 1), Cat(w[k], q))
    BY <2>1, FlattenSplit, Zenon DEF Bytes
  <2>3. /\ SubSeq(w, 1, k - 1) \in Seq(Bytes)
        /\ SubSeq(w, 1, k) = Append(SubSeq(w, 1, k - 1), w[k])
    BY <1>3, UpToOne
  <2>4. pre(k) = Cat(pre(k - 1), w[k])
    <3>1. Blocks(Byte, SubSeq(w, 1, k - 1)) /\ w[k] \in Seq(Byte)
      BY <2>2, <2>3, BlocksOfBytes, Zenon DEF Bytes
    <3>. QED BY <2>3, <3>1, FlattenAppend, Zenon
  <2>. HIDE DEF pre, q
  <2>. QED BY <1>3, <2>2, <2>4, CatBytes
<1>5. PICK f : ArgByArg(types, b, f)
  BY ArgSteps
<1>6. /\ extract_args(types, b) = f[1..n].args
      /\ f[1..0] = [at |-> 0, args |-> <<>>]
      /\ \A k \in 1..n : f[1..k] = extract_arg(b, f[1..(k - 1)], types[k])
  BY <1>5, Zenon DEF ArgByArg, n
<1>. DEFINE N == {k \in 0..n : f[1..k] = [at |-> Len(pre(k)), args |-> SubSeq(v, 1, k)]}
<1>7. 0 \in N
  <2>1. pre(0) = <<>> /\ SubSeq(v, 1, 0) = <<>>
    <3>1. SubSeq(w, 1, 0) = <<>>
      BY <1>3
    <3>2. SubSeq(v, 1, 0) = <<>>
      BY <1>2
    <3>. QED BY <3>1, <3>2, FlattenEmpty, Zenon
  <2>2. Len(<<>>) = 0
    OBVIOUS
  <2>. HIDE DEF pre
  <2>. QED BY <1>1, <1>6, <2>1, <2>2
<1>8. \A k \in 1..n : k - 1 \in N => k \in N
  <2>. HIDE DEF pre
  <2>. SUFFICES ASSUME NEW k \in 1..n, k - 1 \in N
                PROVE  f[1..k] = [at |-> Len(pre(k)), args |-> SubSeq(v, 1, k)]
    <3>1. \A k \in 1..n : k \in 0..n
      BY <1>1
    <3>. QED BY <3>1, Zenon
  <2>0. f[1..(k - 1)] = [at |-> Len(pre(k - 1)), args |-> SubSeq(v, 1, k - 1)]
    BY Zenon
  <2>1. PICK q \in Bytes : b = Cat(pre(k - 1), Cat(w[k], q))
    BY <1>4
  <2>2. w[k] = Written(types[k], v[k]) /\ pre(k - 1) \in Bytes
    BY <1>3, <1>4
  <2>3. extract_arg(b, [at |-> Len(pre(k - 1)), args |-> SubSeq(v, 1, k - 1)], types[k])
          = [at |-> Len(pre(k - 1)) + Len(w[k]), args |-> Append(SubSeq(v, 1, k - 1), v[k])]
    <3>1. types[k] \in Types /\ Holds(types[k], v[k])
      BY <1>1
    <3>. DEFINE t == types[k]
                x == v[k]
                p == pre(k - 1)
                args == SubSeq(v, 1, k - 1)
    <3>2. t \in Types /\ Holds(t, x) /\ p \in Bytes
      BY <2>2, <3>1
    <3>. HIDE DEF t, x, p, args
    <3>3. extract_arg(Cat(p, Cat(Written(t, x), q)), [at |-> Len(p), args |-> args], t)
            = [at |-> Len(p) + Len(Written(t, x)), args |-> Append(args, x)]
      BY <2>1, <3>2, ArgReadsBack, ZenonT(60)
    <3>. QED BY <2>1, <2>2, <3>3, Zenon DEF t, x, p, args
  <2>4. Append(SubSeq(v, 1, k - 1), v[k]) = SubSeq(v, 1, k)
    BY <1>2, UpToOne
  <2>. QED BY <1>4, <1>6, <2>0, <2>3, <2>4
<1>9. n \in N
  <2>. HIDE DEF N
  <2>1. \A k \in 0..n : k \in N
    BY <1>1, <1>7, <1>8, UpTo, Zenon
  <2>. QED BY <1>1, <2>1
<1>10. SubSeq(v, 1, n) = v
  BY <1>2, SubSeqFull
<1>. QED BY <1>6, <1>9, <1>10 DEF b

\* A command's ids and its arguments are read as they were sent, from a payload
\* that is not shorter than a command's header.
LEMMA RequestReadsBack ==
    ASSUME NEW c \in Commands
    PROVE  LET r == Request(c)
           IN  /\ r \in Bytes /\ Countable(Len(r)) /\ Len(r) >= HeaderSize
               /\ [class |-> ClassOf(r), func |-> FuncOf(r),
                   args |-> extract_args(Args(FuncOf(r)), SubSeq(r, HeaderSize + 1, Len(r)))] = c
               /\ FuncOf(r) = c.func /\ Reply(c.func) \in Nat
<1>. DEFINE types == Args(c.func)
            a == append("uint32_t", 0)
            p == append("uint16_t", c.class)
            q == append("uint16_t", c.func)
            h == command_header(c.class, c.func)
            s == command_serializer(types, c.args)
            r == Request(c)
<1>1. /\ c = [class |-> c.class, func |-> c.func, args |-> c.args]
      /\ c.class \in 0..(Radix2 - 1) /\ c.func \in 0..(Radix2 - 1)
      /\ types \in Seq(Types) /\ Typed(types, c.args) /\ Countable(Len(r)) /\ Reply(c.func) \in Nat
  BY FramesAssumption
<1>2. s = BytesOf(types, c.args) /\ s \in Bytes
  <2>1. Fit(types, c.args)
    BY <1>1 DEF Typed, Fit
  <2>. QED BY <1>1, <2>1, Serialized, BlockedType
<1>3. h \in Bytes
  <2>1. p \in Bytes /\ q \in Bytes
    BY <1>1, Number16 DEF Bytes
  <2>2. a \in Bytes
    <3>1. "uint32_t" \in DOMAIN SizeOf /\ SizeOf["uint32_t"] = 4
      BY DEF SizeOf
    <3>2. ValuesOf("uint32_t") = 0..(Radix4 - 1)
      BY <3>1 DEF ValuesOf, Signed, Span
    <3>. QED BY <3>1, <3>2, Radixes, ScalarReadsBack DEF Bytes
  <2>3. h = Cat(Cat(a, p), q)
    BY Zenon DEF command_header, Cat
  <2>. HIDE DEF a, p, q, h
  <2>. QED BY <2>1, <2>2, <2>3, CatBytes
<1>4. r = Cat(h, s)
  BY Zenon DEF Request, build_command, Cat
<1>5. Len(h) = HeaderSize /\ ClassOf(r) = c.class /\ FuncOf(r) = c.func
  <2>1. s \in Seq(Byte)
    BY <1>2, Zenon DEF Bytes
  <2>2. /\ Len(h) = HeaderSize /\ ClassOf(h \o s) = c.class /\ FuncOf(h \o s) = c.func
    BY <1>1, <2>1, HeaderReadsBack, Zenon
  <2>. QED BY <1>4, <2>2, Zenon DEF Cat
<1>. HIDE DEF h, s, r, types
<1>6. r \in Bytes /\ Len(r) >= HeaderSize
  <2>1. Len(h) \in Nat /\ Len(s) \in Nat /\ r \in Bytes /\ Len(r) = Len(h) + Len(s)
    BY <1>2, <1>3, <1>4, CatBytes, EmptyBytes
  <2>. QED BY <1>5, <2>1
<1>7. SubSeq(r, HeaderSize + 1, Len(r)) = s
  <2>1. SubSeq(Cat(h, s), Len(h) + 1, Len(Cat(h, s))) = s
    BY <1>2, <1>3, CutAfter
  <2>. QED BY <1>4, <1>5, <2>1
<1>8. extract_args(types, s) = c.args
  BY <1>1, <1>2, ArgsReadBack
<1>9. extract_args(Args(FuncOf(r)), SubSeq(r, HeaderSize + 1, Len(r))) = c.args
  BY <1>5, <1>7, <1>8 DEF types
<1>. QED BY <1>1, <1>5, <1>6, <1>9 DEF r

-----------------------------------------------------------------------------
(* The frames that the browser sends. *)

\* A frame of a command, or an odd one, and what the history says of it.
IsFrame(c, f) ==
    \/ \E mask \in Masks : c \in Commands /\ f = Frame(BINARY_FRAME, Request(c), mask)
    \/ \E o \in Odd : c = NoCommand /\ f = Frame(o.opcode, [i \in 1..o.len |-> 0], <<0, 0, 0, 0>>)

\* What the session checks before it runs a frame.
Served(s) ==
    /\ s[1] \in {TEXT_FRAME, BINARY_FRAME}
    /\ HeaderOf(s).payload_size >= HeaderSize
    /\ HeaderOf(s).payload_size <= WEBSOCK_READ_STR_LEN - Margin

\* A frame of a command is read as the command; an odd one is not served.
LEMMA FrameParsed ==
    ASSUME NEW c, NEW f, IsFrame(c, f)
    PROVE  /\ f \in Bytes /\ Headed(f)
           /\ Len(f) = HeaderOf(f).header_size + HeaderOf(f).payload_size
           /\ Served(f) => c \in Commands /\ Decoded(f) = Request(c)
<1>1. CASE \E mask \in Masks : c \in Commands /\ f = Frame(BINARY_FRAME, Request(c), mask)
  <2>1. PICK mask \in Masks : c \in Commands /\ f = Frame(BINARY_FRAME, Request(c), mask)
    BY <1>1
  <2>2. mask \in [1..4 -> Byte]
    BY WebSocketAssumption
  <2>3. BINARY_FRAME \in Byte
    BY WebSocketAssumption, Radixes DEF BINARY_FRAME, Byte
  <2>4. Request(c) \in Bytes /\ Countable(Len(Request(c)))
    BY <2>1, RequestReadsBack
  <2>. QED BY <2>1, <2>2, <2>3, <2>4, FrameReadsBack
<1>2. CASE \E o \in Odd : c = NoCommand /\ f = Frame(o.opcode, [i \in 1..o.len |-> 0], <<0, 0, 0, 0>>)
  <2>1. PICK o \in Odd : c = NoCommand /\ f = Frame(o.opcode, [i \in 1..o.len |-> 0], <<0, 0, 0, 0>>)
    BY <1>2
  <2>. DEFINE p == [i \in 1..o.len |-> 0]
              mask == <<0, 0, 0, 0>>
  <2>2. /\ o.opcode \in Byte /\ Countable(o.len) /\ o.len \in Nat
        /\ \/ o.opcode \notin {TEXT_FRAME, BINARY_FRAME} \/ o.len < HeaderSize
           \/ o.len > WEBSOCK_READ_STR_LEN - Margin
    BY FramesAssumption, Counted
  <2>3. 0 \in Byte
    BY Radixes DEF Byte
  <2>4. p \in Bytes /\ Len(p) = o.len
    BY <2>2, <2>3 DEF Bytes
  <2>5. mask \in [1..4 -> Byte]
    BY <2>3
  <2>. HIDE DEF p, mask
  <2>6. /\ f \in Bytes /\ Headed(f) /\ f[1] = o.opcode
        /\ HeaderOf(f).payload_size = Len(p)
        /\ Len(f) = HeaderOf(f).header_size + HeaderOf(f).payload_size
    BY <2>1, <2>2, <2>4, <2>5, FrameReadsBack DEF p, mask
  <2>7. ~Served(f)
    <3>1. HeaderSize = 8 /\ WEBSOCK_READ_STR_LEN - Margin \in Int
      BY WebSocketAssumption DEF HeaderSize, SizeOf
    <3>. QED BY <2>2, <2>4, <2>6, <3>1 DEF Served
  <2>. QED BY <2>6, <2>7
<1>. QED BY <1>1, <1>2 DEF IsFrame

\* A string that begins a stream of frames, is as long as its header says and is
\* served, is the first of them.
LEMMA FirstFrame ==
    ASSUME NEW s \in Bytes, NEW u \in Bytes, NEW v \in Bytes, NEW c, NEW f, IsFrame(c, f),
           Cat(s, u) = Cat(f, v), Headed(s), Served(s),
           Len(s) = HeaderOf(s).header_size + HeaderOf(s).payload_size
    PROVE  s = f /\ u = v /\ c \in Commands /\ Decoded(s) = Request(c)
<1>1. /\ f \in Bytes /\ Headed(f)
      /\ Len(f) = HeaderOf(f).header_size + HeaderOf(f).payload_size
      /\ Served(f) => c \in Commands /\ Decoded(f) = Request(c)
  BY FrameParsed
<1>2. HeaderOf(s) = HeaderOf(f) /\ s[1] = f[1]
  BY <1>1, SameHeader
<1>3. s = f /\ u = v
  <2>1. Len(s) = Len(f)
    BY <1>1, <1>2
  <2>. QED BY <1>1, <2>1, CatCancel
<1>. QED BY <1>1, <1>3

-----------------------------------------------------------------------------
(* What is on its way to the session. *)

\* The bytes are the frames of the commands of s after the first n; the last of
\* them may be lost when the browser does not stay.
Stream(n, bytes, s, stays) ==
    \E F \in Seq(Bytes), rest \in Bytes :
        /\ Len(F) = Len(s) - n /\ \A i \in 1..Len(F) : IsFrame(s[n + i], F[i])
        /\ stays => rest = <<>>
        /\ Cat(bytes, rest) = FlattenSeq(F)

\* The browser sends one frame more.
LEMMA StreamGrows ==
    ASSUME NEW S, NEW s \in Seq(S), NEW n \in 0..Len(s), NEW bytes \in Bytes, NEW c \in S, NEW f,
           IsFrame(c, f), Stream(n, bytes, s, TRUE)
    PROVE  Stream(n, Cat(bytes, f), Append(s, c), TRUE)
<1>1. PICK F \in Seq(Bytes), rest \in Bytes :
            /\ Len(F) = Len(s) - n /\ \A i \in 1..Len(F) : IsFrame(s[n + i], F[i])
            /\ rest = <<>> /\ Cat(bytes, rest) = FlattenSeq(F)
  BY DEF Stream
<1>2. f \in Bytes /\ bytes = FlattenSeq(F)
  BY <1>1, FrameParsed, CatEmpty
<1>. DEFINE G == Append(F, f)
            t == Append(s, c)
<1>3. G \in Seq(Bytes) /\ FlattenSeq(G) = Cat(bytes, f)
  <2>1. Blocks(Byte, F) /\ f \in Seq(Byte)
    BY <1>1, <1>2, BlocksOfBytes, Zenon DEF Bytes
  <2>2. Blocks(Byte, G) /\ FlattenSeq(G) = Cat(FlattenSeq(F), f)
    BY <2>1, FlattenAppend
  <2>. HIDE DEF G
  <2>. QED BY <1>2, <2>2, BlocksOfBytes
<1>4. /\ Len(F) \in Nat /\ Len(s) \in Nat /\ Len(G) = Len(F) + 1 /\ Len(t) = Len(s) + 1
      /\ \A i \in 1..Len(F) : G[i] = F[i]
      /\ G[Len(F) + 1] = f
      /\ \A i \in 1..Len(s) : t[i] = s[i]
      /\ t[Len(s) + 1] = c
  BY <1>1, <1>2
<1>. HIDE DEF G, t
<1>5. Len(G) = Len(t) - n
  BY <1>1, <1>4
<1>6. \A i \in 1..Len(G) : IsFrame(t[n + i], G[i])
  <2>. SUFFICES ASSUME NEW i \in 1..Len(G) PROVE IsFrame(t[n + i], G[i])
    OBVIOUS
  <2>1. CASE i \in 1..Len(F)
    <3>1. n + i \in 1..Len(s)
      BY <1>1, <1>4, <2>1
    <3>2. t[n + i] = s[n + i] /\ G[i] = F[i]
      BY <1>4, <2>1, <3>1
    <3>. QED BY <1>1, <2>1, <3>2
  <2>2. CASE i = Len(F) + 1
    <3>1. n + i = Len(s) + 1
      BY <1>1, <1>4, <2>2
    <3>2. t[n + i] = c /\ G[i] = f
      BY <1>4, <2>2, <3>1
    <3>. QED BY <3>2
  <2>. QED BY <1>4, <2>1, <2>2
<1>7. Cat(bytes, f) \in Bytes /\ <<>> \in Bytes /\ Cat(Cat(bytes, f), <<>>) = FlattenSeq(G)
  BY <1>2, <1>3, CatBytes, CatEmpty, EmptyBytes
<1>8. Stream(n, Cat(bytes, f), t, TRUE)
  BY <1>3, <1>5, <1>6, <1>7 DEF Stream
<1>. QED BY <1>8 DEF t

\* It leaves, and what comes after the first bytes is lost.
LEMMA StreamCut ==
    ASSUME NEW s, NEW n, NEW stays, NEW a \in Bytes, NEW b \in Bytes, NEW d \in Bytes,
           Stream(n, Cat(a, Cat(b, d)), s, stays)
    PROVE  Stream(n, Cat(a, b), s, FALSE)
<1>1. PICK F \in Seq(Bytes), rest \in Bytes :
            /\ Len(F) = Len(s) - n /\ \A i \in 1..Len(F) : IsFrame(s[n + i], F[i])
            /\ Cat(Cat(a, Cat(b, d)), rest) = FlattenSeq(F)
  BY DEF Stream
<1>2. Cat(a, Cat(b, d)) = Cat(Cat(a, b), d)
  BY CatAssociative
<1>3. Cat(d, rest) \in Bytes /\ Cat(Cat(Cat(a, b), d), rest) = Cat(Cat(a, b), Cat(d, rest))
  BY CatBytes, CatAssociative
<1>4. Cat(Cat(a, b), Cat(d, rest)) = FlattenSeq(F)
  BY <1>1, <1>2, <1>3
<1>. QED BY <1>1, <1>3, <1>4 DEF Stream

\* The session has read a frame that it serves.
LEMMA StreamFirst ==
    ASSUME NEW S, NEW s \in Seq(S), NEW n \in 0..Len(s), NEW stays, NEW r \in Bytes, NEW u \in Bytes,
           Stream(n, Cat(r, u), s, stays), Headed(r), Served(r),
           Len(r) = HeaderOf(r).header_size + HeaderOf(r).payload_size
    PROVE  /\ n < Len(s) /\ s[n + 1] \in Commands /\ Decoded(r) = Request(s[n + 1])
           /\ Stream(n + 1, u, s, stays)
<1>1. PICK F \in Seq(Bytes), rest \in Bytes :
            /\ Len(F) = Len(s) - n /\ \A i \in 1..Len(F) : IsFrame(s[n + i], F[i])
            /\ stays => rest = <<>>
            /\ Cat(Cat(r, u), rest) = FlattenSeq(F)
  BY DEF Stream
<1>2. Cat(u, rest) \in Bytes /\ Cat(r, Cat(u, rest)) = FlattenSeq(F)
  BY <1>1, CatBytes, CatAssociative
<1>3. F # <<>>
  <2>1. Len(Cat(r, Cat(u, rest))) = Len(r) + Len(Cat(u, rest)) /\ Len(Cat(u, rest)) \in Nat
    BY <1>2, CatBytes, EmptyBytes
  <2>2. Len(r) >= 2 /\ Len(r) \in Nat
    BY EmptyBytes DEF Headed
  <2>3. Len(FlattenSeq(F)) # 0
    BY <1>2, <2>1, <2>2
  <2>. QED BY <2>3, FlattenEmpty, EmptyBytes
<1>. DEFINE G == Tail(F)
            v == FlattenSeq(Tail(F))
<1>4. v \in Bytes /\ F[1] \in Bytes /\ FlattenSeq(F) = Cat(F[1], v) /\ G \in Seq(Bytes)
  <2>1. Blocks(Byte, F)
    BY BlocksOfBytes
  <2>2. Blocks(Byte, Tail(F)) /\ F[1] \in Seq(Byte) /\ FlattenSeq(F) = Cat(F[1], FlattenSeq(Tail(F)))
    BY <1>3, <2>1, FlattenFirst
  <2>3. FlattenSeq(Tail(F)) \in Seq(Byte) /\ Tail(F) \in Seq(Bytes)
    BY <2>2, FlattenType, BlocksOfBytes
  <2>. QED BY <2>2, <2>3, Zenon DEF Bytes
<1>5. /\ Len(F) \in Nat \ {0} /\ Len(G) = Len(F) - 1 /\ Len(s) \in Nat
      /\ \A i \in 1..Len(G) : G[i] = F[i + 1]
  BY <1>3
<1>. HIDE DEF G, v
<1>6. IsFrame(s[n + 1], F[1])
  BY <1>1, <1>5
<1>7. r = F[1] /\ Cat(u, rest) = v /\ s[n + 1] \in Commands /\ Decoded(r) = Request(s[n + 1])
  <2>1. Cat(r, Cat(u, rest)) = Cat(F[1], v)
    BY <1>2, <1>4
  <2>. QED BY <1>2, <1>4, <1>6, <2>1, FirstFrame
<1>8. Len(G) = Len(s) - (n + 1) /\ n < Len(s)
  BY <1>1, <1>5
<1>9. \A i \in 1..Len(G) : IsFrame(s[n + 1 + i], G[i])
  <2>. SUFFICES ASSUME NEW i \in 1..Len(G) PROVE IsFrame(s[n + 1 + i], G[i])
    OBVIOUS
  <2>1. i + 1 \in 1..Len(F) /\ n + (i + 1) = n + 1 + i
    BY <1>5
  <2>. QED BY <1>1, <1>5, <2>1
<1>10. Cat(u, rest) = FlattenSeq(G)
  BY <1>7 DEF v, G
<1>11. Stream(n + 1, u, s, stays)
  BY <1>1, <1>4, <1>8, <1>9, <1>10 DEF Stream
<1>. QED BY <1>7, <1>8, <1>11

-----------------------------------------------------------------------------
(* The inductive invariant. *)

Histories == Seq(Commands \cup {NoCommand})

TypeInv ==
    /\ browser \in BOOLEAN /\ exit_signal \in BOOLEAN /\ connection_closed \in BOOLEAN
    /\ pc \in { "handshake", "refused", "header", "length", "payload", "execute", "send",
                "exit", "over" }
    /\ toServer \in Bytes /\ toClient \in Bytes /\ read_str \in Bytes /\ send_buf \in Bytes
    /\ expected \in Nat /\ replied \in Seq(Nat)
    /\ sent \in Histories /\ executed \in Histories

\* How far the session is with a frame, and that it went on only with one that
\* fits.
HeaderInv ==
    /\ pc = "header" => Len(read_str) + expected = 6
    /\ pc = "length" =>
          /\ Len(read_str) >= 6 /\ read_str[1] \in {TEXT_FRAME, BINARY_FRAME}
          /\ \/ read_str[2] = MEDIUM_STREAM /\ Len(read_str) + expected = 8
             \/ read_str[2] = BIG_STREAM /\ Len(read_str) + expected = 14
    /\ pc = "payload" =>
          /\ Headed(read_str) /\ header = HeaderOf(read_str)
          /\ read_str[1] \in {TEXT_FRAME, BINARY_FRAME}
          /\ header.payload_size <= WEBSOCK_READ_STR_LEN - Margin
          /\ Len(read_str) >= header.header_size
          /\ Len(read_str) + expected = header.header_size + header.payload_size

\* Frames are read, run or answered; how many have been taken, and what is there
\* of the others.
Serving == Reading \/ pc \in {"execute", "send"}
Taken == IF pc = "execute" THEN Len(executed) + 1 ELSE Len(executed)
Incoming == IF Reading THEN Cat(read_str, toServer) ELSE toServer

OrderInv ==
    /\ Len(executed) <= Len(sent) /\ \A i \in 1..Len(executed) : executed[i] = sent[i]
    /\ pc = "handshake" =>
          toServer = <<>> /\ read_str = <<>> /\ sent = <<>> /\ executed = <<>>
    /\ Serving => Taken <= Len(sent) /\ Stream(Taken, Incoming, sent, browser)
    /\ pc = "execute" => sent[Taken] \in Commands /\ cmd = Request(sent[Taken])

\* The replies, one after the other, and the frame that ends the connection.
All(r) == FlattenSeq([i \in DOMAIN r |-> ReplyFrame(r[i])])
ExitFrame == set_send_header(CONNECTION_CLOSE, 0)

ReplyInv ==
    browser =>
        /\ connection_closed => pc = "over"
        /\ pc = "send" => Cat(toClient, send_buf) = All(replied)
        /\ pc = "exit" => Cat(toClient, send_buf) = Cat(All(replied), ExitFrame)
        /\ pc = "over" => toClient \in {All(replied), Cat(All(replied), ExitFrame)}
        /\ pc \notin {"send", "exit", "over"} => toClient = All(replied)

Inv == TypeInv /\ HeaderInv /\ OrderInv /\ ReplyInv

\* The frames that the session sends.
LEMMA SentFrames ==
    /\ ExitFrame \in Bytes
    /\ \A n \in Nat : ReplyFrame(n) \in Bytes
<1>1. BINARY_FRAME \in Byte /\ 0 \in Byte /\ 1 \in Byte /\ CONNECTION_CLOSE \in Byte
  BY WebSocketAssumption, FramesAssumption, Radixes DEF BINARY_FRAME, Byte
<1>2. ExitFrame \in Bytes
  BY <1>1, SendHeader DEF ExitFrame
<1>3. ASSUME NEW n \in Nat PROVE ReplyFrame(n) \in Bytes
  <2>. DEFINE h == set_send_header(BINARY_FRAME, n)
              p == [i \in 1..n |-> i % 2]
  <2>1. h \in Bytes
    BY <1>1, SendHeader
  <2>2. \A i \in 1..n : i % 2 \in {0, 1}
    OBVIOUS
  <2>3. p \in Bytes
    BY <1>1, <2>2 DEF Bytes
  <2>. HIDE DEF h, p
  <2>4. Cat(h, p) \in Bytes
    BY <2>1, <2>3, CatBytes
  <2>. QED BY <2>4, Zenon DEF ReplyFrame, Cat, h, p
<1>. QED BY <1>2, <1>3

\* Their replies.
LEMMA Replies ==
    /\ All(<<>>) = <<>>
    /\ \A r \in Seq(Nat) : All(r) \in Bytes
    /\ \A r \in Seq(Nat), n \in Nat :
          Append(r, n) \in Seq(Nat) /\ All(Append(r, n)) = Cat(All(r), ReplyFrame(n))
<1>. DEFINE F(r) == [i \in DOMAIN r |-> ReplyFrame(r[i])]
<1>1. All(<<>>) = <<>>
  <2>1. F(<<>>) = <<>>
    OBVIOUS
  <2>. QED BY <2>1, FlattenEmpty DEF All
<1>2. ASSUME NEW r \in Seq(Nat) PROVE Blocks(Byte, F(r)) /\ All(r) = FlattenSeq(F(r))
  <2>1. \A i \in 1..Len(r) : r[i] \in Nat
    OBVIOUS
  <2>2. \A i \in 1..Len(r) : ReplyFrame(r[i]) \in Bytes
    BY <2>1, SentFrames
  <2>3. [i \in 1..Len(r) |-> ReplyFrame(r[i])] \in Seq(Bytes)
    BY <2>2
  <2>4. F(r) = [i \in 1..Len(r) |-> ReplyFrame(r[i])]
    OBVIOUS
  <2>. QED BY <2>3, <2>4, BlocksOfBytes DEF All
<1>3. ASSUME NEW r \in Seq(Nat) PROVE All(r) \in Bytes
  BY <1>2, FlattenType DEF Bytes
<1>4. ASSUME NEW r \in Seq(Nat), NEW n \in Nat
      PROVE  Append(r, n) \in Seq(Nat) /\ All(Append(r, n)) = Cat(All(r), ReplyFrame(n))
  <2>1. Append(r, n) \in Seq(Nat)
    OBVIOUS
  <2>2. F(Append(r, n)) = Append(F(r), ReplyFrame(n))
    OBVIOUS
  <2>3. Blocks(Byte, F(r)) /\ All(r) = FlattenSeq(F(r)) /\ All(Append(r, n)) = FlattenSeq(F(Append(r, n)))
    BY <1>2, <2>1
  <2>4. ReplyFrame(n) \in Seq(Byte)
    BY SentFrames DEF Bytes
  <2>. HIDE DEF F
  <2>5. FlattenSeq(Append(F(r), ReplyFrame(n))) = Cat(FlattenSeq(F(r)), ReplyFrame(n))
    BY <2>3, <2>4, FlattenAppend
  <2>. QED BY <2>1, <2>2, <2>3, <2>5
<1>. QED BY <1>1, <1>3, <1>4

\* The beginning of a sequence is a prefix of it.
LEMMA PrefixOf ==
    /\ \A S : \A s, t \in Seq(S) :
          Len(s) <= Len(t) /\ (\A i \in 1..Len(s) : s[i] = t[i]) => IsPrefix(s, t)
    /\ \A a, b \in Bytes : IsPrefix(a, Cat(a, b))
<1>1. ASSUME NEW S, NEW s \in Seq(S), NEW t \in Seq(S),
             Len(s) <= Len(t), \A i \in 1..Len(s) : s[i] = t[i]
      PROVE  IsPrefix(s, t)
  <2>1. /\ Len(s) \in Nat /\ Len(t) \in Nat
        /\ SubSeq(s, 1, Len(s)) = [k \in 1..Len(s) |-> s[k]]
        /\ SubSeq(t, 1, Len(s)) = [k \in 1..Len(s) |-> t[k]]
    OBVIOUS
  <2>2. [k \in 1..Len(s) |-> s[k]] = [k \in 1..Len(s) |-> t[k]]
    BY <1>1
  <2>. QED BY <1>1, <2>1, <2>2 DEF IsPrefix
<1>2. ASSUME NEW a \in Bytes, NEW b \in Bytes PROVE IsPrefix(a, Cat(a, b))
  <2>1. Len(a) \in Nat /\ Len(b) \in Nat /\ Len(Cat(a, b)) = Len(a) + Len(b)
    BY EmptyBytes, CatBytes
  <2>2. SubSeq(a, 1, Len(a)) = a
    BY DEF Bytes
  <2>3. SubSeq(Cat(a, b), 1, Len(a)) = a
    BY CutAfter
  <2>. QED BY <2>1, <2>2, <2>3 DEF IsPrefix
<1>. QED BY <1>1, <1>2

\* The first two bytes stay when others are appended.
LEMMA FirstTwo ==
    \A a, u \in Bytes : Len(a) >= 2 => Cat(a, u)[1] = a[1] /\ Cat(a, u)[2] = a[2]
<1>. SUFFICES ASSUME NEW a \in Seq(Byte), NEW u \in Seq(Byte), Len(a) >= 2
              PROVE  (a \o u)[1] = a[1] /\ (a \o u)[2] = a[2]
  BY Zenon DEF Cat, Bytes
<1>. QED OBVIOUS

\* No frame has been sent.
LEMMA StreamEmpty == Stream(0, <<>>, <<>>, TRUE)
<1>1. /\ <<>> \in Seq(Bytes) /\ Len(<<>>) = Len(<<>>) - 0
      /\ \A i \in 1..Len(<<>>) : IsFrame(<<>>[0 + i], <<>>[i])
  OBVIOUS
<1>2. <<>> \in Bytes /\ Cat(<<>>, <<>>) = FlattenSeq(<<>>)
  BY EmptyBytes, CatEmpty, FlattenEmpty
<1>. QED BY <1>1, <1>2 DEF Stream

\* What the invariant says of the properties.
LEMMA InvGives == Inv => InOrder /\ InBuffer /\ RepliesWhole
<1>. SUFFICES ASSUME Inv PROVE InOrder /\ InBuffer /\ RepliesWhole
  OBVIOUS
<1>1. InOrder
  BY PrefixOf DEF Inv, TypeInv, OrderInv, InOrder, Histories
<1>2. InBuffer
  <2>. SUFFICES ASSUME Reading PROVE Len(read_str) + expected <= WEBSOCK_READ_STR_LEN
    BY DEF InBuffer
  <2>1. /\ WEBSOCK_READ_STR_LEN \in Nat /\ Margin \in Nat /\ Margin >= 14
        /\ Margin <= WEBSOCK_READ_STR_LEN
    BY WebSocketAssumption
  <2>2. read_str \in Bytes /\ expected \in Nat /\ Len(read_str) \in Nat
    BY EmptyBytes DEF Inv, TypeInv
  <2>3. CASE pc = "header"
    BY <2>1, <2>3 DEF Inv, HeaderInv
  <2>4. CASE pc = "length"
    BY <2>1, <2>2, <2>4 DEF Inv, HeaderInv
  <2>5. CASE pc = "payload"
    <3>1. /\ Headed(read_str) /\ header = HeaderOf(read_str)
          /\ header.payload_size <= WEBSOCK_READ_STR_LEN - Margin
          /\ Len(read_str) + expected = header.header_size + header.payload_size
      BY <2>5 DEF Inv, HeaderInv
    <3>2. header.header_size \in {6, 8, 14} /\ header.payload_size \in Nat
      BY <2>2, <3>1, HeaderType
    <3>. QED BY <2>1, <3>1, <3>2
  <2>. QED BY <2>3, <2>4, <2>5 DEF Reading
<1>3. RepliesWhole
  <2>1. /\ All(replied) \in Bytes /\ ExitFrame \in Bytes
        /\ toClient \in Bytes /\ send_buf \in Bytes
    BY Replies, SentFrames DEF Inv, TypeInv
  <2>2. browser /\ Reading => toClient = All(replied)
    BY DEF Inv, ReplyInv, Reading
  <2>3. ASSUME browser PROVE IsPrefix(toClient, Cat(All(replied), ExitFrame))
    <3>1. ReplyInv /\ browser
      BY <2>3 DEF Inv
    <3>2. CASE pc = "send"
      <4>1. Cat(toClient, send_buf) = All(replied)
        BY <3>1, <3>2 DEF ReplyInv
      <4>2. /\ Cat(Cat(toClient, send_buf), ExitFrame) = Cat(toClient, Cat(send_buf, ExitFrame))
            /\ Cat(send_buf, ExitFrame) \in Bytes
        BY <2>1, CatAssociative, CatBytes
      <4>. QED BY <2>1, <4>1, <4>2, PrefixOf
    <3>3. CASE pc = "exit"
      <4>1. Cat(toClient, send_buf) = Cat(All(replied), ExitFrame)
        BY <3>1, <3>3 DEF ReplyInv
      <4>. QED BY <2>1, <4>1, PrefixOf
    <3>4. CASE toClient = All(replied)
      BY <2>1, <3>4, PrefixOf
    <3>5. CASE toClient = Cat(All(replied), ExitFrame)
      <4>1. Cat(toClient, <<>>) = toClient /\ <<>> \in Bytes
        BY <2>1, CatEmpty, EmptyBytes
      <4>2. IsPrefix(toClient, Cat(toClient, <<>>))
        BY <2>1, <4>1, PrefixOf
      <4>. QED BY <3>5, <4>1, <4>2
    <3>6. pc \notin {"send", "exit"} => toClient \in {All(replied), Cat(All(replied), ExitFrame)}
      BY <3>1 DEF ReplyInv
    <3>. QED BY <3>2, <3>3, <3>4, <3>5, <3>6
  <2>4. /\ All(replied) \o ExitFrame = Cat(All(replied), ExitFrame)
    BY Zenon DEF Cat
  <2>. QED BY <2>2, <2>3, <2>4, Zenon DEF RepliesWhole, All, ExitFrame
<1>. QED BY <1>1, <1>2, <1>3

\* It holds at first.
LEMMA InitInv == Init => Inv
<1>. SUFFICES ASSUME Init PROVE Inv
  OBVIOUS
<1>1. <<>> \in Bytes /\ <<>> \in Seq(Nat) /\ <<>> \in Histories /\ Len(<<>>) = 0
  BY EmptyBytes DEF Histories
<1>2. TypeInv
  BY <1>1 DEF Init, TypeInv
<1>3. HeaderInv
  BY DEF Init, HeaderInv
<1>4. OrderInv
  BY <1>1 DEF Init, OrderInv, Serving, Reading
<1>5. ReplyInv
  BY Replies DEF Init, ReplyInv
<1>. QED BY <1>2, <1>3, <1>4, <1>5 DEF Inv

-----------------------------------------------------------------------------
(* The steps of the browser, and the signal to end. *)

\* What of the state each part of the invariant is about.
typeVars == << browser, exit_signal, connection_closed, pc, toServer, toClient, read_str,
               send_buf, expected, replied, sent, executed >>
headerVars == << pc, read_str, expected, header >>
orderVars == << pc, toServer, read_str, cmd, sent, executed, browser >>
replyVars == << browser, connection_closed, pc, toClient, send_buf, replied >>

\* A part whose variables stay is kept.
LEMMA Stay ==
    /\ TypeInv /\ UNCHANGED typeVars => TypeInv'
    /\ HeaderInv /\ UNCHANGED headerVars => HeaderInv'
    /\ OrderInv /\ UNCHANGED orderVars => OrderInv'
    /\ ReplyInv /\ UNCHANGED replyVars => ReplyInv'
<1>1. TypeInv /\ UNCHANGED typeVars => TypeInv'
  BY DEF TypeInv, typeVars
<1>2. HeaderInv /\ UNCHANGED headerVars => HeaderInv'
  BY Zenon DEF HeaderInv, headerVars
<1>3. OrderInv /\ UNCHANGED orderVars => OrderInv'
  <2>. SUFFICES ASSUME OrderInv, UNCHANGED orderVars PROVE OrderInv'
    OBVIOUS
  <2>1. Serving' = Serving /\ Taken' = Taken /\ Incoming' = Incoming
    BY DEF orderVars, Serving, Taken, Incoming, Reading
  <2>. QED BY <2>1 DEF OrderInv, orderVars
<1>4. ReplyInv /\ UNCHANGED replyVars => ReplyInv'
  BY DEF ReplyInv, replyVars
<1>. QED BY <1>1, <1>2, <1>3, <1>4

\* The browser sends a frame, of a command or an odd one.
Sends(c, f) ==
    /\ browser /\ pc # "handshake"
    /\ toServer' = Cat(toServer, f) /\ sent' = Append(sent, c)
    /\ UNCHANGED << browser, toClient, exit_signal, cmd, pc, read_str, expected, header,
                    connection_closed, send_buf, executed, replied >>

\* It keeps the invariant.
LEMMA SendsInv ==
    ASSUME Inv, NEW c, NEW f, IsFrame(c, f), Sends(c, f)
    PROVE  Inv'
<1>1. f \in Bytes /\ c \in Commands \cup {NoCommand}
  BY FrameParsed DEF IsFrame
<1>2. /\ toServer \in Bytes /\ read_str \in Bytes /\ sent \in Histories /\ executed \in Histories
      /\ Len(sent) \in Nat /\ Len(executed) \in Nat
  BY DEF Inv, TypeInv, Histories
<1>3. /\ sent' \in Histories /\ Len(sent') = Len(sent) + 1
      /\ \A i \in 1..Len(sent) : sent'[i] = sent[i]
  BY <1>1, <1>2 DEF Sends, Histories
<1>4. TypeInv'
  BY <1>1, <1>2, <1>3, CatBytes DEF Inv, TypeInv, Sends
<1>5. HeaderInv'
  BY Stay DEF Inv, Sends, headerVars
<1>6. ReplyInv'
  BY Stay DEF Inv, Sends, replyVars
<1>7. OrderInv'
  <2>1. OrderInv /\ UNCHANGED <<pc, read_str, cmd, executed, browser>> /\ browser = TRUE /\ pc # "handshake"
    BY DEF Inv, Sends, TypeInv
  <2>2. Serving' = Serving /\ Taken' = Taken /\ Taken \in Nat
    BY <1>2, <2>1 DEF Serving, Reading, Taken
  <2>3. /\ Len(executed') <= Len(sent')
        /\ \A i \in 1..Len(executed') : executed'[i] = sent'[i]
    BY <1>2, <1>3, <2>1 DEF OrderInv
  <2>4. ASSUME Serving
        PROVE  Taken <= Len(sent') /\ Stream(Taken, Incoming', sent', TRUE)
    <3>1. Taken <= Len(sent) /\ Stream(Taken, Incoming, sent, TRUE)
      BY <2>1, <2>4 DEF OrderInv
    <3>2. Incoming \in Bytes /\ Incoming' = Cat(Incoming, f)
      <4>1. Cat(read_str, Cat(toServer, f)) = Cat(Cat(read_str, toServer), f)
            /\ Cat(read_str, toServer) \in Bytes
        BY <1>1, <1>2, CatAssociative, CatBytes
      <4>2. toServer' = Cat(toServer, f)
        BY DEF Sends
      <4>. QED BY <1>2, <2>1, <4>1, <4>2 DEF Incoming, Reading
    <3>3. Taken \in 0..Len(sent)
      BY <1>2, <2>2, <3>1
    <3>4. Stream(Taken, Cat(Incoming, f), Append(sent, c), TRUE)
      BY <1>1, <1>2, <3>1, <3>2, <3>3, StreamGrows DEF Histories
    <3>5. Taken <= Len(sent')
      BY <1>2, <1>3, <2>2, <3>1
    <3>6. Stream(Taken, Incoming', sent', TRUE)
      BY <3>2, <3>4, Zenon DEF Sends
    <3>. QED BY <3>5, <3>6
  <2>5. ASSUME pc = "execute"
        PROVE  sent'[Taken] \in Commands /\ cmd = Request(sent'[Taken])
    <3>1. Taken \in 1..Len(sent) /\ sent[Taken] \in Commands /\ cmd = Request(sent[Taken])
      BY <1>2, <2>1, <2>2, <2>5 DEF OrderInv, Serving, Taken
    <3>. QED BY <1>3, <3>1
  <2>. QED BY <2>1, <2>2, <2>3, <2>4, <2>5 DEF OrderInv
<1>. QED BY <1>4, <1>5, <1>6, <1>7 DEF Inv

\* The two actions send a frame.
LEMMA BrowserSends ==
    /\ \A c \in Commands, mask \in Masks : SendCommand(c, mask) =>
          LET f == Frame(BINARY_FRAME, Request(c), mask) IN IsFrame(c, f) /\ Sends(c, f)
    /\ \A o \in Odd : SendOdd(o) =>
          LET f == Frame(o.opcode, [i \in 1..o.len |-> 0], <<0, 0, 0, 0>>)
          IN  IsFrame(NoCommand, f) /\ Sends(NoCommand, f)
<1>1. ASSUME NEW c \in Commands, NEW mask \in Masks, SendCommand(c, mask)
      PROVE  LET f == Frame(BINARY_FRAME, Request(c), mask) IN IsFrame(c, f) /\ Sends(c, f)
  <2>. DEFINE f == Frame(BINARY_FRAME, Request(c), mask)
  <2>1. IsFrame(c, f)
    BY Zenon DEF IsFrame
  <2>2. toServer' = toServer \o f
    BY <1>1, Zenon DEF SendCommand
  <2>. HIDE DEF f
  <2>3. toServer' = Cat(toServer, f)
    BY <2>2, Zenon DEF Cat
  <2>4. Sends(c, f)
    BY <1>1, <2>3 DEF SendCommand, Sends
  <2>. QED BY <2>1, <2>4 DEF f
<1>2. ASSUME NEW o \in Odd, SendOdd(o)
      PROVE  LET f == Frame(o.opcode, [i \in 1..o.len |-> 0], <<0, 0, 0, 0>>)
             IN  IsFrame(NoCommand, f) /\ Sends(NoCommand, f)
  <2>. DEFINE f == Frame(o.opcode, [i \in 1..o.len |-> 0], <<0, 0, 0, 0>>)
  <2>1. IsFrame(NoCommand, f)
    BY Zenon DEF IsFrame
  <2>2. toServer' = toServer \o f
    BY <1>2, Zenon DEF SendOdd
  <2>. HIDE DEF f
  <2>3. toServer' = Cat(toServer, f)
    BY <2>2, Zenon DEF Cat
  <2>4. Sends(NoCommand, f)
    BY <1>2, <2>3 DEF SendOdd, Sends
  <2>. QED BY <2>1, <2>4 DEF f
<1>. QED BY <1>1, <1>2

\* It leaves.
LEMMA LeaveInv == ASSUME Inv, Leave PROVE Inv'
<1>1. PICK n \in {k \in Cuts \cup {Len(toServer)} : k <= Len(toServer)} :
            toServer' = SubSeq(toServer, 1, n)
  BY DEF Leave
<1>. DEFINE b == SubSeq(toServer, 1, n)
            d == SubSeq(toServer, n + 1, Len(toServer))
<1>2. toServer \in Bytes /\ read_str \in Bytes /\ n \in Nat /\ n <= Len(toServer)
  BY WebSocketAssumption, EmptyBytes DEF Inv, TypeInv
<1>3. b \in Bytes /\ d \in Bytes /\ toServer = Cat(b, d) /\ toServer' = b
  BY <1>1, <1>2, Cutting
<1>. HIDE DEF b, d
<1>4. TypeInv'
  BY <1>3 DEF Inv, TypeInv, Leave
<1>5. HeaderInv'
  BY Stay DEF Inv, Leave, headerVars
<1>6. ReplyInv'
  BY DEF ReplyInv, Leave
<1>7. OrderInv'
  <2>1. OrderInv /\ UNCHANGED <<pc, read_str, cmd, sent, executed>> /\ browser' = FALSE
    BY DEF Inv, Leave
  <2>2. Serving' = Serving /\ Taken' = Taken
    BY <2>1 DEF Serving, Reading, Taken
  <2>3. pc = "handshake" => toServer' = <<>>
    <3>. SUFFICES ASSUME toServer = <<>> PROVE b = <<>>
      BY <1>3, <2>1 DEF OrderInv
    <3>1. Len(toServer) = Len(b) + Len(d) /\ Len(b) \in Nat /\ Len(d) \in Nat
      BY <1>3, CatBytes, EmptyBytes
    <3>2. Len(b) = 0
      BY <3>1, EmptyBytes
    <3>. QED BY <1>3, <3>2, EmptyBytes
  <2>4. Stream(Taken, Incoming, sent, browser) => Stream(Taken, Incoming', sent, FALSE)
    <3>1. CASE Reading
      <4>1. Incoming = Cat(read_str, Cat(b, d)) /\ Incoming' = Cat(read_str, b)
        BY <1>3, <2>1, <3>1 DEF Incoming, Reading
      <4>. QED BY <1>2, <1>3, <4>1, StreamCut
    <3>2. CASE ~Reading
      <4>1. <<>> \in Bytes /\ Cat(<<>>, Cat(b, d)) = Cat(b, d) /\ Cat(<<>>, b) = b
        BY <1>3, EmptyBytes, CatEmpty, CatBytes
      <4>2. Incoming = Cat(<<>>, Cat(b, d)) /\ Incoming' = Cat(<<>>, b)
        BY <1>3, <2>1, <3>2, <4>1 DEF Incoming, Reading
      <4>. QED BY <1>3, <4>1, <4>2, StreamCut
    <3>. QED BY <3>1, <3>2
  <2>. QED BY <2>1, <2>2, <2>3, <2>4 DEF OrderInv
<1>. QED BY <1>4, <1>5, <1>6, <1>7 DEF Inv

\* The server gets the signal.
LEMMA ExitInv == ASSUME Inv, Exit PROVE Inv'
<1>1. TypeInv'
  BY DEF Inv, TypeInv, Exit
<1>2. HeaderInv' /\ OrderInv' /\ ReplyInv'
  BY Stay DEF Inv, Exit, headerVars, orderVars, replyVars
<1>. QED BY <1>1, <1>2 DEF Inv

-----------------------------------------------------------------------------
(* The session reads. *)

\* It reads on, or begins to.
LEMMA ReadInv ==
    ASSUME Inv, NEW p \in {"header", "length", "payload"}, NEW h, NEW n \in Nat, Read(p, h, n),
           Reading \/ (pc = "handshake" /\ browser)
    PROVE  TypeInv' /\ OrderInv' /\ ReplyInv'
<1>1. TypeInv'
  BY DEF Inv, TypeInv, Read
<1>2. OrderInv'
  <2>1. OrderInv /\ UNCHANGED <<toServer, read_str, sent, executed, browser>>
        /\ pc' \in {"header", "length", "payload"}
    BY DEF Inv, Read
  <2>2. Serving' /\ Taken' = Len(executed) /\ Incoming' = Cat(read_str, toServer) /\ pc' # "handshake"
    BY <2>1 DEF Serving, Taken, Incoming, Reading
  <2>3. Len(executed) <= Len(sent) /\ Stream(Len(executed), Cat(read_str, toServer), sent, browser)
    <3>1. CASE Reading
      BY <2>1, <3>1 DEF OrderInv, Serving, Taken, Incoming, Reading
    <3>2. CASE pc = "handshake" /\ browser
      <4>1. browser = TRUE /\ toServer = <<>> /\ read_str = <<>> /\ sent = <<>> /\ executed = <<>>
        BY <2>1, <3>2 DEF OrderInv, Inv, TypeInv
      <4>2. Cat(<<>>, <<>>) = <<>> /\ Len(<<>>) = 0
        BY EmptyBytes, CatEmpty
      <4>3. Len(executed) = 0 /\ Len(sent) = 0
        BY <4>1, <4>2
      <4>4. Stream(0, Cat(read_str, toServer), sent, browser)
        BY <4>1, <4>2, StreamEmpty, Zenon
      <4>. QED BY <4>3, <4>4
    <3>. QED BY <3>1, <3>2
  <2>. QED BY <2>1, <2>2, <2>3 DEF OrderInv
<1>3. ReplyInv'
  <2>. SUFFICES ASSUME browser, browser' = browser PROVE ReplyInv'
    BY DEF ReplyInv, Read
  <2>1. ~connection_closed /\ toClient = All(replied)
    BY DEF Inv, ReplyInv, Reading
  <2>. QED BY <2>1 DEF Read, ReplyInv
<1>. QED BY <1>1, <1>2, <1>3

\* The session ends.
LEMMA EndsInv == ASSUME Inv, Reading, NEW closed \in BOOLEAN, Ends(closed) PROVE Inv'
<1>1. /\ UNCHANGED << browser, toServer, toClient, exit_signal, cmd, read_str, expected, header,
                      sent, executed, replied >>
      /\ \/ pc' = "exit" /\ send_buf' = ExitFrame /\ connection_closed' = connection_closed
         \/ pc' = "over" /\ send_buf' = send_buf /\ connection_closed' = closed
  BY DEF Ends, Over, ExitFrame
<1>2. TypeInv'
  BY <1>1, SentFrames DEF Inv, TypeInv
<1>3. HeaderInv'
  BY <1>1 DEF HeaderInv
<1>4. OrderInv'
  BY <1>1 DEF Inv, OrderInv, Serving, Reading
<1>5. ReplyInv'
  <2>. SUFFICES ASSUME browser PROVE ReplyInv'
    BY <1>1 DEF ReplyInv
  <2>1. ~connection_closed /\ toClient = All(replied)
    BY DEF Inv, ReplyInv, Reading
  <2>. QED BY <1>1, <2>1 DEF ReplyInv
<1>. QED BY <1>2, <1>3, <1>4, <1>5 DEF Inv

\* The handshake begins the first frame, or fails.
LEMMA AuthenticateInv == ASSUME Inv, NEW whole \in BOOLEAN, authenticate(whole) PROVE Inv'
<1>1. CASE Read("header", header, 6) /\ browser
  <2>1. pc = "handshake" /\ read_str = <<>> /\ Len(<<>>) = 0
    BY EmptyBytes DEF authenticate, Inv, OrderInv
  <2>2. HeaderInv'
    BY <1>1, <2>1 DEF HeaderInv, Read
  <2>3. TypeInv' /\ OrderInv' /\ ReplyInv'
    BY <1>1, <2>1, ReadInv
  <2>. QED BY <2>2, <2>3 DEF Inv
<1>2. CASE /\ pc' = "refused" /\ connection_closed' = ~browser
           /\ UNCHANGED << browser, toServer, toClient, exit_signal, cmd, read_str, expected,
                           header, send_buf, sent, executed, replied >>
  <2>1. pc = "handshake"
    BY DEF authenticate
  <2>2. TypeInv'
    BY <1>2 DEF Inv, TypeInv
  <2>3. HeaderInv'
    BY <1>2 DEF HeaderInv
  <2>4. OrderInv'
    BY <1>2 DEF Inv, OrderInv, Serving, Reading
  <2>5. ReplyInv'
    BY <1>2, <2>1 DEF Inv, ReplyInv
  <2>. QED BY <2>2, <2>3, <2>4, <2>5 DEF Inv
<1>. QED BY <1>1, <1>2 DEF authenticate

\* A read gives some of the bytes that are there, and no more than are wanted.
LEMMA ReadBytesInv == ASSUME Inv, read_n_bytes PROVE Inv'
<1>1. PICK n \in 1..expected :
            /\ n <= Len(toServer)
            /\ read_str' = read_str \o SubSeq(toServer, 1, n)
            /\ toServer' = SubSeq(toServer, n + 1, Len(toServer))
            /\ expected' = expected - n
  BY DEF read_n_bytes
<1>2. /\ Reading /\ Reading' /\ pc' = pc
      /\ UNCHANGED << browser, toClient, exit_signal, cmd, header, connection_closed,
                      send_buf, sent, executed, replied >>
  BY DEF read_n_bytes, Reading
<1>. DEFINE a == SubSeq(toServer, 1, n)
            d == SubSeq(toServer, n + 1, Len(toServer))
<1>3. toServer \in Bytes /\ read_str \in Bytes /\ expected \in Nat /\ n \in Nat /\ n <= expected
  BY DEF Inv, TypeInv
<1>4. a \in Bytes /\ Len(a) = n /\ d \in Bytes /\ toServer = Cat(a, d)
  BY <1>1, <1>3, Cutting
<1>5. read_str' = Cat(read_str, a) /\ toServer' = d
  BY <1>1, Zenon DEF Cat
<1>. HIDE DEF a, d
<1>6. /\ read_str' \in Bytes /\ Len(read_str') = Len(read_str) + n /\ Len(read_str) \in Nat
      /\ expected' \in Nat /\ Len(read_str') + expected' = Len(read_str) + expected
  <2>1. Cat(read_str, a) \in Bytes /\ Len(Cat(read_str, a)) = Len(read_str) + Len(a)
    BY <1>3, <1>4, CatBytes
  <2>2. Len(read_str) \in Nat
    BY <1>3, EmptyBytes
  <2>3. read_str' \in Bytes /\ Len(read_str') = Len(read_str) + n
    BY <1>4, <1>5, <2>1
  <2>4. expected' = expected - n
    BY <1>1
  <2>. QED BY <1>3, <2>2, <2>3, <2>4
<1>7. TypeInv'
  BY <1>2, <1>4, <1>5, <1>6 DEF Inv, TypeInv
<1>8. HeaderInv'
  <2>1. CASE pc = "header"
    BY <1>2, <1>6, <2>1 DEF Inv, HeaderInv
  <2>2. CASE pc = "length"
    <3>1. /\ Len(read_str) >= 6 /\ read_str[1] \in {TEXT_FRAME, BINARY_FRAME}
          /\ \/ read_str[2] = MEDIUM_STREAM /\ Len(read_str) + expected = 8
             \/ read_str[2] = BIG_STREAM /\ Len(read_str) + expected = 14
      BY <2>2 DEF Inv, HeaderInv
    <3>2. read_str'[1] = read_str[1] /\ read_str'[2] = read_str[2]
      BY <1>3, <1>4, <1>5, <1>6, <3>1, FirstTwo
    <3>. QED BY <1>2, <1>6, <2>2, <3>1, <3>2 DEF HeaderInv
  <2>3. CASE pc = "payload"
    <3>1. /\ Headed(read_str) /\ header = HeaderOf(read_str)
          /\ read_str[1] \in {TEXT_FRAME, BINARY_FRAME}
          /\ header.payload_size <= WEBSOCK_READ_STR_LEN - Margin
          /\ Len(read_str) >= header.header_size
          /\ Len(read_str) + expected = header.header_size + header.payload_size
      BY <2>3 DEF Inv, HeaderInv
    <3>2. /\ Headed(read_str') /\ HeaderOf(read_str') = HeaderOf(read_str)
          /\ read_str'[1] = read_str[1]
      BY <1>3, <1>4, <1>5, <3>1, HeaderFirst
    <3>3. header.header_size \in Nat
      BY <1>3, <3>1, HeaderType
    <3>4. Len(read_str') >= header.header_size
      BY <1>3, <1>6, <3>1, <3>3
    <3>5. pc' = "payload" /\ header' = header /\ Len(read_str') + expected' = header.header_size + header.payload_size
      BY <1>2, <1>6, <2>3, <3>1
    <3>. QED BY <3>1, <3>2, <3>4, <3>5 DEF HeaderInv
  <2>. QED BY <1>2, <2>1, <2>2, <2>3 DEF Reading
<1>9. OrderInv'
  <2>1. Incoming' = Incoming
    <3>1. Cat(Cat(read_str, a), d) = Cat(read_str, Cat(a, d))
      BY <1>3, <1>4, CatAssociative
    <3>. QED BY <1>2, <1>4, <1>5, <3>1 DEF Incoming
  <2>2. Serving' = Serving /\ Taken' = Taken /\ pc # "handshake" /\ pc # "execute"
    BY <1>2 DEF Serving, Taken, Reading
  <2>. QED BY <1>2, <2>1, <2>2 DEF Inv, OrderInv
<1>10. ReplyInv'
  BY <1>2, Stay DEF Inv, replyVars
<1>. QED BY <1>7, <1>8, <1>9, <1>10 DEF Inv

\* The client is gone.
LEMMA ConnectionClosedInv == ASSUME Inv, ConnectionClosed PROVE Inv'
BY EndsInv DEF ConnectionClosed

\* The payload comes next, or it is refused.
LEMMA PayloadInv ==
    ASSUME Inv, Reading, expected = 0, Headed(read_str),
           read_str[1] \in {TEXT_FRAME, BINARY_FRAME},
           NEW size, NEW offset, NEW len, Len(read_str) = size,
           HeaderOf(read_str)
             = [header_size |-> size, mask_offset |-> offset, payload_size |-> len],
           ReadPayload(size, offset, len)
    PROVE  Inv'
<1>. DEFINE h == [header_size |-> size, mask_offset |-> offset, payload_size |-> len]
<1>1. CASE Refuse
  BY <1>1, EndsInv DEF Refuse
<1>2. CASE ~(len > WEBSOCK_READ_STR_LEN - Margin) /\ Read("payload", h, len)
  <2>1. read_str \in Bytes /\ Len(read_str) \in Nat /\ h.payload_size = len /\ h.header_size = size
    BY EmptyBytes DEF Inv, TypeInv
  <2>2. len \in Nat
    BY <2>1, HeaderType
  <2>3. TypeInv' /\ OrderInv' /\ ReplyInv'
    BY <1>2, <2>2, ReadInv
  <2>4. len <= WEBSOCK_READ_STR_LEN - Margin
    BY <1>2, <2>2, WebSocketAssumption
  <2>5. pc' = "payload" /\ header' = h /\ expected' = len /\ read_str' = read_str
    BY <1>2 DEF Read
  <2>6. Len(read_str) >= size /\ Len(read_str) + len = size + len
    BY <2>1, <2>2
  <2>. HIDE DEF h
  <2>7. HeaderInv'
    BY <2>1, <2>4, <2>5, <2>6 DEF HeaderInv, h
  <2>. QED BY <2>3, <2>7 DEF Inv
<1>. QED BY <1>1, <1>2 DEF ReadPayload

\* The header has been read.
LEMMA ReadHeaderInv == ASSUME Inv, read_header PROVE Inv'
<1>1. pc = "header" /\ Reading /\ expected = 0 /\ read_str \in Bytes
  BY DEF read_header, ReadDone, Inv, TypeInv
<1>2. Len(read_str) = 6
  BY <1>1, EmptyBytes DEF Inv, HeaderInv
<1>3. CASE Refuse \/ Ends(TRUE)
  BY <1>1, <1>3, EndsInv DEF Refuse
<1>4. CASE /\ read_str[1] \in {TEXT_FRAME, BINARY_FRAME}
           /\ read_str[2] = MEDIUM_STREAM /\ Read("length", header, 2)
  <2>1. TypeInv' /\ OrderInv' /\ ReplyInv'
    BY <1>1, <1>4, ReadInv
  <2>2. HeaderInv'
    <3>1. /\ pc' = "length" /\ read_str' = read_str /\ expected' = 2
          /\ read_str[1] \in {TEXT_FRAME, BINARY_FRAME} /\ read_str[2] = MEDIUM_STREAM
      BY <1>4 DEF Read
    <3>2. Len(read_str') = 6
      BY <1>2, <3>1, Zenon
    <3>4. Len(read_str') >= 6 /\ Len(read_str') + expected' = 8
      BY <3>1, <3>2
    <3>3. pc' # "header" /\ pc' # "payload"
      BY <3>1
    <3>. QED BY <3>1, <3>3, <3>4, Zenon DEF HeaderInv
  <2>. QED BY <2>1, <2>2 DEF Inv
<1>5. CASE /\ read_str[1] \in {TEXT_FRAME, BINARY_FRAME}
           /\ read_str[2] = BIG_STREAM /\ Read("length", header, 8)
  <2>1. TypeInv' /\ OrderInv' /\ ReplyInv'
    BY <1>1, <1>5, ReadInv
  <2>2. HeaderInv'
    <3>1. /\ pc' = "length" /\ read_str' = read_str /\ expected' = 8
          /\ read_str[1] \in {TEXT_FRAME, BINARY_FRAME} /\ read_str[2] = BIG_STREAM
      BY <1>5 DEF Read
    <3>2. Len(read_str') = 6
      BY <1>2, <3>1, Zenon
    <3>4. Len(read_str') >= 6 /\ Len(read_str') + expected' = 14
      BY <3>1, <3>2
    <3>3. pc' # "header" /\ pc' # "payload"
      BY <3>1
    <3>. QED BY <3>1, <3>3, <3>4, Zenon DEF HeaderInv
  <2>. QED BY <2>1, <2>2 DEF Inv
<1>6. CASE /\ read_str[1] \in {TEXT_FRAME, BINARY_FRAME}
           /\ read_str[2] # MEDIUM_STREAM /\ read_str[2] # BIG_STREAM
           /\ ReadPayload(6, 2, read_str[2])
  <2>1. Headed(read_str)
    BY <1>2, <1>6 DEF Headed
  <2>2. HeaderOf(read_str)
          = [header_size |-> 6, mask_offset |-> 2, payload_size |-> read_str[2]]
    BY <1>6 DEF HeaderOf
  <2>. QED BY <1>1, <1>2, <1>6, <2>1, <2>2, PayloadInv
<1>. QED BY <1>3, <1>4, <1>5, <1>6 DEF read_header

\* The length has been read.
LEMMA ReadLengthInv == ASSUME Inv, read_length PROVE Inv'
<1>1. pc = "length" /\ Reading /\ expected = 0 /\ read_str \in Bytes
  BY DEF read_length, ReadDone, Inv, TypeInv
<1>2. MEDIUM_STREAM # BIG_STREAM
  BY WebSocketAssumption DEF MEDIUM_STREAM, BIG_STREAM
<1>3. /\ read_str[1] \in {TEXT_FRAME, BINARY_FRAME} /\ Len(read_str) \in Nat
      /\ \/ read_str[2] = MEDIUM_STREAM /\ Len(read_str) = 8
         \/ read_str[2] = BIG_STREAM /\ Len(read_str) = 14
  BY <1>1, EmptyBytes DEF Inv, HeaderInv
<1>4. Headed(read_str)
  <2>1. CASE read_str[2] = MEDIUM_STREAM
    <3>1. Len(read_str) = 8 /\ read_str[2] # BIG_STREAM
      BY <1>2, <1>3, <2>1
    <3>2. Len(read_str) >= 2 /\ Len(read_str) >= 4
      BY <3>1
    <3>. QED BY <3>1, <3>2, Zenon DEF Headed
  <2>2. CASE read_str[2] = BIG_STREAM
    <3>1. Len(read_str) = 14 /\ read_str[2] # MEDIUM_STREAM
      BY <1>2, <1>3, <2>2
    <3>2. Len(read_str) >= 2 /\ Len(read_str) >= 10
      BY <3>1
    <3>. QED BY <3>1, <3>2, Zenon DEF Headed
  <2>. QED BY <1>3, <2>1, <2>2
<1>5. CASE Refuse
  BY <1>1, <1>5, EndsInv DEF Refuse
<1>6. CASE /\ read_str[2] = MEDIUM_STREAM
           /\ ReadPayload(8, 4, Extract2(SubSeq(read_str, 3, 4)))
  <2>1. HeaderOf(read_str) = [header_size |-> 8, mask_offset |-> 4,
                              payload_size |-> Extract2(SubSeq(read_str, 3, 4))]
    BY <1>6, Zenon DEF HeaderOf
  <2>2. Len(read_str) = 8
    BY <1>2, <1>3, <1>6
  <2>. QED BY <1>1, <1>3, <1>4, <1>6, <2>1, <2>2, PayloadInv
<1>7. CASE /\ read_str[2] # MEDIUM_STREAM
           /\ ReadPayload(14, 10, Extract8(SubSeq(read_str, 3, 10)))
  <2>1. read_str[2] = BIG_STREAM /\ Len(read_str) = 14
    BY <1>3, <1>7
  <2>2. HeaderOf(read_str) = [header_size |-> 14, mask_offset |-> 10,
                              payload_size |-> Extract8(SubSeq(read_str, 3, 10))]
    BY <1>7, <2>1, Zenon DEF HeaderOf
  <2>. QED BY <1>1, <1>3, <1>4, <1>7, <2>1, <2>2, PayloadInv
<1>. QED BY <1>5, <1>6, <1>7 DEF read_length

\* The frame is whole: it is the next that the browser sent.
LEMMA DecodeInv == ASSUME Inv, decode_raw_stream_cmd PROVE Inv'
<1>1. pc = "payload" /\ Reading /\ expected = 0 /\ read_str \in Bytes /\ Len(read_str) \in Nat
  BY EmptyBytes DEF decode_raw_stream_cmd, ReadDone, Inv, TypeInv
<1>2. CASE Refuse \/ Ends(FALSE)
  BY <1>1, <1>2, EndsInv DEF Refuse
<1>3. CASE /\ ~(header.payload_size < HeaderSize) /\ pc' = "execute"
           /\ cmd' = Unmasked(SubSeq(read_str, header.header_size + 1, Len(read_str)),
                              SubSeq(read_str, header.mask_offset + 1, header.mask_offset + 4))
           /\ UNCHANGED << browser, toServer, toClient, exit_signal, read_str, expected,
                           header, connection_closed, send_buf, sent, executed, replied >>
  <2>1. /\ Headed(read_str) /\ header = HeaderOf(read_str)
        /\ read_str[1] \in {TEXT_FRAME, BINARY_FRAME}
        /\ header.payload_size <= WEBSOCK_READ_STR_LEN - Margin
        /\ Len(read_str) + expected = header.header_size + header.payload_size
    BY <1>1 DEF Inv, HeaderInv
  <2>2. header.payload_size \in Nat
    BY <1>1, <2>1, HeaderType
  <2>3. Served(read_str)
    BY <1>3, <2>1, <2>2 DEF Served, HeaderSize, SizeOf
  <2>4. Len(read_str) = header.header_size + header.payload_size
    BY <1>1, <2>1
  <2>5. cmd' = Decoded(read_str)
    BY <1>3, <2>1, Zenon DEF Decoded
  <2>6. /\ Len(executed) <= Len(sent) /\ Len(executed) \in Nat /\ Len(sent) \in Nat
        /\ sent \in Histories /\ toServer \in Bytes
        /\ Stream(Len(executed), Cat(read_str, toServer), sent, browser)
    BY <1>1 DEF Inv, TypeInv, OrderInv, Serving, Taken, Incoming, Reading, Histories
  <2>7. Len(executed) \in 0..Len(sent)
    BY <2>6
  <2>8. /\ Len(executed) < Len(sent) /\ sent[Len(executed) + 1] \in Commands
        /\ Decoded(read_str) = Request(sent[Len(executed) + 1])
        /\ Stream(Len(executed) + 1, toServer, sent, browser)
    BY <1>1, <2>1, <2>3, <2>4, <2>6, <2>7, StreamFirst DEF Histories
  <2>9. TypeInv'
    BY <1>3 DEF Inv, TypeInv
  <2>10. HeaderInv'
    BY <1>3 DEF HeaderInv
  <2>11. OrderInv'
    <3>1. Taken' = Len(executed) + 1 /\ Incoming' = toServer /\ pc' = "execute"
      BY <1>3 DEF Taken, Incoming, Reading
    <3>2. Len(executed) + 1 <= Len(sent)
      BY <2>6, <2>8
    <3>3. \A i \in 1..Len(executed) : executed[i] = sent[i]
      BY DEF Inv, OrderInv
    <3>. QED BY <1>3, <2>5, <2>6, <2>8, <3>1, <3>2, <3>3 DEF OrderInv
  <2>12. ReplyInv'
    <3>. SUFFICES ASSUME browser PROVE ReplyInv'
      BY <1>3 DEF ReplyInv
    <3>1. ~connection_closed /\ toClient = All(replied)
      BY <1>1 DEF Inv, ReplyInv
    <3>. QED BY <1>3, <3>1 DEF ReplyInv
  <2>. QED BY <2>9, <2>10, <2>11, <2>12 DEF Inv
<1>. QED BY <1>2, <1>3 DEF decode_raw_stream_cmd

-----------------------------------------------------------------------------
(* The session runs the command, and answers. *)

\* The loop goes on when all that is to be sent has been sent.
LEMMA NextFrameInv ==
    ASSUME Inv, NextFrame, pc \in {"execute", "send"},
           UNCHANGED << browser, toServer, toClient, exit_signal, connection_closed, sent >>,
           executed' \in Histories, replied' \in Seq(Nat), Len(executed') <= Len(sent),
           \A i \in 1..Len(executed') : executed'[i] = sent[i],
           Stream(Len(executed'), toServer, sent, browser),
           browser => toClient = All(replied')
    PROVE  Inv'
<1>1. /\ <<>> \in Bytes /\ Len(<<>>) = 0 /\ ExitFrame \in Bytes
      /\ toServer \in Bytes /\ Cat(<<>>, toServer) = toServer
  BY EmptyBytes, SentFrames, CatEmpty DEF Inv, TypeInv
<1>2. /\ pc' \in {"exit", "over", "header"} /\ read_str' = <<>> /\ expected' = 6
      /\ send_buf' \in {ExitFrame, <<>>}
  BY DEF NextFrame, ExitFrame
<1>3. TypeInv'
  BY <1>1, <1>2 DEF Inv, TypeInv
<1>4. HeaderInv'
  BY <1>1, <1>2 DEF HeaderInv
<1>5. OrderInv'
  <2>1. Taken' = Len(executed') /\ pc' # "handshake" /\ pc' # "execute"
    BY <1>2 DEF Taken
  <2>2. Serving' => Incoming' = toServer
    <3>1. Serving' => Reading'
      BY <1>2 DEF Serving, Reading
    <3>. QED BY <1>1, <1>2, <3>1 DEF Incoming
  <2>. QED BY <2>1, <2>2 DEF OrderInv
<1>6. ReplyInv'
  <2>. SUFFICES ASSUME browser PROVE ReplyInv'
    BY DEF ReplyInv
  <2>1. ~connection_closed /\ ~connection_closed' /\ toClient' = All(replied')
    BY DEF Inv, ReplyInv
  <2>2. CASE exit_signal
    <3>1. pc' = "exit" /\ send_buf' = ExitFrame
      BY <2>1, <2>2 DEF NextFrame, ExitFrame
    <3>. QED BY <2>1, <3>1 DEF ReplyInv
  <2>3. CASE ~exit_signal
    <3>1. pc' = "header"
      BY <2>1, <2>3 DEF NextFrame
    <3>. QED BY <2>1, <3>1 DEF ReplyInv
  <2>. QED BY <2>2, <2>3
<1>. QED BY <1>3, <1>4, <1>5, <1>6 DEF Inv

\* The command that runs is the one that was sent, and its reply comes next.
LEMMA ExecuteInv == ASSUME Inv, ExecuteCommand PROVE Inv'
<1>. DEFINE c == sent[Len(executed) + 1]
            n == Reply(FuncOf(cmd))
<1>1. pc = "execute" /\ Len(executed) \in Nat /\ Len(sent) \in Nat
      /\ sent \in Histories /\ executed \in Histories /\ replied \in Seq(Nat)
      /\ toClient \in Bytes
  BY DEF ExecuteCommand, Inv, TypeInv, Histories
<1>2. /\ Len(executed) + 1 <= Len(sent) /\ c \in Commands /\ cmd = Request(c)
      /\ Stream(Len(executed) + 1, toServer, sent, browser)
      /\ \A i \in 1..Len(executed) : executed[i] = sent[i]
  BY <1>1 DEF Inv, OrderInv, Serving, Taken, Incoming, Reading
<1>3. /\ executed' = Append(executed,
                            [class |-> ClassOf(cmd), func |-> FuncOf(cmd),
                             args |-> extract_args(Args(FuncOf(cmd)),
                                                   SubSeq(cmd, HeaderSize + 1, Len(cmd)))])
      /\ UNCHANGED << browser, toServer, toClient, exit_signal, header, connection_closed, sent >>
  BY Zenon DEF ExecuteCommand
<1>4. executed' = Append(executed, c) /\ n \in Nat
  <2>. HIDE DEF c
  <2>1. /\ [class |-> ClassOf(cmd), func |-> FuncOf(cmd),
            args |-> extract_args(Args(FuncOf(cmd)),
                                  SubSeq(cmd, HeaderSize + 1, Len(cmd)))] = c
        /\ FuncOf(cmd) = c.func /\ Reply(c.func) \in Nat
    BY <1>2, RequestReadsBack, Zenon
  <2>. QED BY <1>3, <2>1, Zenon
<1>5. /\ executed' \in Histories /\ Len(executed') = Len(executed) + 1
      /\ \A i \in 1..Len(executed') : executed'[i] = sent[i]
  <2>1. c \in Commands \cup {NoCommand} /\ executed \in Seq(Commands \cup {NoCommand})
    BY <1>1, <1>2 DEF Histories
  <2>. DEFINE d == c
  <2>. HIDE DEF d
  <2>2. d \in Commands \cup {NoCommand} /\ executed' = Append(executed, d)
    BY <1>4, <2>1 DEF d
  <2>3. /\ executed' \in Seq(Commands \cup {NoCommand}) /\ Len(executed') = Len(executed) + 1
        /\ \A i \in 1..Len(executed) : executed'[i] = executed[i]
        /\ executed'[Len(executed) + 1] = d
    BY <2>1, <2>2
  <2>4. ASSUME NEW i \in 1..Len(executed') PROVE executed'[i] = sent[i]
    <3>1. CASE i \in 1..Len(executed)
      BY <1>2, <2>3, <3>1
    <3>2. CASE i = Len(executed) + 1
      BY <2>3, <3>2 DEF d
    <3>. QED BY <1>1, <2>3, <3>1, <3>2
  <2>. QED BY <2>3, <2>4 DEF Histories
<1>6. browser => ~connection_closed /\ toClient = All(replied)
  BY <1>1 DEF Inv, ReplyInv
<1>7. CASE /\ replied' = Append(replied, n)
           /\ send_buf' = ReplyFrame(n) /\ pc' = "send"
           /\ UNCHANGED <<read_str, expected>>
  <2>1. /\ replied' \in Seq(Nat) /\ All(replied') = Cat(All(replied), ReplyFrame(n))
        /\ ReplyFrame(n) \in Bytes
    BY <1>1, <1>4, <1>7, Replies, SentFrames
  <2>. HIDE DEF c, n
  <2>2. TypeInv'
    BY <1>3, <1>5, <1>7, <2>1 DEF Inv, TypeInv
  <2>3. HeaderInv'
    BY <1>7 DEF HeaderInv
  <2>4. OrderInv'
    <3>1. Taken' = Len(executed) + 1 /\ Incoming' = toServer /\ pc' = "send"
      BY <1>3, <1>5, <1>7 DEF Taken, Incoming, Reading
    <3>. QED BY <1>2, <1>3, <1>5, <3>1 DEF OrderInv
  <2>5. ReplyInv'
    BY <1>3, <1>6, <1>7, <2>1 DEF ReplyInv
  <2>. QED BY <2>2, <2>3, <2>4, <2>5 DEF Inv
<1>8. CASE NextFrame /\ UNCHANGED replied
  <2>. HIDE DEF c, n
  <2>. QED BY <1>1, <1>2, <1>3, <1>5, <1>6, <1>8, NextFrameInv
<1>. QED BY <1>7, <1>8 DEF ExecuteCommand

\* The socket takes a part of what is to be sent.
LEMMA SendRequestInv == ASSUME Inv, send_request PROVE Inv'
<1>1. PICK n \in {k \in Cuts \cup {Len(send_buf)} : k \in 1..Len(send_buf)} :
            /\ toClient' = toClient \o SubSeq(send_buf, 1, n)
            /\ send_buf' = SubSeq(send_buf, n + 1, Len(send_buf))
  BY DEF send_request
<1>. DEFINE a == SubSeq(send_buf, 1, n)
            d == SubSeq(send_buf, n + 1, Len(send_buf))
<1>2. send_buf \in Bytes /\ toClient \in Bytes /\ n \in Nat /\ n <= Len(send_buf)
  BY DEF Inv, TypeInv
<1>3. a \in Bytes /\ d \in Bytes /\ send_buf = Cat(a, d)
  BY <1>2, Cutting
<1>4. toClient' = Cat(toClient, a) /\ send_buf' = d
  BY <1>1, Zenon DEF Cat
<1>. HIDE DEF a, d
<1>5. /\ pc \in {"send", "exit"}
      /\ UNCHANGED << browser, toServer, exit_signal, cmd, pc, read_str, expected, header,
                      connection_closed, sent, executed, replied >>
  BY DEF send_request
<1>6. Cat(toClient, a) \in Bytes /\ Cat(Cat(toClient, a), d) = Cat(toClient, Cat(a, d))
  BY <1>2, <1>3, CatBytes, CatAssociative
<1>7. TypeInv'
  BY <1>3, <1>4, <1>5, <1>6 DEF Inv, TypeInv
<1>8. HeaderInv' /\ OrderInv'
  BY <1>5, Stay DEF Inv, headerVars, orderVars
<1>9. ReplyInv'
  <2>1. Cat(toClient', send_buf') = Cat(toClient, send_buf)
    BY <1>3, <1>4, <1>6
  <2>. QED BY <1>5, <2>1 DEF Inv, ReplyInv
<1>. QED BY <1>7, <1>8, <1>9 DEF Inv

\* The client is gone, and the rest is not sent.
LEMMA SendFailsInv == ASSUME Inv, SendFails PROVE Inv'
<1>1. TypeInv'
  BY EmptyBytes DEF Inv, TypeInv, SendFails
<1>2. HeaderInv' /\ OrderInv'
  BY Stay DEF Inv, SendFails, headerVars, orderVars
<1>3. ReplyInv'
  BY DEF ReplyInv, SendFails
<1>. QED BY <1>1, <1>2, <1>3 DEF Inv

\* All of it is sent.
LEMMA SentInv == ASSUME Inv, Sent PROVE Inv'
<1>1. /\ pc \in {"send", "exit"} /\ send_buf = <<>> /\ toClient \in Bytes
      /\ UNCHANGED << browser, toServer, toClient, exit_signal, cmd, header, connection_closed,
                      sent, executed, replied >>
  BY DEF Sent, Inv, TypeInv
<1>2. Cat(toClient, send_buf) = toClient
  BY <1>1, CatEmpty
<1>3. CASE pc = "send"
  <2>1. /\ Len(executed) <= Len(sent) /\ \A i \in 1..Len(executed) : executed[i] = sent[i]
        /\ Stream(Len(executed), toServer, sent, browser)
    BY <1>3 DEF Inv, OrderInv, Serving, Taken, Incoming, Reading
  <2>2. executed' \in Histories /\ replied' \in Seq(Nat)
    BY <1>1 DEF Inv, TypeInv
  <2>3. browser => toClient = All(replied')
    BY <1>1, <1>2, <1>3 DEF Inv, ReplyInv
  <2>4. NextFrame
    BY <1>3 DEF Sent
  <2>5. /\ Len(executed') <= Len(sent) /\ \A i \in 1..Len(executed') : executed'[i] = sent[i]
        /\ Stream(Len(executed'), toServer, sent, browser)
    BY <1>1, <2>1
  <2>. QED BY <1>1, <1>3, <2>2, <2>3, <2>4, <2>5, NextFrameInv
<1>4. CASE pc = "exit"
  <2>1. pc' = "over" /\ UNCHANGED <<send_buf, read_str, expected>>
    BY <1>4 DEF Sent
  <2>2. TypeInv'
    BY <1>1, <2>1 DEF Inv, TypeInv
  <2>3. HeaderInv'
    BY <2>1 DEF HeaderInv
  <2>4. OrderInv'
    BY <1>1, <2>1 DEF Inv, OrderInv, Serving, Reading
  <2>5. ReplyInv'
    BY <1>1, <1>2, <1>4, <2>1 DEF Inv, ReplyInv
  <2>. QED BY <2>2, <2>3, <2>4, <2>5 DEF Inv
<1>. QED BY <1>1, <1>3, <1>4

-----------------------------------------------------------------------------

\* Every step keeps the invariant.
LEMMA NextInv == Inv /\ [Next]_vars => Inv'
<1>. SUFFICES ASSUME Inv, [Next]_vars PROVE Inv'
  OBVIOUS
<1>1. ASSUME NEW c \in Commands, NEW mask \in Masks, SendCommand(c, mask) PROVE Inv'
  BY <1>1, BrowserSends, SendsInv
<1>2. ASSUME NEW o \in Odd, SendOdd(o) PROVE Inv'
  BY <1>2, BrowserSends, SendsInv
<1>3. CASE Leave
  BY <1>3, LeaveInv
<1>4. CASE Exit
  BY <1>4, ExitInv
<1>5. ASSUME NEW whole \in BOOLEAN, authenticate(whole) PROVE Inv'
  BY <1>5, AuthenticateInv
<1>6. CASE SessionStep
  <2>1. CASE read_n_bytes
    BY <2>1, ReadBytesInv
  <2>2. CASE ConnectionClosed
    BY <2>2, ConnectionClosedInv
  <2>3. CASE read_header
    BY <2>3, ReadHeaderInv
  <2>4. CASE read_length
    BY <2>4, ReadLengthInv
  <2>5. CASE decode_raw_stream_cmd
    BY <2>5, DecodeInv
  <2>6. CASE ExecuteCommand
    BY <2>6, ExecuteInv
  <2>7. CASE send_request
    BY <2>7, SendRequestInv
  <2>8. CASE SendFails
    BY <2>8, SendFailsInv
  <2>9. CASE Sent
    BY <2>9, SentInv
  <2>. QED BY <1>6, <2>1, <2>2, <2>3, <2>4, <2>5, <2>6, <2>7, <2>8, <2>9 DEF SessionStep
<1>7. CASE UNCHANGED vars
  BY <1>7, Stay DEF Inv, vars, typeVars, headerVars, orderVars, replyVars
<1>. QED BY <1>1, <1>2, <1>3, <1>4, <1>5, <1>6, <1>7 DEF Next

\* The invariant: what is on its way to the session is, from the frame that it
\* reads on, the frames of the commands that it has not taken, and what is on its
\* way to the client completes the replies (websocket.cpp:161-412).
THEOREM FramesInOrder == Spec => []Inv
<1>. QED BY InitInv, NextInv, PTL DEF Spec

\* A read never leaves read_str, whatever length a frame says
\* (websocket.cpp:180-374).
THEOREM ReadsStayInBuffer == Spec => []InBuffer
<1>1. Inv => InBuffer
  BY InvGives
<1>. QED BY <1>1, FramesInOrder, PTL

\* The session runs the commands that were sent, with their arguments, in their
\* order, each once (websocket.cpp:161-374, commands.hpp).
THEOREM CommandsRunInOrder == Spec => []InOrder
<1>1. Inv => InOrder
  BY InvGives
<1>. QED BY <1>1, FramesInOrder, PTL

\* The client gets whole replies, in their order (websocket.cpp:386-412).
THEOREM RepliesComeWhole == Spec => []RepliesWhole
<1>1. Inv => RepliesWhole
  BY InvGives
<1>. QED BY <1>1, FramesInOrder, PTL
=============================================================================

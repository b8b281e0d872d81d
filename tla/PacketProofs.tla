---------------------------- MODULE PacketProofs ----------------------------
(***************************************************************************)
(* Proofs about the bytes that serialize writes and the dissector reads:   *)
(* the digits of an integer determine it, and every piece of a packet      *)
(* stands at a fixed offset.                                               *)
(***************************************************************************)
EXTENDS WireFormat, SequenceTheorems, TLAPS

\* Bytes that are swapped twice are where they were.
LEMMA SwappedTwice ==
  ASSUME NEW n, NEW w \in Nat
  PROVE  Reverse(Reverse(Word(n, w))) = Word(n, w)
<1> DEFINE word == Word(n, w)
           back == Reverse(word)
<1>1. DOMAIN word = 1 .. w /\ Len(word) = w
  BY DEF Word
<1>2. DOMAIN back = 1 .. w /\ Len(back) = w
  BY <1>1 DEF Reverse
<1>3. \A i \in 1 .. w : back[i] = word[(w - i) + 1] /\ (w - i) + 1 \in 1 .. w
  BY <1>1 DEF Reverse
<1>4. word = [i \in 1 .. w |-> word[i]]
  BY DEF Word
<1> HIDE DEF word, back
<1>5. \A i \in 1 .. w : back[(w - i) + 1] = word[i]
  BY <1>3
<1>6. Reverse(back) = [i \in 1 .. w |-> word[i]]
  BY <1>2, <1>5 DEF Reverse
<1> QED BY <1>4, <1>6 DEF word, back

\* to_bigendian and to_littleendian cancel what std::bit_cast shows of the host.
LEMMA BigEndianImage ==
  ASSUME NEW n, NEW w \in Nat, NEW native \in HostEndianness
  PROVE  to_byte_array(to_bigendian(Word(n, w), native), native) = Word(n, w)
BY SwappedTwice DEF to_byte_array, to_bigendian, byteswap, HostEndianness

\* to_littleendian yields the same image on every host, least significant digit
\* first.
LEMMA LittleEndianImage ==
  ASSUME NEW n, NEW w \in Nat, NEW native \in HostEndianness
  PROVE  to_byte_array(to_littleendian(Word(n, w), native), native) = Reverse(Word(n, w))
BY DEF to_byte_array, to_littleendian, byteswap, HostEndianness

------------------------------------------------------------------------------
(***************************************************************************)
(* The parts of a packet, as they are on the wire.                         *)
(***************************************************************************)
Section(host, port) ==
  Reverse(Word(IF host.v = 6 THEN 10 ELSE 2, 2))
    \o Word(port, 2)
    \o Zeros(4)
    \o host.bytes
    \o Zeros(IF host.v = 6 THEN 104 ELSE 116)

Fixed(s) ==
  MPING_STATE_VERSION
    \o <<s.type>>
    \o Word(s.ttl, 1)
    \o Zeros(2)
    \o Section(s.src_host, s.src_port)
    \o Section(s.dest_host, s.dest_port)

\* A host section does not depend on the endianness of the host.
LEMMA SectionImage ==
  ASSUME NEW host, NEW port, NEW native \in HostEndianness
  PROVE  SockaddrStorage(host, port, native) = Section(host, port)
BY ZenonT(60), BigEndianImage, LittleEndianImage
DEF SockaddrStorage, Section, ipv6_to_sockaddr_storage, ipv4_to_sockaddr_storage

\* serialize writes the fixed part, then the counters and the time.
LEMMA SerializeImage ==
  ASSUME NEW s, NEW native \in HostEndianness
  PROVE  serialize(s, native) =
           Fixed(s) \o Word(s.seq, 4) \o Word(s.pid, 4)
             \o Word(get_seconds(s), 8) \o Word(get_microseconds(s), 8)
BY Zenon, BigEndianImage, SectionImage DEF serialize, Fixed

------------------------------------------------------------------------------
(***************************************************************************)
(* Lengths.  A packet mixes characters and numbers, so each sequence is    *)
(* typed by what it contains.                                              *)
(***************************************************************************)
IsSeq(p) == p \in Seq(Range(p))

\* The words and zeros that serialize writes are sequences of their width.
LEMMA Pieces ==
  ASSUME NEW n, NEW w \in Nat
  PROVE  /\ IsSeq(Word(n, w)) /\ Len(Word(n, w)) = w
         /\ IsSeq(Reverse(Word(n, w))) /\ Len(Reverse(Word(n, w))) = w
         /\ IsSeq(Zeros(w)) /\ Len(Zeros(w)) = w
<1>1. ASSUME NEW p, p = [i \in 1 .. w |-> p[i]]
      PROVE  IsSeq(p) /\ Len(p) = w
  <2>1. DOMAIN p = 1 .. w
    BY <1>1
  <2>2. p \in [1 .. w -> Range(p)]
    BY <1>1, <2>1 DEF Range
  <2> QED BY <2>1, <2>2 DEF IsSeq
<1>2. IsSeq(Word(n, w)) /\ Len(Word(n, w)) = w
  BY <1>1 DEF Word
<1>3. IsSeq(Reverse(Word(n, w))) /\ Len(Reverse(Word(n, w))) = w
  BY <1>1, <1>2 DEF Reverse
<1>4. IsSeq(Zeros(w)) /\ Len(Zeros(w)) = w
  BY <1>1 DEF Zeros
<1> QED BY <1>2, <1>3, <1>4

\* Two pieces, one after the other: the first stays where it is.
LEMMA Joined ==
  ASSUME NEW p, NEW q, IsSeq(p), IsSeq(q)
  PROVE  /\ IsSeq(p \o q)
         /\ Len(p) \in Nat /\ Len(q) \in Nat
         /\ Len(p \o q) = Len(p) + Len(q)
         /\ \A i \in 1 .. Len(p) : (p \o q)[i] = p[i]
<1> DEFINE S == Range(p) \union Range(q)
<1>1. p \in Seq(S) /\ q \in Seq(S)
  <2>1. p \in [1 .. Len(p) -> Range(p)] /\ Len(p) \in Nat
    BY LenProperties DEF IsSeq
  <2>2. q \in [1 .. Len(q) -> Range(q)] /\ Len(q) \in Nat
    BY LenProperties DEF IsSeq
  <2> HIDE DEF S
  <2>3. p \in [1 .. Len(p) -> S] /\ q \in [1 .. Len(q) -> S]
    BY <2>1, <2>2 DEF S
  <2> QED BY <2>1, <2>2, <2>3
<1> HIDE DEF S
<1>2. Len(p) \in Nat /\ Len(q) \in Nat
  BY <1>1, LenProperties
<1>3. /\ p \o q \in Seq(S)
      /\ Len(p \o q) = Len(p) + Len(q)
      /\ \A i \in 1 .. Len(p) + Len(q) :
           (p \o q)[i] = IF i <= Len(p) THEN p[i] ELSE q[i - Len(p)]
  BY <1>1, ConcatProperties
<1>4. IsSeq(p \o q)
  <2> DEFINE r == p \o q
  <2>1. r \in [1 .. Len(r) -> S] /\ Len(r) \in Nat
    BY ZenonT(60), <1>3, LenProperties
  <2> HIDE DEF r
  <2>2. r \in [1 .. Len(r) -> Range(r)]
    BY <2>1 DEF Range
  <2>3. r \in Seq(Range(r))
    BY <2>1, <2>2
  <2> QED BY <2>3 DEF r, IsSeq
<1>5. \A i \in 1 .. Len(p) : (p \o q)[i] = p[i]
  BY <1>2, <1>3
<1> QED BY <1>2, <1>3, <1>4, <1>5

\* A sequence of n items.
Sized(p, n) == IsSeq(p) /\ Len(p) = n

\* Lengths add up.
LEMMA SizesAdd ==
  ASSUME NEW p, NEW q, NEW m \in Nat, NEW n \in Nat, NEW k, k = m + n,
         Sized(p, m), Sized(q, n)
  PROVE  Sized(p \o q, k)
BY Joined DEF Sized

------------------------------------------------------------------------------
(***************************************************************************)
(* Digits.                                                                 *)
(***************************************************************************)

\* What integer division leaves.
LEMMA Division ==
  ASSUME NEW a \in Nat, NEW n \in Nat \ {0}
  PROVE  \E q, r \in Nat : r < n /\ a = n * q + r /\ q = a \div n
OBVIOUS

\* The quotient is the only one.
LEMMA Quotient ==
  ASSUME NEW a \in Nat, NEW n \in Nat \ {0}, NEW q \in Nat, NEW r \in Nat,
         r < n, a = n * q + r
  PROVE  a \div n = q
OBVIOUS

\* Ticks of whole seconds and microseconds.
LEMMA Distributed ==
  ASSUME NEW n \in Nat, NEW m \in Nat, NEW q \in Nat, NEW u \in Nat
  PROVE  n * (q * m + u) = (n * m) * q + n * u
OBVIOUS

\* Dividing twice is dividing by the product.
LEMMA DividedTwice ==
  ASSUME NEW n \in Nat, NEW a \in Nat \ {0}, NEW b \in Nat \ {0}
  PROVE  n \div (a * b) = (n \div a) \div b
<1>1. PICK q, r \in Nat : r < a /\ n = a * q + r /\ q = n \div a
  BY ZenonT(60), Division
<1>2. PICK p, s \in Nat : s < b /\ q = b * p + s /\ p = q \div b
  BY ZenonT(60), Division
<1>3. a * b \in Nat \ {0} /\ a * s \in Nat
  BY <1>2
<1>4. a * s + r < a * b
  <2>1. a * (s + 1) <= a * b
    BY <1>2
  <2>2. a * (s + 1) = a * s + a
    BY <1>2
  <2> QED BY <1>1, <1>3, <2>1, <2>2
<1>5. n = (a * b) * p + (a * s + r)
  <2> DEFINE whole == (a * b) * p
             part == a * s
  <2>1. q = p * b + s
    BY <1>2
  <2>2. a * q = whole + part
    <3>1. a \in Nat /\ b \in Nat /\ p \in Nat /\ s \in Nat
      BY <1>2
    <3>2. a * (p * b + s) = (a * b) * p + a * s
      BY <3>1, Distributed
    <3> QED BY Zenon, <2>1, <3>2
  <2>3. whole \in Nat /\ part \in Nat
    BY <1>2, <1>3
  <2> HIDE DEF whole, part
  <2>4. n = whole + (part + r)
    BY <1>1, <2>2, <2>3
  <2> QED BY <2>4 DEF whole, part
<1>6. a * s + r \in Nat
  BY <1>1, <1>3
<1>7. n \div (a * b) = p
  BY ZenonT(60), <1>2, <1>3, <1>4, <1>5, <1>6, Quotient
<1> QED BY Zenon, <1>1, <1>2, <1>7

\* A digit, and what is left above it.
LEMMA DigitOf ==
  ASSUME NEW n \in Nat, NEW a \in Nat \ {0}
  PROVE  \E high \in Nat, digit \in 0 .. a - 1 :
           n = high * a + digit /\ high = n \div a /\ digit = n % a
<1>1. PICK q, r \in Nat : r < a /\ n = a * q + r /\ q = n \div a
  BY ZenonT(60), Division
<1>2. r = n % a
  BY <1>1
<1>3. n = q * a + r
  BY <1>1
<1>4. r \in 0 .. a - 1
  BY <1>1
<1> QED BY Zenon, <1>1, <1>2, <1>3, <1>4

\* A number below a product has a quotient below the other factor.
LEMMA QuotientBelow ==
  ASSUME NEW n \in Nat, NEW a \in Nat \ {0}, NEW b \in Nat, n < b * a
  PROVE  n \div a < b
<1>1. PICK q, r \in Nat : r < a /\ n = a * q + r /\ q = n \div a
  BY ZenonT(60), Division
<1>2. CASE q >= b
  <2>1. a * q >= a * b
    BY <1>1, <1>2
  <2>2. a * q \in Nat /\ a * b \in Nat
    BY <1>1
  <2> QED BY <1>1, <2>1, <2>2
<1> QED BY <1>1, <1>2
\* What is left of a number above its lowest k - 1 digits, and its k-th digit.
High(n, k) == n \div Weight[k]
Digit(n, k) == High(n, k) % Radix

\* Each digit counts Radix times as much as the one below it.
LEMMA Weights ==
  /\ Weight[1] = 1
  /\ \A k \in 1 .. 8 : Weight[k] \in Nat \ {0}
  /\ \A k \in 1 .. 7 : Weight[k + 1] = Weight[k] * Radix
<1> DEFINE R == Radix
           R2 == R * R
           R3 == R2 * R
           R4 == R3 * R
           R5 == R4 * R
           R6 == R5 * R
           R7 == R6 * R
<1>1. R \in Nat \ {0}
  BY RadixAssumption
<1>2. Weight = <<1, R, R2, R3, R4, R5, R6, R7>>
  BY Zenon DEF Weight
<1> HIDE DEF R
<1>3. R2 \in Nat \ {0}
  BY <1>1
<1> HIDE DEF R2
<1>4. R3 \in Nat \ {0}
  BY <1>1, <1>3
<1> HIDE DEF R3
<1>5. R4 \in Nat \ {0}
  BY <1>1, <1>4
<1> HIDE DEF R4
<1>6. R5 \in Nat \ {0}
  BY <1>1, <1>5
<1> HIDE DEF R5
<1>7. R6 \in Nat \ {0}
  BY <1>1, <1>6
<1> HIDE DEF R6
<1>8. R7 \in Nat \ {0}
  BY <1>1, <1>7
<1> HIDE DEF R7
<1>9. /\ Weight[1] = 1 /\ Weight[2] = R /\ Weight[3] = R2 /\ Weight[4] = R3
      /\ Weight[5] = R4 /\ Weight[6] = R5 /\ Weight[7] = R6 /\ Weight[8] = R7
  BY <1>2
<1>10. \A k \in 1 .. 8 : Weight[k] \in Nat \ {0}
  BY <1>1, <1>3, <1>4, <1>5, <1>6, <1>7, <1>8, <1>9
<1>11. R = 1 * R
  BY <1>1
<1>12. /\ R2 = R * R /\ R3 = R2 * R /\ R4 = R3 * R
       /\ R5 = R4 * R /\ R6 = R5 * R /\ R7 = R6 * R
  BY DEF R2, R3, R4, R5, R6, R7
<1>13. \A k \in 1 .. 7 : Weight[k + 1] = Weight[k] * R
  <2> TAKE k \in 1 .. 7
  <2>1. k = 1 \/ k = 2 \/ k = 3 \/ k = 4 \/ k = 5 \/ k = 6 \/ k = 7
    OBVIOUS
  <2> QED BY <2>1, <1>9, <1>11, <1>12
<1> QED BY <1>9, <1>10, <1>13 DEF R

\* A digit is a byte; with what is left above it, it is what is left from it on.
LEMMA OneDigit ==
  ASSUME NEW n \in Nat, NEW k \in 1 .. 7
  PROVE  /\ High(n, k) \in Nat /\ High(n, k + 1) \in Nat
         /\ Digit(n, k) \in Byte
         /\ High(n, k) = High(n, k + 1) * Radix + Digit(n, k)
<1> DEFINE w == Weight[k]
           h == n \div w
           d == h % Radix
           above == High(n, k + 1)
<1>1. w \in Nat \ {0} /\ Weight[k + 1] = w * Radix /\ Radix \in Nat \ {0}
  BY Weights, RadixAssumption
<1>2. High(n, k) = h /\ Digit(n, k) = d
  BY DEF High, Digit
<1> HIDE DEF w
<1>3. h \in Nat
  BY <1>1
<1>4. above = h \div Radix
  <2>1. n \div (w * Radix) = (n \div w) \div Radix
    BY <1>1, DividedTwice
  <2> QED BY <1>1, <2>1 DEF High
<1>5. d = h % Radix
  OBVIOUS
<1> HIDE DEF h, d, above
<1>6. above \in Nat /\ d \in 0 .. Radix - 1 /\ h = above * Radix + d
  <2>1. Radix \in Nat \ {0}
    BY RadixAssumption
  <2>2. PICK high \in Nat, digit \in 0 .. Radix - 1 :
          h = high * Radix + digit /\ high = h \div Radix /\ digit = h % Radix
    BY ZenonT(60), <2>1, <1>3, DigitOf
  <2> QED BY Zenon, <2>2, <1>4, <1>5
<1> QED BY Zenon, <1>2, <1>3, <1>6 DEF Byte, above
\* The digits of a word are bytes, the least significant last.
LEMMA WordDigits ==
  ASSUME NEW n \in Nat, NEW w \in 1 .. 8
  PROVE  /\ Len(Word(n, w)) = w
         /\ \A k \in 0 .. w - 1 : Word(n, w)[w - k] = Digit(n, k + 1)
         /\ \A i \in 1 .. w : Word(n, w)[i] \in Byte
<1>1. \A k \in 1 .. 8 : Digit(n, k) \in Byte
  <2> TAKE k \in 1 .. 8
  <2> DEFINE v == Weight[k]
             h == n \div v
  <2>1. v \in Nat \ {0} /\ Radix \in Nat \ {0}
    BY Weights, RadixAssumption
  <2>2. Digit(n, k) = h % Radix
    BY DEF Digit, High
  <2> HIDE DEF v
  <2>3. h \in Nat
    BY <2>1
  <2> HIDE DEF h
  <2>4. h % Radix \in 0 .. Radix - 1
    BY <2>1, <2>3
  <2> QED BY <2>2, <2>4 DEF Byte
<1>2. Word(n, w) = [i \in 1 .. w |-> Digit(n, w - i + 1)]
  BY Zenon DEF Word, Digit, High
<1>3. \A i \in 1 .. w : w - i + 1 \in 1 .. 8
  OBVIOUS
<1>4. Len(Word(n, w)) = w
  BY <1>2
<1>5. \A i \in 1 .. w : Word(n, w)[i] = Digit(n, w - i + 1)
  BY Zenon, <1>2
<1>6. \A k \in 0 .. w - 1 : w - k \in 1 .. w /\ w - (w - k) + 1 = k + 1
  OBVIOUS
<1>7. \A k \in 0 .. w - 1 : Word(n, w)[w - k] = Digit(n, k + 1)
  <2> TAKE k \in 0 .. w - 1
  <2>1. Word(n, w)[w - k] = Digit(n, w - (w - k) + 1)
    BY Zenon, <1>5, <1>6
  <2> QED BY Zenon, <1>6, <2>1
<1>8. \A i \in 1 .. w : Word(n, w)[i] \in Byte
  BY Zenon, <1>1, <1>3, <1>5
<1> QED BY Zenon, <1>4, <1>7, <1>8

\* The number has no more than w digits.
Fits(n, w) == n \in Nat /\ High(n, w) < Radix

\* The digits of a number, read by Value, are the number again.
LEMMA ReadBack ==
  ASSUME NEW n, NEW w \in {1, 2, 4, 8}, Fits(n, w)
  PROVE  Value(Word(n, w)) = n
<1> DEFINE word == Word(n, w)
           D(k) == IF k < Len(word) THEN word[Len(word) - k] ELSE 0
           R == Radix
           H(k) == High(n, k)
<1>1. n \in Nat /\ H(w) < R /\ w \in 1 .. 8 /\ R \in Nat
  BY RadixAssumption DEF Fits
<1>2. /\ Len(word) = w
      /\ \A k \in 0 .. w - 1 : word[w - k] = Digit(n, k + 1)
  BY Zenon, <1>1, WordDigits
<1>3. \A k \in 0 .. 7 : D(k) = IF k < w THEN Digit(n, k + 1) ELSE 0
  BY <1>1, <1>2
<1>4. Value(word) =
        ((((((D(7)*R + D(6))*R + D(5))*R + D(4))*R + D(3))*R + D(2))*R + D(1))*R + D(0)
  BY Zenon DEF Value
<1>5. \A k \in 1 .. 7 : /\ H(k) \in Nat /\ H(k + 1) \in Nat
                        /\ H(k) = H(k + 1) * R + Digit(n, k)
  BY ZenonT(60), <1>1, OneDigit
<1>6. Digit(n, w) = H(w)
  <2>1. H(w) \in Nat
    BY <1>5
  <2> QED BY <1>1, <2>1 DEF Digit
<1>7. H(1) = n
  BY <1>1, Weights DEF High
<1> HIDE DEF word, D, H, R
<1>8. \A k \in 1 .. 7 : k < w => D(k - 1) = Digit(n, k) /\ H(k) = H(k + 1) * R + D(k - 1)
  <2> TAKE k \in 1 .. 7
  <2> HAVE k < w
  <2>1. k - 1 \in 0 .. 7 /\ k - 1 < w /\ (k - 1) + 1 = k
    BY <1>1
  <2>2. D(k - 1) = Digit(n, k)
    BY <1>3, <2>1
  <2> QED BY Zenon, <1>5, <2>2
<1>9. D(w - 1) = H(w)
  <2>1. w - 1 \in 0 .. 7 /\ w - 1 < w /\ (w - 1) + 1 = w
    BY <1>1
  <2> QED BY <1>3, <1>6, <2>1
<1>10. \A k \in 0 .. 7 : w <= k => D(k) = 0
  BY <1>1, <1>3
<1>11. 0 * R + 0 = 0 /\ H(w) \in Nat /\ 0 * R + H(w) = H(w)
  BY <1>1, <1>5
<1>12. CASE w = 1
  <2>1. D(0) = H(1) /\ D(1) = 0 /\ D(2) = 0 /\ D(3) = 0
    BY <1>9, <1>10, <1>12
  <2>2. D(4) = 0 /\ D(5) = 0 /\ D(6) = 0 /\ D(7) = 0
    BY <1>10, <1>12
  <2> QED BY Zenon, <1>4, <1>7, <1>11, <1>12, <2>1, <2>2 DEF word
<1>13. CASE w = 2
  <2>1. D(1) = H(2) /\ H(1) = H(2) * R + D(0)
    BY <1>8, <1>9, <1>13
  <2>2. D(2) = 0 /\ D(3) = 0 /\ D(4) = 0 /\ D(5) = 0 /\ D(6) = 0 /\ D(7) = 0
    BY <1>10, <1>13
  <2> QED BY Zenon, <1>4, <1>7, <1>11, <1>13, <2>1, <2>2 DEF word
<1>14. CASE w = 4
  <2>1. /\ D(3) = H(4) /\ H(3) = H(4) * R + D(2)
        /\ H(2) = H(3) * R + D(1) /\ H(1) = H(2) * R + D(0)
    BY <1>8, <1>9, <1>14
  <2>2. D(4) = 0 /\ D(5) = 0 /\ D(6) = 0 /\ D(7) = 0
    BY <1>10, <1>14
  <2> QED BY Zenon, <1>4, <1>7, <1>11, <1>14, <2>1, <2>2 DEF word
<1>15. CASE w = 8
  <2>1. /\ D(7) = H(8) /\ H(7) = H(8) * R + D(6)
        /\ H(6) = H(7) * R + D(5) /\ H(5) = H(6) * R + D(4)
    BY <1>8, <1>9, <1>15
  <2>2. /\ H(4) = H(5) * R + D(3) /\ H(3) = H(4) * R + D(2)
        /\ H(2) = H(3) * R + D(1) /\ H(1) = H(2) * R + D(0)
    BY <1>8, <1>15
  <2> QED BY Zenon, <1>4, <1>7, <2>1, <2>2 DEF word
<1> QED BY <1>12, <1>13, <1>14, <1>15

\* Every member of an MPingState fits into the bytes that serialize gives it.
LEMMA Fitting ==
  /\ \A n \in Byte : Fits(n, 1)
  /\ \A n \in Port : Fits(n, 2)
  /\ \A n \in 0 .. SeqMax : Fits(n, 4)
  /\ \A n \in Ticks : Fits(n, 8)
<1> DEFINE R == Radix
           R2 == R * R
           R3 == R2 * R
           R4 == R3 * R
<1>1. R \in Nat \ {0} /\ R > 10 /\ SeqMax + 1 = R4
  BY RadixAssumption
<1>2. Weight[1] = 1 /\ Weight[2] = R /\ Weight[4] = R3 /\ Weight[8] = R4 * R3
  <2>1. Weight[8] = R4 * R * R * R
    BY DEF Weight
  <2>2. R4 * R * R * R = R4 * R3
    BY <1>1
  <2> QED BY <2>1, <2>2 DEF Weight
<1>3. R3 \in Nat \ {0} /\ R4 \in Nat \ {0} /\ R4 = R * R3
  BY <1>1
<1>4. ASSUME NEW n \in Byte PROVE Fits(n, 1)
  BY <1>1, <1>2 DEF Byte, Fits, High
<1>5. ASSUME NEW n \in Port PROVE Fits(n, 2)
  <2>1. n \in Nat /\ n < R * R
    BY <1>1 DEF Port
  <2> QED BY <1>1, <1>2, <2>1, QuotientBelow DEF Fits, High
<1> HIDE DEF R3, R4
<1>6. ASSUME NEW n \in 0 .. SeqMax PROVE n \in Nat /\ n \div R3 < R
  <2>1. n \in Nat /\ n < R * R3
    BY <1>1, <1>3, SeqMaxAssumption
  <2> QED BY <1>1, <1>3, <2>1, QuotientBelow
<1>7. ASSUME NEW n \in 0 .. SeqMax PROVE Fits(n, 4)
  BY <1>2, <1>6 DEF Fits, High
<1>8. ASSUME NEW n \in Ticks PROVE Fits(n, 8)
  <2>1. n \in Nat /\ n \div R4 \in 0 .. SeqMax
    BY <1>1, <1>3, SeqMaxAssumption DEF Ticks
  <2>2. (n \div R4) \div R3 < R
    BY <1>6, <2>1
  <2>3. n \div (R4 * R3) = (n \div R4) \div R3
    BY <1>3, <2>1, DividedTwice
  <2> QED BY <1>2, <2>1, <2>2, <2>3 DEF Fits, High
<1> QED BY <1>4, <1>5, <1>7, <1>8

------------------------------------------------------------------------------
(***************************************************************************)
(* Where the pieces of a packet stand.                                     *)
(***************************************************************************)

\* p has the n items of q from offset k on.
Holds(p, k, q, n) == Sized(q, n) /\ \A i \in 1 .. n : p[k + i] = q[i]

\* What is appended stands at the end of what was there.
LEMMA HeldLast ==
  ASSUME NEW p, NEW q, NEW m \in Nat, NEW n \in Nat, Sized(p, m), Sized(q, n)
  PROVE  Holds(p \o q, m, q, n)
<1> DEFINE S == Range(p) \union Range(q)
<1>1. p \in [1 .. m -> Range(p)] /\ q \in [1 .. n -> Range(q)] /\ Len(p) = m /\ Len(q) = n
  BY LenProperties DEF Sized, IsSeq
<1>2. p \in [1 .. m -> S] /\ q \in [1 .. n -> S]
  BY <1>1
<1>3. p \in Seq(S) /\ q \in Seq(S)
  BY <1>2
<1> HIDE DEF S
<1>4. \A i \in 1 .. m + n : (p \o q)[i] = IF i <= m THEN p[i] ELSE q[i - m]
  BY Zenon, <1>1, <1>3, ConcatProperties
<1>5. \A i \in 1 .. n : m + i \in 1 .. m + n /\ ~ (m + i <= m) /\ (m + i) - m = i
  OBVIOUS
<1>6. \A i \in 1 .. n : (p \o q)[m + i] = q[i]
  BY Zenon, <1>4, <1>5
<1> QED BY Zenon, <1>6 DEF Holds

\* What stands somewhere stays there when something is appended.
LEMMA HeldKept ==
  ASSUME NEW p, NEW q, NEW m \in Nat, NEW n \in Nat, Sized(p, m), Sized(q, n),
         NEW k \in Nat, NEW r, NEW l \in Nat, k + l <= m, Holds(p, k, r, l)
  PROVE  Holds(p \o q, k, r, l)
<1>1. \A i \in 1 .. m : (p \o q)[i] = p[i]
  BY Zenon, Joined DEF Sized
<1>2. \A i \in 1 .. l : k + i \in 1 .. m
  OBVIOUS
<1> QED BY Zenon, <1>1, <1>2 DEF Holds

\* A piece of a piece.
LEMMA HeldWithin ==
  ASSUME NEW p, NEW k \in Nat, NEW q, NEW n \in Nat, Holds(p, k, q, n),
         NEW j \in Nat, NEW r, NEW l \in Nat, Holds(q, j, r, l), j + l <= n,
         NEW o, o = k + j
  PROVE  Holds(p, o, r, l)
<1>1. \A i \in 1 .. l : j + i \in 1 .. n /\ k + (j + i) = o + i
  OBVIOUS
<1>2. \A i \in 1 .. l : p[k + (j + i)] = q[j + i] /\ q[j + i] = r[i]
  BY <1>1 DEF Holds
<1>3. \A i \in 1 .. l : p[o + i] = r[i]
  BY <1>1, <1>2
<1> QED BY <1>3 DEF Holds

\* buffer(offset, length) is the piece that stands there.
LEMMA FieldHeld ==
  ASSUME NEW p, NEW k \in Nat, NEW q, NEW n \in Nat, Holds(p, k, q, n)
  PROVE  Field(p, k, n) = q
<1> DEFINE f == Field(p, k, n)
           S == Range(q)
<1>1. q \in Seq(S) /\ Len(q) = n /\ \A i \in 1 .. n : p[k + i] = q[i]
  BY DEF Holds, Sized, IsSeq
<1>2. \A i \in 1 .. n : q[i] \in S
  BY <1>1 DEF Range
<1>3. \A i \in (k + 1) .. (k + n) : p[i] \in S
  <2> TAKE i \in (k + 1) .. (k + n)
  <2>1. i - k \in 1 .. n /\ k + (i - k) = i
    OBVIOUS
  <2> QED BY <1>1, <1>2, <2>1
<1>4. k + 1 \in Int /\ k + n \in Int /\ (IF k + 1 <= k + n THEN (k + n) - (k + 1) + 1 ELSE 0) = n
  OBVIOUS
<1> HIDE DEF S
<1>5. /\ f \in Seq(S) /\ Len(f) = n
      /\ \A i \in 1 .. n : f[i] = p[(k + 1) + i - 1]
  BY <1>3, <1>4, SubSeqProperties DEF Field
<1> HIDE DEF f
<1>6. \A i \in 1 .. n : f[i] = q[i]
  <2>1. \A i \in 1 .. n : (k + 1) + i - 1 = k + i
    OBVIOUS
  <2> QED BY <1>1, <1>5, <2>1
<1>7. f = q
  BY <1>1, <1>5, <1>6, SeqEqual
<1> QED BY <1>7 DEF f
\* A piece stands at the beginning of itself.
LEMMA HeldWhole ==
  ASSUME NEW p, NEW n \in Nat, Sized(p, n)
  PROVE  Holds(p, 0, p, n)
BY DEF Holds

\* An address has 16 or 4 bytes.
LEMMA AddressLength ==
  ASSUME NEW host \in Host
  PROVE  /\ Sized(host.bytes, IF host.v = 6 THEN 16 ELSE 4)
         /\ \A i \in 1 .. (IF host.v = 6 THEN 16 ELSE 4) : host.bytes[i] \in Byte
<1> DEFINE h == IF host.v = 6 THEN 16 ELSE 4
<1>1. host.bytes \in Seq(Byte) /\ Len(host.bytes) = h
  BY DEF Host
<1>2. Len(host.bytes) \in Nat /\ host.bytes \in [1 .. Len(host.bytes) -> Byte]
  BY <1>1, LenProperties
<1>3. host.bytes \in [1 .. Len(host.bytes) -> Range(host.bytes)]
  BY <1>2 DEF Range
<1>4. IsSeq(host.bytes)
  BY <1>2, <1>3 DEF IsSeq
<1>5. Sized(host.bytes, h)
  BY <1>1, <1>4 DEF Sized
<1>6. \A i \in 1 .. h : host.bytes[i] \in Byte
  BY <1>1, <1>2
<1> QED BY <1>5, <1>6

\* A sequence of n items, bytes from the k-th on.
Filled(p, k, n) == Sized(p, n) /\ \A i \in k .. n : p[i] \in Byte

\* Bytes appended to bytes.
LEMMA FilledAdd ==
  ASSUME NEW p, NEW q, NEW k \in Nat \ {0}, NEW m \in Nat, NEW n \in Nat, NEW l, l = m + n,
         Filled(p, k, m), Filled(q, 1, n)
  PROVE  Filled(p \o q, k, l)
<1>1. Sized(p, m) /\ Sized(q, n) /\ \A i \in k .. m : p[i] \in Byte
  BY DEF Filled
<1>2. Sized(p \o q, l)
  BY <1>1, SizesAdd
<1>3. \A i \in 1 .. m : (p \o q)[i] = p[i]
  BY Zenon, <1>1, Joined DEF Sized
<1>4. \A i \in 1 .. n : (p \o q)[m + i] = q[i] /\ q[i] \in Byte
  <2>1. Holds(p \o q, m, q, n)
    BY <1>1, HeldLast
  <2> QED BY Zenon, <2>1 DEF Holds, Filled
<1>5. ASSUME NEW i \in k .. l PROVE (p \o q)[i] \in Byte
  <2>1. CASE i <= m
    <3>1. i \in 1 .. m /\ i \in k .. m
      BY <2>1
    <3> QED BY Zenon, <1>1, <1>3, <3>1
  <2>2. CASE ~ (i <= m)
    <3>1. i - m \in 1 .. n /\ m + (i - m) = i
      BY <2>2
    <3> QED BY Zenon, <1>4, <3>1
  <2> QED BY Zenon, <2>1, <2>2
<1> QED BY Zenon, <1>2, <1>5 DEF Filled

\* The words and zeros that serialize writes are bytes.
LEMMA FilledPieces ==
  ASSUME NEW n \in Nat, NEW w \in 1 .. 8
  PROVE  /\ Filled(Word(n, w), 1, w)
         /\ Filled(Reverse(Word(n, w)), 1, w)
<1>1. w \in Nat
  OBVIOUS
<1>2. Sized(Word(n, w), w) /\ Sized(Reverse(Word(n, w)), w)
  BY Zenon, <1>1, Pieces DEF Sized
<1>3. Len(Word(n, w)) = w /\ \A i \in 1 .. w : Word(n, w)[i] \in Byte
  BY Zenon, WordDigits
<1>4. \A i \in 1 .. w : Reverse(Word(n, w))[i] = Word(n, w)[(w - i) + 1] /\ (w - i) + 1 \in 1 .. w
  BY <1>3 DEF Reverse
<1> QED BY Zenon, <1>2, <1>3, <1>4 DEF Filled

\* The padding is bytes.
LEMMA FilledZeros ==
  ASSUME NEW n \in Nat
  PROVE  Filled(Zeros(n), 1, n)
<1>1. Sized(Zeros(n), n)
  BY Zenon, Pieces DEF Sized
<1>2. \A i \in 1 .. n : Zeros(n)[i] \in Byte
  BY RadixAssumption DEF Zeros, Byte
<1> QED BY <1>1, <1>2 DEF Filled

\* Five pieces and their sizes; in the first one bytes begin later.
Pieces5(first, p, i, q, j, r, k, s, l, t, m) ==
  /\ first \in Nat \ {0} /\ i \in Nat /\ j \in Nat /\ k \in Nat /\ l \in Nat /\ m \in Nat
  /\ Filled(p, first, i) /\ Filled(q, 1, j) /\ Filled(r, 1, k) /\ Filled(s, 1, l) /\ Filled(t, 1, m)

\* Of five pieces in a row, each stands where those before it end.
LEMMA FivePieces ==
  ASSUME NEW first, NEW p, NEW i, NEW q, NEW j, NEW r, NEW k, NEW s, NEW l, NEW t, NEW m,
         Pieces5(first, p, i, q, j, r, k, s, l, t, m)
  PROVE  LET all == p \o q \o r \o s \o t
         IN  /\ Filled(all, first, i + j + k + l + m)
             /\ Holds(all, 0, p, i)
             /\ Holds(all, i, q, j)
             /\ Holds(all, i + j, r, k)
             /\ Holds(all, i + j + k, s, l)
             /\ Holds(all, i + j + k + l, t, m)
<1> DEFINE a == p \o q
           b == a \o r
           c == b \o s
           d == c \o t
           J == i + j
           K == J + k
           L == K + l
           M == L + m
<1> USE DEF Pieces5
<1>1. Sized(p, i) /\ Sized(q, j) /\ Sized(r, k) /\ Sized(s, l) /\ Sized(t, m)
  BY DEF Filled
<1>2. J \in Nat /\ K \in Nat /\ L \in Nat
  OBVIOUS
<1>3. 0 + i <= J /\ 0 + i <= K /\ 0 + i <= L /\ i + j <= J /\ i + j <= K /\ i + j <= L
  OBVIOUS
<1>4. J + k <= K /\ J + k <= L /\ K + l <= L /\ J = i + j /\ K = J + k /\ L = K + l /\ M = L + m
  OBVIOUS
<1> HIDE DEF J, K, L, M
<1>5. Filled(a, first, J) /\ Holds(a, i, q, j) /\ Holds(a, 0, p, i)
  BY <1>1, <1>2, <1>3, <1>4, FilledAdd, HeldWhole, HeldLast, HeldKept
<1>6. Sized(a, J)
  BY <1>5 DEF Filled
<1> HIDE DEF a
<1>7. Filled(b, first, K) /\ Holds(b, J, r, k)
  BY <1>1, <1>2, <1>4, <1>5, <1>6, FilledAdd, HeldLast
<1>8. Holds(b, 0, p, i) /\ Holds(b, i, q, j)
  BY <1>1, <1>2, <1>3, <1>5, <1>6, HeldKept
<1>9. Sized(b, K)
  BY <1>7 DEF Filled
<1> HIDE DEF b
<1>10. Filled(c, first, L) /\ Holds(c, K, s, l)
  BY <1>1, <1>2, <1>4, <1>7, <1>9, FilledAdd, HeldLast
<1>11. Holds(c, 0, p, i) /\ Holds(c, i, q, j) /\ Holds(c, J, r, k)
  BY <1>1, <1>2, <1>3, <1>4, <1>7, <1>8, <1>9, HeldKept
<1>12. Sized(c, L)
  BY <1>10 DEF Filled
<1> HIDE DEF c
<1>13. Filled(d, first, M) /\ Holds(d, L, t, m)
  BY <1>1, <1>2, <1>4, <1>10, <1>12, FilledAdd, HeldLast
<1>14. Holds(d, 0, p, i) /\ Holds(d, i, q, j)
  BY <1>1, <1>2, <1>3, <1>11, <1>12, HeldKept
<1>15. Holds(d, J, r, k) /\ Holds(d, K, s, l)
  BY <1>1, <1>2, <1>4, <1>10, <1>11, <1>12, HeldKept
<1> QED BY Zenon, <1>13, <1>14, <1>15 DEF a, b, c, J, K, L, M

\* A host section has 128 bytes, whatever the family of its address; the
\* family, the port, four zeros and the address stand at fixed offsets.
LEMMA SectionLayout ==
  ASSUME NEW host \in Host, NEW port \in Nat
  PROVE  LET s == Section(host, port)
         IN  /\ Filled(s, 1, 128)
             /\ Holds(s, 0, Reverse(Word(IF host.v = 6 THEN 10 ELSE 2, 2)), 2)
             /\ Holds(s, 2, Word(port, 2), 2)
             /\ Holds(s, 4, Zeros(4), 4)
             /\ Holds(s, 8, host.bytes, IF host.v = 6 THEN 16 ELSE 4)
<1> DEFINE code == IF host.v = 6 THEN 10 ELSE 2
           h == IF host.v = 6 THEN 16 ELSE 4
           w == IF host.v = 6 THEN 104 ELSE 116
           family == Reverse(Word(code, 2))
           number == Word(port, 2)
           s == Section(host, port)
<1>1. /\ h \in Nat /\ w \in Nat /\ 128 = 2 + 2 + 4 + h + w
      /\ code \in Nat /\ 2 \in 1 .. 8
  OBVIOUS
<1>2. s = family \o number \o Zeros(4) \o host.bytes \o Zeros(w)
  BY Zenon DEF Section
<1>3. Filled(host.bytes, 1, h)
  BY Zenon, AddressLength DEF Filled
<1> HIDE DEF code, h, w, s
<1>4. Filled(family, 1, 2) /\ Filled(number, 1, 2)
  BY Zenon, <1>1, FilledPieces
<1>5. Filled(Zeros(4), 1, 4) /\ Filled(Zeros(w), 1, w)
  BY Zenon, <1>1, FilledZeros
<1> HIDE DEF family, number
<1>6. /\ Filled(s, 1, 2 + 2 + 4 + h + w)
      /\ Holds(s, 0, family, 2) /\ Holds(s, 2, number, 2) /\ Holds(s, 2 + 2, Zeros(4), 4)
      /\ Holds(s, 2 + 2 + 4, host.bytes, h)
  <2>1. Pieces5(1, family, 2, number, 2, Zeros(4), 4, host.bytes, h, Zeros(w), w)
    BY <1>1, <1>3, <1>4, <1>5 DEF Pieces5
  <2> QED BY Zenon, <1>2, <2>1, FivePieces
<1>7. /\ Filled(s, 1, 128)
      /\ Holds(s, 0, family, 2) /\ Holds(s, 2, number, 2) /\ Holds(s, 4, Zeros(4), 4)
      /\ Holds(s, 8, host.bytes, h)
  BY <1>1, <1>6
<1> QED BY Zenon, <1>7 DEF code, h, family, number, s

\* The part of a packet that no send changes has 264 characters: the version and
\* the type, then bytes, among them the TTL and the two host sections.
LEMMA FixedLayout ==
  ASSUME NEW s \in MPingStates
  PROVE  LET f == Fixed(s)
         IN  /\ Filled(f, 6, 264)
             /\ Holds(f, 0, MPING_STATE_VERSION, 4)
             /\ Holds(f, 4, <<s.type>>, 1)
             /\ Holds(f, 5, Word(s.ttl, 1), 1)
             /\ Holds(f, 8, Section(s.src_host, s.src_port), 128)
             /\ Holds(f, 136, Section(s.dest_host, s.dest_port), 128)
<1> DEFINE head == MPING_STATE_VERSION \o <<s.type>>
           ttl == Word(s.ttl, 1)
           src == Section(s.src_host, s.src_port)
           dst == Section(s.dest_host, s.dest_port)
           f == Fixed(s)
<1>1. /\ s.ttl \in Nat /\ s.src_host \in Host /\ s.src_port \in Nat
      /\ s.dest_host \in Host /\ s.dest_port \in Nat /\ 1 \in 1 .. 8
  BY DEF MPingStates, Byte, Port
<1>2. Filled(ttl, 1, 1)
  BY Zenon, <1>1, FilledPieces
<1>3. Filled(Zeros(2), 1, 2)
  BY Zenon, FilledZeros
<1>4. Filled(src, 1, 128) /\ Filled(dst, 1, 128)
  BY Zenon, <1>1, SectionLayout
<1>5. Sized(<<s.type>>, 1) /\ Sized(MPING_STATE_VERSION, 4)
  BY DEF Sized, IsSeq, Range, MPING_STATE_VERSION
<1>6. Sized(head, 5) /\ Holds(head, 4, <<s.type>>, 1)
  BY <1>5, SizesAdd, HeldLast
<1>7. Holds(head, 0, MPING_STATE_VERSION, 4)
  BY <1>5, HeldWhole, HeldKept
<1>8. f = head \o ttl \o Zeros(2) \o src \o dst
  BY Zenon DEF Fixed
<1> HIDE DEF head, ttl, src, dst, f
<1>9. Filled(head, 6, 5)
  BY <1>6 DEF Filled
<1>10. Pieces5(6, head, 5, ttl, 1, Zeros(2), 2, src, 128, dst, 128)
  BY <1>2, <1>3, <1>4, <1>9 DEF Pieces5
<1>11. /\ Filled(f, 6, 5 + 1 + 2 + 128 + 128)
       /\ Holds(f, 0, head, 5) /\ Holds(f, 5, ttl, 1)
       /\ Holds(f, 5 + 1 + 2, src, 128) /\ Holds(f, 5 + 1 + 2 + 128, dst, 128)
  BY <1>8, <1>10, FivePieces
<1>12. /\ Filled(f, 6, 264)
       /\ Holds(f, 5, ttl, 1) /\ Holds(f, 8, src, 128) /\ Holds(f, 136, dst, 128)
  BY <1>11
<1>13. Holds(f, 0, MPING_STATE_VERSION, 4) /\ Holds(f, 4, <<s.type>>, 1)
  <2>1. Holds(f, 0, head, 5)
    BY <1>11
  <2>2. 0 + 4 <= 5 /\ 4 + 1 <= 5 /\ 0 = 0 + 0 /\ 4 = 0 + 4
    OBVIOUS
  <2>3. Holds(f, 0, MPING_STATE_VERSION, 4)
    BY <1>7, <2>1, <2>2, HeldWithin
  <2>4. Holds(f, 4, <<s.type>>, 1)
    BY <1>6, <2>1, <2>2, HeldWithin
  <2> QED BY <2>3, <2>4
<1> QED BY Zenon, <1>12, <1>13 DEF ttl, src, dst, f

==============================================================================

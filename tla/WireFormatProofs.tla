------------------------- MODULE WireFormatProofs -------------------------
(***************************************************************************)
(* Proofs about the packets of a Sender: they are the same on every host,  *)
(* their time stamp is split exactly, the dissector reads back what was    *)
(* sent, and they follow each other in order.                              *)
(***************************************************************************)
EXTENDS PacketProofs

(***************************************************************************)
(* get_seconds and get_microseconds split a reading of the clock exactly:  *)
(* the microseconds are less than a second, and together with the seconds  *)
(* they are the reading, rounded down to a microsecond.                    *)
(***************************************************************************)
THEOREM StampSplitExactly ==
  \A s \in MPingStates :
    /\ get_seconds(s) \in Nat /\ get_microseconds(s) \in 0 .. MicrosPerSecond - 1
    /\ get_seconds(s) * MicrosPerSecond + get_microseconds(s) = s.tv \div NanosPerMicro
<1> TAKE s \in MPingStates
<1> DEFINE N == NanosPerMicro
           M == MicrosPerSecond
           T == s.tv
<1>1. N \in Nat \ {0} /\ M \in Nat \ {0} /\ T \in Nat
  BY ClockAssumption DEF MPingStates, Ticks
<1>2. N * M \in Nat \ {0}
  BY <1>1
<1>3. PICK sec, rest \in Nat : rest < N * M /\ T = (N * M) * sec + rest /\ sec = T \div (N * M)
  BY ZenonT(60), <1>1, <1>2, Division
<1>4. get_seconds(s) = sec
  BY <1>3 DEF get_seconds, NanosPerSecond
<1>5. PICK usec, ticks \in Nat : ticks < N /\ rest = N * usec + ticks /\ usec = rest \div N
  BY ZenonT(60), <1>1, <1>3, Division
<1>6. get_microseconds(s) = usec
  <2>1. T - sec * (N * M) = rest
    BY <1>1, <1>2, <1>3
  <2> QED BY <1>4, <1>5, <2>1 DEF get_microseconds, NanosPerSecond
<1> HIDE DEF N, M, T
<1>7. usec < M
  <2>1. N * usec < N * M
    BY <1>1, <1>2, <1>3, <1>5
  <2> QED BY <1>1, <1>5, <2>1
<1>8. T = N * (sec * M + usec) + ticks
  <2> DEFINE whole == (N * M) * sec
             part == N * usec
  <2>1. N * (sec * M + usec) = whole + part
    BY <1>1, Distributed
  <2>2. whole \in Nat /\ part \in Nat
    BY <1>1, <1>2
  <2>3. T = whole + rest /\ rest = part + ticks
    BY <1>3, <1>5
  <2> HIDE DEF whole, part
  <2> QED BY <2>1, <2>2, <2>3
<1>9. T \div N = sec * M + usec
  <2>1. sec * M + usec \in Nat
    BY <1>1
  <2> QED BY Zenon, <1>1, <1>5, <1>8, <2>1, Quotient
<1>10. usec \in 0 .. M - 1
  BY <1>1, <1>7
<1> QED BY <1>4, <1>6, <1>9, <1>10 DEF N, M, T

\* What is not later than a reading of the clock has no more digits.
LEMMA EarlierTicks ==
  ASSUME NEW t \in Ticks, NEW n \in Nat, n <= t
  PROVE  n \in Ticks
<1> DEFINE c == SeqMax + 1
<1>1. c \in Nat \ {0} /\ SeqMax \in Nat /\ t \in Nat /\ t \div c < c
  BY SeqMaxAssumption DEF Ticks
<1> HIDE DEF c
<1>2. PICK q, r \in Nat : r < c /\ t = c * q + r /\ q = t \div c
  BY ZenonT(60), <1>1, Division
<1>3. t < c * c
  <2>1. q + 1 <= c
    BY <1>1, <1>2
  <2>2. c * (q + 1) <= c * c
    BY <1>1, <1>2, <2>1
  <2>3. c * (q + 1) = c * q + c
    BY <1>1, <1>2
  <2>4. c * q \in Nat /\ c * c \in Nat
    BY <1>1, <1>2
  <2> QED BY <1>1, <1>2, <2>2, <2>3, <2>4
<1>4. n < c * c
  BY <1>1, <1>3
<1>5. n \div c < c
  BY <1>1, <1>4, QuotientBelow
<1>6. n \div c \in Nat
  BY <1>1
<1> QED BY <1>1, <1>5, <1>6 DEF c, Ticks

\* Seconds and microseconds of a reading of the clock fit where it fits.
LEMMA StampFits ==
  ASSUME NEW s \in MPingStates
  PROVE  get_seconds(s) \in Ticks /\ get_microseconds(s) \in Ticks
<1> DEFINE sec == get_seconds(s)
           usec == get_microseconds(s)
           N == NanosPerMicro
           M == MicrosPerSecond
           whole == s.tv \div N
<1>1. s.tv \in Ticks /\ s.tv \in Nat /\ N \in Nat \ {0} /\ M \in Nat \ {0}
  BY ClockAssumption DEF MPingStates, Ticks
<1>2. sec \in Nat /\ usec \in Nat /\ sec * M + usec = whole
  BY StampSplitExactly
<1>3. PICK q, r \in Nat : r < N /\ s.tv = N * q + r /\ q = whole
  BY ZenonT(60), <1>1, Division
<1> HIDE DEF sec, usec, N, M, whole
<1>4. N * q >= q
  BY <1>1, <1>3
<1>5. whole <= s.tv
  BY <1>1, <1>3, <1>4
<1>6. sec * M >= sec /\ sec * M \in Nat
  BY <1>1, <1>2
<1>7. sec <= s.tv /\ usec <= s.tv
  BY <1>1, <1>2, <1>3, <1>5, <1>6
<1> QED BY Zenon, <1>1, <1>2, <1>7, EarlierTicks DEF sec, usec

\* A packet has 288 characters, bytes from the TTL on: first what no send
\* changes, then the sequence number, the PID and the time.
LEMMA PacketLayout ==
  ASSUME NEW s \in MPingStates, NEW native \in HostEndianness
  PROVE  LET p == serialize(s, native)
         IN  /\ Filled(p, 6, 288)
             /\ Holds(p, 0, Fixed(s), 264)
             /\ Holds(p, 264, Word(s.seq, 4), 4)
             /\ Holds(p, 268, Word(s.pid, 4), 4)
             /\ Holds(p, 272, Word(get_seconds(s), 8), 8)
             /\ Holds(p, 280, Word(get_microseconds(s), 8), 8)
<1> DEFINE seq == Word(s.seq, 4)
           pid == Word(s.pid, 4)
           sec == Word(get_seconds(s), 8)
           usec == Word(get_microseconds(s), 8)
           p == serialize(s, native)
<1>1. s.seq \in Nat /\ s.pid \in Nat /\ 4 \in 1 .. 8 /\ 8 \in 1 .. 8
  BY DEF MPingStates
<1>2. get_seconds(s) \in Nat /\ get_microseconds(s) \in Nat
  BY StampFits DEF Ticks
<1>3. Filled(seq, 1, 4) /\ Filled(pid, 1, 4)
  BY Zenon, <1>1, FilledPieces
<1>4. Filled(sec, 1, 8) /\ Filled(usec, 1, 8)
  BY Zenon, <1>1, <1>2, FilledPieces
<1>5. Filled(Fixed(s), 6, 264)
  BY Zenon, FixedLayout
<1>6. p = Fixed(s) \o seq \o pid \o sec \o usec
  BY Zenon, SerializeImage
<1> HIDE DEF seq, pid, sec, usec, p
<1>7. Pieces5(6, Fixed(s), 264, seq, 4, pid, 4, sec, 8, usec, 8)
  BY <1>3, <1>4, <1>5 DEF Pieces5
<1>8. /\ Filled(p, 6, 264 + 4 + 4 + 8 + 8)
      /\ Holds(p, 0, Fixed(s), 264) /\ Holds(p, 264, seq, 4) /\ Holds(p, 264 + 4, pid, 4)
      /\ Holds(p, 264 + 4 + 4, sec, 8) /\ Holds(p, 264 + 4 + 4 + 8, usec, 8)
  BY <1>6, <1>7, FivePieces
<1>9. /\ Filled(p, 6, 288)
      /\ Holds(p, 0, Fixed(s), 264) /\ Holds(p, 264, seq, 4) /\ Holds(p, 268, pid, 4)
      /\ Holds(p, 272, sec, 8) /\ Holds(p, 280, usec, 8)
  BY <1>8
<1> QED BY Zenon, <1>9 DEF seq, pid, sec, usec, p

------------------------------------------------------------------------------
(***************************************************************************)
(* The dissector, given what serialize writes.                             *)
(***************************************************************************)

\* The host that the dissector shows, and the expert infos it raises beside it.
ShownHost(host) == IF host.v = 6 THEN host ELSE V4(Zeros(4))

Mismatches(host, port, addr, header_port, side) ==
  (IF port = header_port THEN {} ELSE {<<side, "mismatch_port">>})
    \union
  (IF ShownHost(host) = addr THEN {} ELSE {<<side, "mismatch_addr">>})

Shown(s, header) ==
  [shown |-> TRUE,
   type |-> s.type,
   ttl |-> s.ttl,
   src_host |-> ShownHost(s.src_host), src_port |-> s.src_port,
   dest_host |-> ShownHost(s.dest_host), dest_port |-> s.dest_port,
   seq |-> s.seq,
   pid |-> s.pid,
   seconds |-> get_seconds(s),
   microseconds |-> get_microseconds(s),
   experts |-> Mismatches(s.src_host, s.src_port, header.src, header.src_port, "src")
                 \union
               Mismatches(s.dest_host, s.dest_port, header.dst, header.dst_port, "dst")]

\* An integer that stands in a packet is read as what it was.
LEMMA IntegerRead ==
  ASSUME NEW p, NEW k \in Nat, NEW n, NEW w \in {1, 2, 4, 8}, Fits(n, w),
         Holds(p, k, Word(n, w), w)
  PROVE  uint(Field(p, k, w)) = n
<1>1. w \in Nat
  OBVIOUS
<1>2. Field(p, k, w) = Word(n, w)
  BY <1>1, FieldHeld
<1> QED BY <1>2, ReadBack DEF uint

\* Of a host section the dissector reads the family, the port and, for IPv6, the
\* address; where it looks for an IPv4 address there are the four zeros.
LEMMA HostRead ==
  ASSUME NEW p, NEW k \in Nat, NEW host \in Host, NEW port \in Port,
         Holds(p, k, Section(host, port), 128), NEW addr, NEW header_port, NEW side
  PROVE  dissect_host(p, k, addr, header_port, side) =
           [addr |-> ShownHost(host), port |-> port,
            experts |-> Mismatches(host, port, addr, header_port, side)]
<1> DEFINE code == IF host.v = 6 THEN 10 ELSE 2
           h == IF host.v = 6 THEN 16 ELSE 4
           s == Section(host, port)
<1>1. /\ port \in Nat /\ k + 2 \in Nat /\ k + 4 \in Nat /\ k + 8 \in Nat
      /\ k = k + 0 /\ h \in Nat /\ 8 + h <= 128 /\ 0 + 2 <= 128 /\ 2 + 2 <= 128 /\ 4 + 4 <= 128
  BY DEF Port
<1>2. /\ Holds(s, 0, Reverse(Word(code, 2)), 2) /\ Holds(s, 2, Word(port, 2), 2)
      /\ Holds(s, 4, Zeros(4), 4) /\ Holds(s, 8, host.bytes, h)
  BY Zenon, <1>1, SectionLayout
<1>3. code \in Port
  <2>1. Radix * Radix > 10
    BY RadixAssumption
  <2>2. Radix * Radix \in Nat
    BY RadixAssumption
  <2> QED BY <2>1, <2>2 DEF Port
<1> HIDE DEF code, h, s
<1>4. Holds(p, k, Reverse(Word(code, 2)), 2)
  BY <1>1, <1>2, HeldWithin DEF s
<1>5. Holds(p, k + 2, Word(port, 2), 2)
  BY <1>1, <1>2, HeldWithin DEF s
<1>6. Holds(p, k + 4, Zeros(4), 4)
  BY <1>1, <1>2, HeldWithin DEF s
<1>7. Holds(p, k + 8, host.bytes, h)
  BY <1>1, <1>2, HeldWithin DEF s
<1>8. le_uint(Field(p, k, 2)) = code
  <2>1. Field(p, k, 2) = Reverse(Word(code, 2))
    BY <1>4, FieldHeld
  <2>2. Reverse(Reverse(Word(code, 2))) = Word(code, 2)
    BY SwappedTwice
  <2>3. Value(Word(code, 2)) = code
    BY <1>3, Fitting, ReadBack
  <2> QED BY Zenon, <2>1, <2>2, <2>3 DEF le_uint
<1>9. uint(Field(p, k + 2, 2)) = port
  BY <1>1, <1>5, Fitting, IntegerRead
<1>10. Field(p, k + 4, 4) = Zeros(4)
  BY <1>1, <1>6, FieldHeld
<1>11. Field(p, k + 8, h) = host.bytes
  BY <1>1, <1>7, FieldHeld
<1>12. (IF code = AF_INET6 THEN V6(Field(p, k + 8, 16)) ELSE V4(Field(p, k + 4, 4))) = ShownHost(host)
  <2>1. CASE host.v = 6
    <3>1. code = AF_INET6 /\ h = 16
      BY <2>1 DEF code, h, AF_INET6
    <3>2. V6(host.bytes) = host
      BY <2>1 DEF V6, Host
    <3> QED BY Zenon, <1>11, <2>1, <3>1, <3>2 DEF ShownHost
  <2>2. CASE host.v # 6
    <3>1. code # AF_INET6
      BY <2>2 DEF code, AF_INET6
    <3> QED BY Zenon, <1>10, <2>2, <3>1 DEF ShownHost
  <2> QED BY <2>1, <2>2
<1>13. code \in {AF_INET, AF_INET6}
  BY DEF code, AF_INET, AF_INET6
<1> QED BY Zenon, <1>8, <1>9, <1>12, <1>13 DEF dissect_host, Mismatches

(***************************************************************************)
(* The dissector accepts every packet that serialize writes, on whichever  *)
(* host, and shows every member as it was: the integers over their whole   *)
(* width, the time down to the microsecond and IPv6 addresses.  Of an IPv4 *)
(* address it shows four zeros.  It raises an expert info where what it    *)
(* shows differs from the headers of the datagram, and none else.          *)
(***************************************************************************)
THEOREM DissectorReads ==
  ASSUME NEW s \in MPingStates, NEW native \in HostEndianness, NEW header
  PROVE  dissector(serialize(s, native), header) = Shown(s, header)
<1> DEFINE p == serialize(s, native)
           sec == get_seconds(s)
           usec == get_microseconds(s)
           src == Section(s.src_host, s.src_port)
           dst == Section(s.dest_host, s.dest_port)
           source == dissect_host(p, 8, header.src, header.src_port, "src")
           destination == dissect_host(p, 136, header.dst, header.dst_port, "dst")
<1>1. /\ Filled(p, 6, 288) /\ Holds(p, 0, Fixed(s), 264)
      /\ Holds(p, 264, Word(s.seq, 4), 4) /\ Holds(p, 268, Word(s.pid, 4), 4)
      /\ Holds(p, 272, Word(sec, 8), 8) /\ Holds(p, 280, Word(usec, 8), 8)
  BY PacketLayout
<1>2. /\ Holds(Fixed(s), 0, MPING_STATE_VERSION, 4) /\ Holds(Fixed(s), 4, <<s.type>>, 1)
      /\ Holds(Fixed(s), 5, Word(s.ttl, 1), 1)
      /\ Holds(Fixed(s), 8, src, 128) /\ Holds(Fixed(s), 136, dst, 128)
  BY Zenon, FixedLayout
<1>3. /\ s.type \in {"s", "r"}
      /\ s.src_host \in Host /\ s.src_port \in Port /\ s.dest_host \in Host /\ s.dest_port \in Port
  BY DEF MPingStates
<1>4. Fits(s.ttl, 1) /\ Fits(s.seq, 4) /\ Fits(s.pid, 4) /\ Fits(sec, 8) /\ Fits(usec, 8)
  <2>1. s.ttl \in Byte /\ s.seq \in 0 .. SeqMax /\ s.pid \in 0 .. SeqMax
    BY DEF MPingStates
  <2>2. sec \in Ticks /\ usec \in Ticks
    BY StampFits
  <2> HIDE DEF sec, usec
  <2> QED BY Zenon, <2>1, <2>2, Fitting
<1> HIDE DEF p, sec, usec, src, dst
<1>5. Holds(p, 0, MPING_STATE_VERSION, 4) /\ Holds(p, 4, <<s.type>>, 1)
  BY <1>1, <1>2, HeldWithin
<1>6. Holds(p, 5, Word(s.ttl, 1), 1)
  BY <1>1, <1>2, HeldWithin
<1>7. Holds(p, 8, src, 128) /\ Holds(p, 136, dst, 128)
  <2>1. 8 = 0 + 8 /\ 136 = 0 + 136 /\ 8 + 128 <= 264 /\ 136 + 128 <= 264
    OBVIOUS
  <2>2. Holds(p, 8, src, 128)
    BY <1>1, <1>2, <2>1, HeldWithin
  <2>3. Holds(p, 136, dst, 128)
    BY <1>1, <1>2, <2>1, HeldWithin
  <2> QED BY <2>2, <2>3
<1>8. ~ (Len(p) < 288) /\ Field(p, 0, 4) = MPING_STATE_VERSION
  <2>1. Len(p) = 288
    BY <1>1 DEF Filled, Sized
  <2>2. Field(p, 0, 4) = MPING_STATE_VERSION
    BY <1>5, FieldHeld
  <2> QED BY <2>1, <2>2
<1>9. p[5] = s.type
  <2>1. p[4 + 1] = <<s.type>>[1]
    BY <1>5 DEF Holds
  <2> QED BY <2>1
<1>10. uint(Field(p, 5, 1)) = s.ttl
  BY <1>4, <1>6, IntegerRead
<1>11. uint(Field(p, 264, 4)) = s.seq /\ uint(Field(p, 268, 4)) = s.pid
  BY <1>1, <1>4, IntegerRead
<1>12. uint(Field(p, 272, 8)) = sec /\ uint(Field(p, 280, 8)) = usec
  BY <1>1, <1>4, IntegerRead
<1>13. source = [addr |-> ShownHost(s.src_host), port |-> s.src_port,
                 experts |-> Mismatches(s.src_host, s.src_port, header.src, header.src_port, "src")]
  BY <1>3, <1>7, HostRead DEF src
<1>14. destination = [addr |-> ShownHost(s.dest_host), port |-> s.dest_port,
                      experts |-> Mismatches(s.dest_host, s.dest_port, header.dst, header.dst_port, "dst")]
  BY <1>3, <1>7, HostRead DEF dst
<1> DEFINE srcExperts == Mismatches(s.src_host, s.src_port, header.src, header.src_port, "src")
           dstExperts == Mismatches(s.dest_host, s.dest_port, header.dst, header.dst_port, "dst")
<1> HIDE DEF source, destination
<1>15. source.addr = ShownHost(s.src_host) /\ source.port = s.src_port /\ source.experts = srcExperts
  BY <1>13
<1>16. /\ destination.addr = ShownHost(s.dest_host) /\ destination.port = s.dest_port
       /\ destination.experts = dstExperts
  BY <1>14
<1>17. dissector(p, header) =
         [shown |-> TRUE,
          type |-> p[5],
          ttl |-> uint(Field(p, 5, 1)),
          src_host |-> source.addr, src_port |-> source.port,
          dest_host |-> destination.addr, dest_port |-> destination.port,
          seq |-> uint(Field(p, 264, 4)),
          pid |-> uint(Field(p, 268, 4)),
          seconds |-> uint(Field(p, 272, 8)),
          microseconds |-> uint(Field(p, 280, 8)),
          experts |-> {} \union source.experts \union destination.experts]
  <2>1. p[5] \in {"s", "r"}
    BY <1>3, <1>9
  <2> QED BY Zenon, <1>8, <2>1 DEF dissector, source, destination
<1>18. {} \union srcExperts \union dstExperts = srcExperts \union dstExperts
  BY Zenon
<1> HIDE DEF srcExperts, dstExperts
<1>19. dissector(p, header) = Shown(s, header)
  BY Zenon, <1>9, <1>10, <1>11, <1>12, <1>15, <1>16, <1>17, <1>18
  DEF Shown, sec, usec, srcExperts, dstExperts
<1> QED BY <1>19 DEF p

------------------------------------------------------------------------------
(***************************************************************************)
(* The packets of a Sender.                                                *)
(***************************************************************************)

\* next_seq_no and set_current_time keep the members to their types, and
\* change no other member.
LEMMA MembersKept ==
  ASSUME NEW s \in MPingStates, NEW now \in Ticks
  PROVE  next_seq_no(s) \in MPingStates /\ set_current_time(s, now) \in MPingStates
<1>1. IF s.seq = SeqMax THEN 0 \in 0 .. SeqMax ELSE s.seq + 1 \in 0 .. SeqMax
  BY SeqMaxAssumption DEF MPingStates
<1> QED BY <1>1 DEF MPingStates, next_seq_no, set_current_time

\* The test of next_seq_no makes the sequence number count modulo SeqMax + 1.
LEMMA Successor ==
  ASSUME NEW m \in Nat, NEW a \in 0 .. m
  PROVE  (a + 1) % (m + 1) = IF a = m THEN 0 ELSE a + 1
<1>1. CASE a = m
  BY <1>1
<1>2. CASE a # m
  <2>1. a + 1 \in 0 .. m
    BY <1>2
  <2> QED BY <1>2, <2>1
<1> QED BY <1>1, <1>2

(***************************************************************************)
(* Why the packets are in order and read back: the members keep to their   *)
(* types, between two packets the state is the successor of the one that   *)
(* was sent last, and what is shown is the packet that was sent last.      *)
(***************************************************************************)
WireInv ==
  /\ state \in MPingStates /\ sent \in MPingStates
  /\ packet # <<>> => packet = serialize(sent, Native) /\ state = next_seq_no(sent)
  /\ view # NoView => packet # <<>> /\ view = dissector(packet, Header(sent))

\* Sending and dissecting keep to this.
LEMMA WireInvariant == Spec => []WireInv
<1>1. Init => WireInv
  BY SendersAssumption DEF Init, WireInv
<1>2. WireInv /\ [Next]_vars => WireInv'
  <2> SUFFICES ASSUME WireInv, [Next]_vars PROVE WireInv'
    OBVIOUS
  <2>1. ASSUME NEW now \in Times, SendPacket(now) PROVE WireInv'
    <3>1. now \in Ticks /\ state \in MPingStates
      BY SendersAssumption DEF WireInv
    <3>2. sent' = set_current_time(state, now) /\ state' = next_seq_no(sent')
      BY <2>1 DEF SendPacket
    <3>3. sent' \in MPingStates
      BY <3>1, <3>2, MembersKept
    <3>4. state' \in MPingStates
      BY <3>1, <3>2, <3>3, MembersKept
    <3>5. packet' = serialize(sent', Native) /\ view' = NoView
      BY <2>1 DEF SendPacket
    <3> QED BY <3>2, <3>3, <3>4, <3>5 DEF WireInv
  <2>2. CASE Dissect
    BY <2>2 DEF Dissect, WireInv, Header
  <2>3. CASE UNCHANGED vars
    BY <2>3 DEF vars, WireInv, Header
  <2> QED BY <2>1, <2>2, <2>3 DEF Next
<1> QED BY <1>1, <1>2, PTL DEF Spec

\* A packet has the same bytes, whichever endianness the sending host has.
THEOREM BytesOfEveryHost == Spec => []SameOnEveryHost
<1>1. ASSUME WireInv PROVE SameOnEveryHost
  <2> SUFFICES ASSUME packet # <<>>, NEW native \in HostEndianness
               PROVE  packet = serialize(sent, native)
    BY DEF SameOnEveryHost
  <2>1. packet = serialize(sent, Native)
    BY <1>1 DEF WireInv
  <2> QED BY Zenon, <2>1, NativeAssumption, SerializeImage
<1> QED BY <1>1, WireInvariant, PTL

\* Whatever the families of its hosts, a packet has the 288 bytes that
\* serialize reserves and the dissector asks for.
THEOREM PacketLength == Spec => [](packet # <<>> => Len(packet) = 288)
<1>1. ASSUME WireInv, packet # <<>> PROVE Len(packet) = 288
  <2>1. packet = serialize(sent, Native) /\ sent \in MPingStates
    BY <1>1 DEF WireInv
  <2>2. Filled(packet, 6, 288)
    BY <2>1, NativeAssumption, PacketLayout
  <2> QED BY <2>2 DEF Filled, Sized
<1> QED BY <1>1, WireInvariant, PTL

\* A later packet of the same Sender differs in its sequence number, which is
\* the next one modulo 2^32, in its time, which is not earlier, and in nothing else.
THEOREM PacketsInOrder == Spec => StreamOrder
<1> DEFINE Ordered ==
      packet # <<>> /\ packet' # packet =>
        /\ sent'.seq = (sent.seq + 1) % (SeqMax + 1)
        /\ sent'.tv >= sent.tv
        /\ [sent' EXCEPT !.seq = 0, !.tv = 0] = [sent EXCEPT !.seq = 0, !.tv = 0]
        /\ SubSeq(packet', 1, 264) = SubSeq(packet, 1, 264)
<1>1. WireInv /\ [Next]_vars => [Ordered]_vars
  <2> SUFFICES ASSUME WireInv, [Next]_vars, packet # <<>>, packet' # packet
               PROVE  Ordered
    BY ZenonT(60)
  <2>1. PICK now \in Times : SendPacket(now)
    BY DEF Next, Dissect, vars
  <2>2. /\ now \in Ticks /\ now >= state.tv /\ sent \in MPingStates
        /\ packet = serialize(sent, Native) /\ packet' = serialize(sent', Native)
        /\ state = next_seq_no(sent) /\ sent' = set_current_time(state, now)
    BY <2>1, SendersAssumption DEF SendPacket, WireInv
  <2>3. sent.seq \in 0 .. SeqMax /\ sent.tv \in Nat
    BY <2>2 DEF MPingStates, Ticks
  <2>4. sent' = [sent EXCEPT !.seq = state.seq, !.tv = now]
    BY <2>2 DEF MPingStates, next_seq_no, set_current_time
  <2>5. state.tv = sent.tv /\ state.seq = IF sent.seq = SeqMax THEN 0 ELSE sent.seq + 1
    BY <2>2 DEF MPingStates, next_seq_no
  <2>6. sent'.seq = state.seq /\ sent'.tv = now
    BY <2>2, <2>4 DEF MPingStates
  <2>7. sent'.seq = (sent.seq + 1) % (SeqMax + 1)
    BY <2>3, <2>5, <2>6, SeqMaxAssumption, Successor
  <2>8. sent'.tv >= sent.tv
    BY <2>2, <2>5, <2>6
  <2>9. [sent' EXCEPT !.seq = 0, !.tv = 0] = [sent EXCEPT !.seq = 0, !.tv = 0]
    BY ZenonT(60), <2>2, <2>4 DEF MPingStates
  <2>10. /\ UNCHANGED <<sent.type, sent.ttl, sent.src_host, sent.src_port>>
         /\ UNCHANGED <<sent.dest_host, sent.dest_port>>
    BY <2>2, <2>4 DEF MPingStates
  <2>11. Field(packet', 0, 264) = Field(packet, 0, 264)
    <3>1. sent' \in MPingStates
      BY <2>2, MembersKept DEF WireInv
    <3>2. Field(packet, 0, 264) = Fixed(sent)
      <4>1. Holds(packet, 0, Fixed(sent), 264)
        BY <2>2, NativeAssumption, PacketLayout
      <4> QED BY <4>1, FieldHeld
    <3>3. Field(packet', 0, 264) = Fixed(sent')
      <4>1. Holds(packet', 0, Fixed(sent'), 264)
        BY <2>2, <3>1, NativeAssumption, PacketLayout
      <4> QED BY <4>1, FieldHeld
    <3>4. Fixed(sent') = Fixed(sent)
      BY <2>10 DEF Fixed
    <3> QED BY <3>2, <3>3, <3>4
  <2>12. SubSeq(packet', 1, 264) = SubSeq(packet, 1, 264)
    BY <2>11 DEF Field
  <2> QED BY ZenonT(60), <2>7, <2>8, <2>9, <2>12
<1> QED BY <1>1, WireInvariant, PTL DEF Spec, StreamOrder

\* The fields of what is shown, one by one.
FieldsShown(v, s, header) ==
  /\ v.shown = TRUE /\ v.type = s.type /\ v.ttl = s.ttl
  /\ v.src_host = ShownHost(s.src_host) /\ v.src_port = s.src_port
  /\ v.dest_host = ShownHost(s.dest_host) /\ v.dest_port = s.dest_port
  /\ v.seq = s.seq /\ v.pid = s.pid
  /\ v.seconds = get_seconds(s) /\ v.microseconds = get_microseconds(s)
  /\ v.experts = Mismatches(s.src_host, s.src_port, header.src, header.src_port, "src")
                   \union
                 Mismatches(s.dest_host, s.dest_port, header.dst, header.dst_port, "dst")

\* The record that the dissector fills in has these fields.
LEMMA ShownFields ==
  ASSUME NEW s, NEW header
  PROVE  FieldsShown(Shown(s, header), s, header)
BY Zenon DEF Shown, FieldsShown

\* What is shown is the packet that was sent last, as DissectorReads has it.
LEMMA ViewShown ==
  ASSUME WireInv, view # NoView
  PROVE  FieldsShown(view, sent, Header(sent)) /\ sent \in MPingStates
<1>1. sent \in MPingStates /\ view = Shown(sent, Header(sent))
  BY Zenon, NativeAssumption, DissectorReads DEF WireInv
<1> QED BY Zenon, <1>1, ShownFields

\* A packet is empty or 288 characters long, bytes from the TTL on, and the
\* dissector decides whether to show it.
THEOREM WireTypes == Spec => []TypeOK
<1>1. ASSUME WireInv PROVE TypeOK
  <2>1. state.seq \in 0 .. SeqMax
    BY <1>1 DEF WireInv, MPingStates
  <2>2. Len(packet) \in {0, 288} /\ \A i \in 6 .. Len(packet) : packet[i] \in Byte
    <3>1. CASE packet = <<>>
      BY <3>1
    <3>2. CASE packet # <<>>
      <4>1. Filled(packet, 6, 288)
        BY <1>1, <3>2, NativeAssumption, PacketLayout DEF WireInv
      <4> QED BY <4>1 DEF Filled, Sized
    <3> QED BY <3>1, <3>2
  <2>3. view.shown \in BOOLEAN
    <3>1. CASE view = NoView
      BY <3>1 DEF NoView
    <3>2. CASE view # NoView
      BY Zenon, <1>1, <3>2, ViewShown DEF FieldsShown
    <3> QED BY <3>1, <3>2
  <2> QED BY <2>1, <2>2, <2>3 DEF TypeOK
<1> QED BY <1>1, WireInvariant, PTL

(***************************************************************************)
(* What serialize writes the dissector reads back: the integers for both   *)
(* families and IPv6 addresses, whatever values they have.                 *)
(***************************************************************************)
THEOREM IPv6ReadsBack == Spec => []IPv6RoundTrip
<1>1. ASSUME WireInv PROVE IPv6RoundTrip
  <2> SUFFICES ASSUME view.shown
               PROVE  /\ ScalarsShown
                      /\ sent.src_host.v = 6 => view.src_host = sent.src_host
                      /\ sent.dest_host.v = 6 => view.dest_host = sent.dest_host
    BY DEF IPv6RoundTrip
  <2>1. view # NoView
    BY DEF NoView
  <2>2. FieldsShown(view, sent, Header(sent))
    BY Zenon, <1>1, <2>1, ViewShown
  <2>3. ScalarsShown
    BY Zenon, <2>2 DEF ScalarsShown, FieldsShown
  <2>4. view.src_host = ShownHost(sent.src_host) /\ view.dest_host = ShownHost(sent.dest_host)
    BY Zenon, <2>2 DEF FieldsShown
  <2> QED BY Zenon, <2>3, <2>4 DEF ShownHost
<1> QED BY <1>1, WireInvariant, PTL

\* The seconds and microseconds shown add up to the time stamp of the packet,
\* down to the microsecond, and the microseconds stay below a second.
THEOREM TimeReadsBack == Spec => []TimeSplit
<1>1. ASSUME WireInv PROVE TimeSplit
  <2> SUFFICES ASSUME view.shown
               PROVE  /\ view.microseconds < MicrosPerSecond
                      /\ view.seconds * MicrosPerSecond + view.microseconds
                           = sent.tv \div NanosPerMicro
    BY DEF TimeSplit
  <2>1. view # NoView
    BY DEF NoView
  <2>2. FieldsShown(view, sent, Header(sent)) /\ sent \in MPingStates
    BY Zenon, <1>1, <2>1, ViewShown
  <2>3. view.seconds = get_seconds(sent) /\ view.microseconds = get_microseconds(sent)
    BY Zenon, <2>2 DEF FieldsShown
  <2>4. /\ get_microseconds(sent) \in 0 .. MicrosPerSecond - 1
        /\ get_seconds(sent) * MicrosPerSecond + get_microseconds(sent) = sent.tv \div NanosPerMicro
    BY Zenon, <2>2, StampSplitExactly
  <2>5. view.microseconds < MicrosPerSecond
    BY <2>3, <2>4, ClockAssumption
  <2> QED BY Zenon, <2>3, <2>4, <2>5
<1> QED BY <1>1, WireInvariant, PTL

(***************************************************************************)
(* Between IPv6 hosts the expert infos tell where bind chose: the port     *)
(* when 0 was configured, the address when it was the unspecified one, and *)
(* no others.                                                              *)
(***************************************************************************)
THEOREM ExpertsOnlyForBind == Spec => []ExpertsExplained
<1>1. ASSUME WireInv PROVE ExpertsExplained
  <2> DEFINE Port0 == IF sent.src_port = 0 THEN {<<"src", "mismatch_port">>} ELSE {}
             Wildcard == IF sent.src_host \in Unspecified THEN {<<"src", "mismatch_addr">>} ELSE {}
             header == Header(sent)
             src == Mismatches(sent.src_host, sent.src_port, header.src, header.src_port, "src")
             dst == Mismatches(sent.dest_host, sent.dest_port, header.dst, header.dst_port, "dst")
  <2> SUFFICES ASSUME view.shown, sent.src_host.v = 6, sent.dest_host.v = 6
               PROVE  view.experts = Port0 \union Wildcard
    BY DEF ExpertsExplained
  <2>1. view # NoView
    BY DEF NoView
  <2>2. FieldsShown(view, sent, header)
    BY Zenon, <1>1, <2>1, ViewShown
  <2>3. sent.src_host.v = 6 /\ sent.dest_host.v = 6
    OBVIOUS
  <2>4. /\ header.src = IF sent.src_host \in Unspecified THEN Interface[6] ELSE sent.src_host
        /\ header.src_port = IF sent.src_port = 0 THEN EphemeralPort ELSE sent.src_port
        /\ header.dst = sent.dest_host /\ header.dst_port = sent.dest_port
    BY DEF Header
  <2>5. view.experts = src \union dst
    BY Zenon, <2>2 DEF FieldsShown
  <2> HIDE DEF header
  <2>6. Interface[6] \notin Unspecified /\ EphemeralPort # 0
    BY KernelAssumption
  <2>7. dst = {}
    BY Zenon, <2>3, <2>4 DEF Mismatches, ShownHost
  <2>8. src = Port0 \union Wildcard
    <3>1. (sent.src_port = header.src_port) <=> sent.src_port # 0
      BY Zenon, <2>4, <2>6
    <3>2. (ShownHost(sent.src_host) = header.src) <=> sent.src_host \notin Unspecified
      BY Zenon, <2>4, <2>6 DEF ShownHost
    <3> QED BY Zenon, <3>1, <3>2 DEF Mismatches
  <2> HIDE DEF src, dst, Port0, Wildcard
  <2> QED BY Zenon, <2>5, <2>7, <2>8
<1> QED BY <1>1, WireInvariant, PTL

==============================================================================

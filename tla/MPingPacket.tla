----------------------------- MODULE MPingPacket -----------------------------
(***************************************************************************)
(* The bytes of an MPing packet: MPingState::serialize                     *)
(* (src/src/mping_state.cpp) and the conversions it uses                   *)
(* (src/src/network_serialization.hpp).                                    *)
(*                                                                         *)
(* A machine integer of w bytes is a sequence of w digits below Radix,     *)
(* most significant first (Word); its image in memory depends on the       *)
(* endianness of the host.  Characters are themselves.  TLC uses a Radix   *)
(* below 256, so that the largest uint32_t is in reach.                    *)
(***************************************************************************)
EXTENDS MPingState, Sequences, SequencesExt

CONSTANTS
  Radix,              \* values of a byte
  NanosPerMicro,      \* ticks of steady_clock in a microsecond
  MicrosPerSecond

ASSUME RadixAssumption ==
  Radix \in Nat /\ Radix > 10 /\ SeqMax = Radix * Radix * Radix * Radix - 1
ASSUME ClockAssumption ==
  NanosPerMicro \in Nat \ {0} /\ MicrosPerSecond \in Nat \ {0}

Byte == 0 .. Radix - 1

\* What a digit counts for, the least significant first.  No integer of the
\* packet has more than eight bytes.
Weight ==
  LET R == Radix
  IN  <<1, R, R*R, R*R*R, R*R*R*R, R*R*R*R*R, R*R*R*R*R*R, R*R*R*R*R*R*R>>

Word(n, w) == [i \in 1 .. w |-> (n \div Weight[w - i + 1]) % Radix]

\* The number that a word of at most eight digits stands for.
Value(word) ==
  LET D(k) == IF k < Len(word) THEN word[Len(word) - k] ELSE 0
      R == Radix
  IN  ((((((D(7)*R + D(6))*R + D(5))*R + D(4))*R + D(3))*R + D(2))*R + D(1))*R + D(0)

Zeros(n) == [i \in 1 .. n |-> 0]

------------------------------------------------------------------------------
(***************************************************************************)
(* network_serialization.hpp.  std::byteswap reverses the bytes of a word; *)
(* std::bit_cast shows its image in the memory of the host.                *)
(***************************************************************************)
HostEndianness == {"little", "big"}

byteswap(word) == Reverse(word)

\* Variant of to_bigendian: little-endian hosts are forgotten.
to_bigendian_native(word, native) == word

to_bigendian(word, native) == IF native = "little" THEN byteswap(word) ELSE word

\* Variant of to_littleendian: big-endian hosts are forgotten.
to_littleendian_native(word, native) == word

to_littleendian(word, native) == IF native = "big" THEN byteswap(word) ELSE word

to_byte_array(word, native) == IF native = "little" THEN Reverse(word) ELSE word

\* Addresses as boost::asio::ip::address holds them.
V6(bytes) == [v |-> 6, bytes |-> bytes]
V4(bytes) == [v |-> 4, bytes |-> bytes]

\* Variant of ipv6_to_sockaddr_storage: std::advance(it, 4) is forgotten.
ipv6_to_sockaddr_storage_packed(address, port, native) ==
  to_byte_array(to_littleendian(Word(10, 2), native), native)
    \o to_byte_array(to_bigendian(Word(port, 2), native), native)
    \o address.bytes
    \o Zeros(108)

ipv6_to_sockaddr_storage(address, port, native) ==
  to_byte_array(to_littleendian(Word(10, 2), native), native)
    \o to_byte_array(to_bigendian(Word(port, 2), native), native)
    \o Zeros(4)
    \o address.bytes
    \o Zeros(104)

\* Variant: the trailing zeros are those of an IPv6 host.
ipv4_to_sockaddr_storage_short(address, port, native) ==
  to_byte_array(to_littleendian(Word(2, 2), native), native)
    \o to_byte_array(to_bigendian(Word(port, 2), native), native)
    \o Zeros(4)
    \o address.bytes
    \o Zeros(104)

ipv4_to_sockaddr_storage(address, port, native) ==
  to_byte_array(to_littleendian(Word(2, 2), native), native)
    \o to_byte_array(to_bigendian(Word(port, 2), native), native)
    \o Zeros(4)
    \o address.bytes
    \o Zeros(116)

------------------------------------------------------------------------------
(***************************************************************************)
(* mping_state.cpp                                                         *)
(***************************************************************************)
MPingStateOf(type, ttl, src, sport, dest, dport, sequence_number, pid, tv) ==
  [type |-> type, ttl |-> ttl,
   src_host |-> src, src_port |-> sport,
   dest_host |-> dest, dest_port |-> dport,
   seq |-> sequence_number, pid |-> pid, tv |-> tv]

NanosPerSecond == NanosPerMicro * MicrosPerSecond

get_seconds(s) == s.tv \div NanosPerSecond

\* Variant: all microseconds since the epoch, not those of the last second.
get_microseconds_total(s) == s.tv \div NanosPerMicro

get_microseconds(s) ==
  LET remaining == s.tv - get_seconds(s) * NanosPerSecond
  IN  remaining \div NanosPerMicro

MPING_STATE_VERSION == <<"2", ".", "0", "NUL">>

SockaddrStorage(host, port, native) ==
  IF host.v = 6 THEN ipv6_to_sockaddr_storage(host, port, native)
                ELSE ipv4_to_sockaddr_storage(host, port, native)

serialize(s, native) ==
  LET BigEndian(n, w) == to_byte_array(to_bigendian(Word(n, w), native), native)
  IN  MPING_STATE_VERSION
        \o <<s.type>>
        \o BigEndian(s.ttl, 1)
        \o Zeros(2)
        \o SockaddrStorage(s.src_host, s.src_port, native)
        \o SockaddrStorage(s.dest_host, s.dest_port, native)
        \o BigEndian(s.seq, 4)
        \o BigEndian(s.pid, 4)
        \o BigEndian(get_seconds(s), 8)
        \o BigEndian(get_microseconds(s), 8)

==============================================================================

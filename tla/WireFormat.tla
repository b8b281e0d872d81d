----------------------------- MODULE WireFormat -----------------------------
(***************************************************************************)
(* From Sender::send_packet over the wire to the dissector.                *)
(*                                                                         *)
(* A Sender that has sent some packets already (so its sequence number may *)
(* be anything) stamps, serializes and sends; the kernel writes the UDP    *)
(* and IP headers; Wireshark shows the datagram.                           *)
(***************************************************************************)
EXTENDS Dissector

CONSTANTS
  Native,         \* std::endian::native of the sending host
  Senders,        \* states of Sender::_state: configuration, PID and count
  Times,          \* readings of steady_clock
  Unspecified,    \* the addresses :: and 0.0.0.0
  Interface,      \* the source address that the kernel chooses, for each family
  EphemeralPort,  \* the port that bind chooses for port 0
  MaxPackets      \* bound: how many packets are followed

\* boost::asio::ip::address holds the bytes of an address of either family.
Host == {h \in [v : {4, 6}, bytes : Seq(Byte)] : Len(h.bytes) = IF h.v = 6 THEN 16 ELSE 4}

Port == 0 .. Radix * Radix - 1

\* steady_clock counts in 64 bits, twice as many as a sequence number has.
Ticks == {t \in Nat : t \div (SeqMax + 1) <= SeqMax}

\* The members of MPingState, with the widths of their types.
MPingStates ==
  [type : {"s", "r"}, ttl : Byte,
   src_host : Host, src_port : Port, dest_host : Host, dest_port : Port,
   seq : 0 .. SeqMax, pid : 0 .. SeqMax, tv : Ticks]

ASSUME NativeAssumption == Native \in HostEndianness
ASSUME SendersAssumption ==
  Senders \subseteq MPingStates /\ Times \subseteq Ticks
ASSUME KernelAssumption ==
  /\ Interface \in [{4, 6} -> Host \ Unspecified]
  /\ EphemeralPort \in Port \ {0}

VARIABLES
  state,      \* Sender::_state
  sent,       \* the MPingState that the last datagram was made of
  packet,     \* the last datagram, <<>> before the first
  view,       \* what the dissector shows of it
  count       \* packets followed so far

vars == <<state, sent, packet, view, count>>

Init ==
  /\ state \in Senders
  /\ sent = state
  /\ packet = <<>>
  /\ view = NoView
  /\ count = 0

\* The socket is opened for the family of the source.  The kernel sends from an
\* IPv6 socket to both families, from an IPv4 socket to IPv4 only.
Reaches(s) == s.src_host.v = 6 \/ s.dest_host.v = 4

\* Sender::send_packet at a later reading of the clock; a send that the kernel
\* refuses leaves nothing to dissect (module Sender has what follows).
SendPacket(now) ==
  /\ count < MaxPackets
  /\ Reaches(state)
  /\ count' = count + 1
  /\ now >= state.tv
  /\ sent' = set_current_time(state, now)
  /\ packet' = serialize(sent', Native)
  /\ state' = next_seq_no(sent')
  /\ view' = NoView

\* The kernel: a socket bound to the unspecified address, or to one of another
\* family than the destination, sends with an address that the kernel chooses,
\* one bound to port 0 with the port bind chose.
Header(s) ==
  [src |-> IF s.src_host \in Unspecified \/ s.src_host.v # s.dest_host.v
             THEN Interface[s.dest_host.v] ELSE s.src_host,
   src_port |-> IF s.src_port = 0 THEN EphemeralPort ELSE s.src_port,
   dst |-> s.dest_host,
   dst_port |-> s.dest_port]

Dissect ==
  /\ packet # <<>>
  /\ view' = dissector(packet, Header(sent))
  /\ UNCHANGED <<state, sent, packet, count>>

Next == (\E now \in Times : SendPacket(now)) \/ Dissect

Spec == Init /\ [][Next]_vars

------------------------------------------------------------------------------

\* The packet is empty or, for both families, 288 characters long: what
\* serialize reserves and the dissector expects.
TypeOK ==
  /\ state.seq \in 0 .. SeqMax
  /\ Len(packet) \in {0, 288}
  /\ \A i \in 6 .. Len(packet) : packet[i] \in Byte
  /\ view.shown \in BOOLEAN

(***************************************************************************)
(* The bytes do not depend on the endianness of the host: to_bigendian and *)
(* to_littleendian cancel what to_byte_array shows of it.                  *)
(***************************************************************************)
SameOnEveryHost ==
  packet # <<>> => \A native \in HostEndianness : packet = serialize(sent, native)

\* The fields that do not depend on the address family.
ScalarsShown ==
  /\ view.type = sent.type /\ view.ttl = sent.ttl
  /\ view.src_port = sent.src_port /\ view.dest_port = sent.dest_port
  /\ view.seq = sent.seq /\ view.pid = sent.pid

(***************************************************************************)
(* What serialize writes for IPv6 hosts the dissector reads back, and for  *)
(* both families the integers, at every boundary of their types.           *)
(***************************************************************************)
IPv6RoundTrip ==
  view.shown =>
    /\ ScalarsShown
    /\ sent.src_host.v = 6 => view.src_host = sent.src_host
    /\ sent.dest_host.v = 6 => view.dest_host = sent.dest_host

(***************************************************************************)
(* The same for IPv4 hosts, as the packet diagram "IPv4 Host" of           *)
(* mping_state.cpp has it and the dissector expects it.                    *)
(***************************************************************************)
IPv4RoundTrip ==
  view.shown =>
    /\ sent.src_host.v = 4 => view.src_host = sent.src_host
    /\ sent.dest_host.v = 4 => view.dest_host = sent.dest_host

(***************************************************************************)
(* Seconds and microseconds together are the time stamp, down to the       *)
(* microsecond, and the microseconds never reach a full second.            *)
(***************************************************************************)
TimeSplit ==
  view.shown =>
    /\ view.microseconds < MicrosPerSecond
    /\ view.seconds * MicrosPerSecond + view.microseconds
         = sent.tv \div NanosPerMicro

(***************************************************************************)
(* Between IPv6 hosts the packet agrees with its own headers, and          *)
(* Wireshark raises no expert info, unless bind was left to choose the     *)
(* address or the port.                                                    *)
(***************************************************************************)
ExpertsExplained ==
  view.shown /\ sent.src_host.v = 6 /\ sent.dest_host.v = 6 =>
    view.experts =
      (IF sent.src_port = 0 THEN {<<"src", "mismatch_port">>} ELSE {})
        \union
      (IF sent.src_host \in Unspecified THEN {<<"src", "mismatch_addr">>} ELSE {})

(***************************************************************************)
(* A later packet of the same Sender shows a later time and the successor  *)
(* of the sequence number; everything else in it stays the same.           *)
(***************************************************************************)
StreamOrder ==
  [][ packet # <<>> /\ packet' # packet =>
        /\ sent'.seq = (sent.seq + 1) % (SeqMax + 1)
        /\ sent'.tv >= sent.tv
        /\ [sent' EXCEPT !.seq = 0, !.tv = 0] = [sent EXCEPT !.seq = 0, !.tv = 0]
        /\ SubSeq(packet', 1, 264) = SubSeq(packet, 1, 264) ]_vars

=============================================================================

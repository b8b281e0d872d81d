------------------------------ MODULE Dissector ------------------------------
(***************************************************************************)
(* mping_protocol.dissector, the repository's independent reader of the    *)
(* format (src/wireshark/mping.lua).                                       *)
(***************************************************************************)
EXTENDS MPingPacket

\* buffer(offset, length)
Field(buffer, offset, length) == SubSeq(buffer, offset + 1, offset + length)

uint(bytes) == Value(bytes)
le_uint(bytes) == Value(Reverse(bytes))

AF_INET == 2
AF_INET6 == 10

(***************************************************************************)
(* One Host section: what it shows, and the expert infos it raises when it *)
(* disagrees with the address and port of the UDP and IP headers.          *)
(***************************************************************************)
dissect_host(buffer, offset, addr, port, side) ==
  LET family == le_uint(Field(buffer, offset, 2))
      host_port == uint(Field(buffer, offset + 2, 2))
      host_addr == IF family = AF_INET6
                     THEN V6(Field(buffer, offset + 8, 16))
                     ELSE V4(Field(buffer, offset + 4, 4))
  IN  IF family \in {AF_INET, AF_INET6}
        THEN [addr |-> host_addr,
              port |-> host_port,
              experts |-> (IF host_port = port THEN {} ELSE {<<side, "mismatch_port">>})
                     \union (IF host_addr = addr THEN {} ELSE {<<side, "mismatch_addr">>})]
        ELSE [addr |-> V4(<<>>), port |-> 0, experts |-> {<<side, "invalid_family">>}]

NoView == [shown |-> FALSE]

(***************************************************************************)
(* header: the source and destination of the datagram (pinfo).  The fields *)
(* mping.seq_no and mping.pid are declared as uint16, but Wireshark reads  *)
(* as many bytes as the range has, which is four.                          *)
(***************************************************************************)
dissector(buffer, header) ==
  LET source == dissect_host(buffer, 8, header.src, header.src_port, "src")
      destination == dissect_host(buffer, 136, header.dst, header.dst_port, "dst")
      type == buffer[5]
  IN  IF Len(buffer) < 288 \/ Field(buffer, 0, 4) # MPING_STATE_VERSION
        THEN NoView
        ELSE [shown |-> TRUE,
              type |-> type,
              ttl |-> uint(Field(buffer, 5, 1)),
              src_host |-> source.addr, src_port |-> source.port,
              dest_host |-> destination.addr, dest_port |-> destination.port,
              seq |-> uint(Field(buffer, 264, 4)),
              pid |-> uint(Field(buffer, 268, 4)),
              seconds |-> uint(Field(buffer, 272, 8)),
              microseconds |-> uint(Field(buffer, 280, 8)),
              experts |-> (IF type \in {"s", "r"} THEN {} ELSE {<<"type", "depracated_version">>})
                            \union source.experts \union destination.experts]

==============================================================================

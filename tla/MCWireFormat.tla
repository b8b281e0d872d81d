---------------------------- MODULE MCWireFormat ----------------------------
(***************************************************************************)
(* Instances of WireFormat for TLC.  Every byte of an address differs from *)
(* its neighbours, so that a shifted or reversed address is noticed.       *)
(***************************************************************************)
EXTENDS WireFormat

MCUnspecified == {V6(Zeros(16)), V4(Zeros(4))}
MCHost6 == V6([i \in 1 .. 16 |-> (i + 4) % Radix])
MCGroup6 == V6([i \in 1 .. 16 |-> (3 * i + 1) % Radix])
MCHost4 == V4([i \in 1 .. 4 |-> i + 6])
MCGroup4 == V4([i \in 1 .. 4 |-> 15 - i])

MCInterface ==
  [v \in {4, 6} |-> IF v = 6 THEN V6([i \in 1 .. 16 |-> i % Radix])
                             ELSE V4([i \in 1 .. 4 |-> i])]

MCEphemeralPort == 200

\* A base state for each family, and one field at a time at the
\* ends of its range.
MCBase(src, dst) == MPingStateOf("s", 5, src, 18, dst, 33, 255, 4660, 0)

MCVariations(s) ==
  {s} \union {[s EXCEPT !.ttl = x] : x \in {0, Radix - 1}}
      \union {[s EXCEPT !.src_port = x] : x \in {0, Radix * Radix - 1}}
      \union {[s EXCEPT !.dest_port = x] : x \in {1, Radix * Radix - 1}}
      \union {[s EXCEPT !.seq = x] : x \in {0, SeqMax - 1, SeqMax}}
      \union {[s EXCEPT !.pid = x] : x \in {0, SeqMax}}

\* Within each family, and across them both ways: from IPv6 to IPv4, which the
\* kernel sends, and from IPv4 to IPv6, which it refuses.
MCSenders ==
  UNION ({MCVariations(MCBase(src, MCGroup6)) : src \in {MCHost6, V6(Zeros(16))}}
           \union
         {MCVariations(MCBase(src, MCGroup4)) : src \in {MCHost4, V4(Zeros(4))}}
           \union
         {{MCBase(src, MCGroup4) : src \in {MCHost6, V6(Zeros(16))}},
          {MCBase(MCHost4, MCGroup6)}})

\* Around whole seconds and microseconds, and beyond one byte of seconds.
MCTimes ==
  {0, 1} \union
  {k * NanosPerSecond + d : k \in {1, Radix + 1}, d \in {-1, 0, 1, NanosPerMicro}}

=============================================================================

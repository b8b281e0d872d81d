---------------------------- MODULE Configuration ----------------------------
(***************************************************************************)
(* MPingSender::Configuration (src/src/configuration.cpp): from the        *)
(* command line to the values main uses.                                   *)
(*                                                                         *)
(* An option is <<>> when it is absent and <<x>> when it is given as x.    *)
(* Ports are given as integers and the TTL as its decimal digits, because  *)
(* boost::program_options converts them differently.                       *)
(***************************************************************************)
EXTENDS Integers, Sequences

CONSTANTS
  PortMax,      \* std::numeric_limits<uint16_t>::max()
  IsClang,      \* __clang__: --log-level is not registered
  LogLevels     \* trace, debug, info, warning, error, fatal

\* The default port fits.
ASSUME PortMaxAssumption == PortMax \in Nat /\ 4321 <= PortMax

Given(option) == option # <<>>
ValueOr(option, default) == IF Given(option) THEN option[1] ELSE default

(***************************************************************************)
(* boost::lexical_cast, external.  To uint16_t: an integer in range; a     *)
(* minus sign is accepted and wraps.  To uint8_t, which is unsigned char:  *)
(* a text of one character, whose code is the value ("0" is 48).           *)
(***************************************************************************)
IsUint16(n) == -PortMax <= n /\ n <= PortMax
ToUint16(n) == n % (PortMax + 1)

IsUint8(text) == Len(text) = 1
ToUint8(text) == 48 + text[1]

\* store: converts every registered option that is given, and throws when
\* a conversion fails.
Stored(args) ==
  /\ Given(args.log_level) /\ ~IsClang => args.log_level[1] \in LogLevels
  /\ Given(args.bind_port) => IsUint16(args.bind_port[1])
  /\ Given(args.port) => IsUint16(args.port[1])
  /\ Given(args.ttl) => IsUint8(args.ttl[1])

\* notify: throws when a required option is missing.
Notified(args) == Given(args.bind_address) /\ Given(args.interface_name)

(***************************************************************************)
(* The constructor: it throws, prints the help and exits, or returns.      *)
(* Conversions come before --help, required options after it.              *)
(***************************************************************************)
Outcome(args) ==
  CASE ~Stored(args) -> "throw"
    [] Stored(args) /\ args.help -> "help"
    [] Stored(args) /\ ~args.help /\ ~Notified(args) -> "throw"
    [] OTHER -> "ok"

ConfigurationOf(args) ==
  [bind_address |-> args.bind_address[1],
   bind_port |-> IF Given(args.bind_port) THEN ToUint16(args.bind_port[1]) ELSE 4321,
   address |-> ValueOr(args.address, "ff2e::42"),
   port |-> IF Given(args.port) THEN ToUint16(args.port[1]) ELSE 4321,
   ttl |-> IF Given(args.ttl) THEN ToUint8(args.ttl[1]) ELSE 64,
   interface_name |-> args.interface_name[1],
   log_level |-> IF IsClang THEN "info" ELSE ValueOr(args.log_level, "info")]

get_bind_address(c) == c.bind_address
get_bind_port(c) == c.bind_port
get_address(c) == c.address
get_port(c) == c.port
get_ttl(c) == c.ttl
get_interface_name(c) == c.interface_name

==============================================================================

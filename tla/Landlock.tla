------------------------------ MODULE Landlock ------------------------------
(***************************************************************************)
(* LandlockRuleset (src/src/landlock.cpp): a client builds rulesets, adds  *)
(* rules to them and restricts itself with them, in any order.             *)
(*                                                                         *)
(* The kernel is external.  landlock_create_ruleset refuses an empty set   *)
(* of accesses and those its ABI does not know; landlock_add_rule refuses  *)
(* accesses that the ruleset does not handle; landlock_restrict_self       *)
(* copies the ruleset as one more layer, needs no_new_privs or             *)
(* CAP_SYS_ADMIN, and refuses more than MaxLayers of them.  An access is   *)
(* granted if every layer that handles it has a rule for it.               *)
(***************************************************************************)
EXTENDS Integers, Sequences

CONSTANTS
  Accesses,     \* the access rights the client may name
  Paths,        \* the directories it may open
  AbiOf,        \* for each access right, the first ABI that knows it
  Abis,         \* what landlock_create_ruleset may answer: -1 or an ABI
  MaxLayers     \* LANDLOCK_MAX_NUM_LAYERS, 16

ASSUME LandlockAssumption ==
  AbiOf \in [Accesses -> Nat] /\ Abis \subseteq Int /\ MaxLayers \in Nat \ {0}

VARIABLES
  host,         \* its ABI, and whether the process has CAP_SYS_ADMIN there
  nnp,          \* no_new_privs
  ruleset,      \* <<>> or <<the kernel's ruleset behind the object's fd>>
  layers,       \* the rulesets that restrict the process
  told,         \* what the calls on the object that returned have asked for
  promised,     \* "told" at each restrict_self that returned
  result        \* how the last call ended

landlockVars == <<host, nnp, ruleset, layers, told, promised, result>>

NewRuleset(handled) == [handled |-> handled, rules |-> {}]
WithRules(r, accesses, path) == [r EXCEPT !.rules = @ \union (accesses \X {path})]

\* The kernel grants access a beneath p under one ruleset, under all layers.
Grants(r, a, p) == a \notin r.handled \/ <<a, p>> \in r.rules
Granted(a, p) == \A i \in DOMAIN layers : Grants(layers[i], a, p)

\* The system calls succeed.
create_ruleset(handled) == handled # {} /\ \A a \in handled : AbiOf[a] <= host.abi
add_rule(accesses) == ruleset # <<>> /\ accesses # {} /\ accesses \subseteq ruleset[1].handled
restrict == ruleset # <<>> /\ (nnp \/ host.admin) /\ Len(layers) < MaxLayers

abi_version == host.abi

------------------------------------------------------------------------------

LandlockInit ==
  /\ host \in [abi : Abis, admin : BOOLEAN]
  /\ nnp \in BOOLEAN
  /\ ruleset = <<>>
  /\ layers = <<>>
  /\ told = NewRuleset({})
  /\ promised = <<>>
  /\ result = "ok"

Returns(cond) == result' = IF cond THEN "ok" ELSE "throw"

\* The constructor.  When it throws there is no object.
LandlockRuleset(handled) ==
  /\ Returns(abi_version >= 6 /\ create_ruleset(handled))
  /\ ruleset' = IF result' = "ok" THEN <<NewRuleset(handled)>> ELSE <<>>
  /\ told' = NewRuleset(handled)
  /\ UNCHANGED <<host, nnp, layers, promised>>

add_path_beneath_rule(accesses, path) ==
  /\ ruleset # <<>>
  /\ Returns(add_rule(accesses))
  /\ IF result' = "ok"
       THEN /\ ruleset' = <<WithRules(ruleset[1], accesses, path)>>
            /\ told' = WithRules(told, accesses, path)
       ELSE UNCHANGED <<ruleset, told>>
  /\ UNCHANGED <<host, nnp, layers, promised>>

\* Variant: the result of landlock_restrict_self is not looked at.
restrict_self_unchecked ==
  /\ ruleset # <<>>
  /\ result' = "ok"
  /\ layers' = IF restrict THEN Append(layers, ruleset[1]) ELSE layers
  /\ promised' = Append(promised, told)
  /\ UNCHANGED <<host, nnp, ruleset, told>>

restrict_self ==
  /\ ruleset # <<>>
  /\ Returns(restrict)
  /\ IF result' = "ok"
       THEN layers' = Append(layers, ruleset[1]) /\ promised' = Append(promised, told)
       ELSE UNCHANGED <<layers, promised>>
  /\ UNCHANGED <<host, nnp, ruleset, told>>

\* Something else, such as capng_lock, sets no_new_privs.
SetNoNewPrivs ==
  /\ ~nnp
  /\ nnp' = TRUE
  /\ UNCHANGED <<host, ruleset, layers, told, promised, result>>

LandlockNext ==
  \/ \E handled \in SUBSET Accesses : LandlockRuleset(handled)
  \/ \E accesses \in SUBSET Accesses, path \in Paths :
       add_path_beneath_rule(accesses, path)
  \/ restrict_self
  \/ SetNoNewPrivs

LandlockSpec == LandlockInit /\ [][LandlockNext]_landlockVars

------------------------------------------------------------------------------

(***************************************************************************)
(* What restrict_self promises, for good: whatever the client does later   *)
(* (rules on the same object, another object, a layer too many), it is     *)
(* refused exactly the accesses that some constructor was told to handle   *)
(* and that had no rule when restrict_self returned.  The three results    *)
(* are checked, so no call returns that the kernel did not accept.         *)
(***************************************************************************)
RestrictedAsTold ==
  \A a \in Accesses, p \in Paths :
    Granted(a, p) <=> \A i \in DOMAIN promised : Grants(promised[i], a, p)

==============================================================================

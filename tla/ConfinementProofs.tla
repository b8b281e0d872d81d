-------------------------- MODULE ConfinementProofs --------------------------
(***************************************************************************)
(* Proofs about the two classes that confine the process: SeccompFilter,   *)
(* for all sets of system calls and requests, and Landlock, for every      *)
(* kernel ABI, every set of accesses and paths and every limit of layers.  *)
(***************************************************************************)
EXTENDS SeccompFilter, Landlock, TLAPS

\* The inductive invariant: the pointer is null once the context is released.
Owned == NoUseAfterRelease /\ (ctx # "null" => allocated)

(***************************************************************************)
(* No operation hands a released context to libseccomp: release clears the *)
(* pointer, and every operation looks at it first.                         *)
(***************************************************************************)
THEOREM ReleasedForGood == FilterSpec => []NoUseAfterRelease
<1>1. FilterInit => Owned
  BY DEF FilterInit, Owned, NoUseAfterRelease
<1>2. Owned /\ [FilterNext]_filterVars => Owned'
  <2> SUFFICES ASSUME Owned, [FilterNext]_filterVars PROVE Owned'
    OBVIOUS
  <2> USE DEF Owned, NoUseAfterRelease, Use, is_useable
  <2>1. ASSUME NEW s \in Requests, NEW lost, add_allow(s, lost) PROVE Owned'
    BY <2>1, Zenon DEF add_allow
  <2>2. ASSUME NEW s \in Requests, NEW lost, add_kill(s, lost) PROVE Owned'
    BY <2>2, Zenon DEF add_kill
  <2>3. CASE load
    BY <2>3, Zenon DEF load
  <2>4. ASSUME NEW def_action \in Actions, reset(def_action) PROVE Owned'
    BY <2>4, Zenon DEF reset
  <2>5. CASE release
    BY <2>5, Zenon DEF release
  <2>6. CASE UNCHANGED filterVars
    BY <2>6, Zenon DEF filterVars
  <2> QED BY <2>1, <2>2, <2>3, <2>4, <2>5, <2>6 DEF FilterNext
<1>3. Owned => NoUseAfterRelease
  BY DEF Owned
<1> QED BY <1>1, <1>2, <1>3, PTL DEF FilterSpec

------------------------------------------------------------------------------
\* The inductive invariant: the client's picture of its object and of its
\* layers is the kernel's.
SamePicture ==
  /\ ruleset # <<>> => ruleset = <<told>>
  /\ promised = layers

\* Each call keeps the two pictures equal, because each looks at the result
\* of its system call.
LEMMA SamePictureStep ==
  SamePicture /\ [LandlockNext]_landlockVars => SamePicture'
<1> SUFFICES ASSUME SamePicture, [LandlockNext]_landlockVars PROVE SamePicture'
  OBVIOUS
<1> USE DEF SamePicture
<1>1. ASSUME NEW handled \in SUBSET Accesses, LandlockRuleset(handled)
      PROVE  SamePicture'
  BY <1>1 DEF LandlockRuleset
<1>2. ASSUME NEW accesses \in SUBSET Accesses, NEW path \in Paths,
             add_path_beneath_rule(accesses, path)
      PROVE  SamePicture'
  <2>1. ruleset = <<told>> /\ ruleset[1] = told
    BY <1>2 DEF add_path_beneath_rule
  <2> QED BY <1>2, <2>1 DEF add_path_beneath_rule
<1>3. CASE restrict_self
  <2>1. ruleset[1] = told
    BY <1>3 DEF restrict_self
  <2> QED BY <1>3, <2>1 DEF restrict_self
<1>4. CASE SetNoNewPrivs
  BY <1>4 DEF SetNoNewPrivs
<1>5. CASE UNCHANGED landlockVars
  BY <1>5 DEF landlockVars
<1> QED BY <1>1, <1>2, <1>3, <1>4, <1>5 DEF LandlockNext

(***************************************************************************)
(* The calls that returned describe exactly what the process may still do, *)
(* whatever sequence of calls of LandlockRuleset led there.                *)
(***************************************************************************)
THEOREM RestrictionsHold == LandlockSpec => []RestrictedAsTold
<1>1. LandlockInit => SamePicture
  BY DEF LandlockInit, SamePicture
<1>2. SamePicture => RestrictedAsTold
  BY DEF SamePicture, RestrictedAsTold, Granted
<1> QED BY <1>1, <1>2, SamePictureStep, PTL DEF LandlockSpec

==============================================================================

--------------------------- MODULE ObjectLifetime ---------------------------
(***************************************************************************)
(* What com::RefCount (include/lyrium/com/ref_count.h) promises about one  *)
(* shared object: it is born with one reference, references are taken only *)
(* while one exists, the step that drops the last one starts its           *)
(* destruction, and nothing brings it back.                                *)
(*                                                                         *)
(* ResettableTexture is shown to implement this specification.             *)
(***************************************************************************)
EXTENDS Naturals

VARIABLES
  count,   (* count_: the references that exist                            *)
  phase    (* unborn, live, dying (the destructor runs) or freed           *)

lifetimeVars == <<count, phase>>

Phases == {"unborn", "live", "dying", "freed"}

Init == count = 0 /\ phase = "unborn"

(* The constructor: RefCount starts at 1.                                  *)
Birth == /\ phase = "unborn"
         /\ count' = 1
         /\ phase' = "live"

(* add_ref by an owner of a reference, or a successful try_add_ref.        *)
Acquire == /\ phase = "live"
           /\ count > 0
           /\ count' = count + 1
           /\ UNCHANGED phase

(* release: the caller that reads zero owns the destruction.               *)
Drop == /\ phase = "live"
        /\ count > 0
        /\ count' = count - 1
        /\ phase' = IF count = 1 THEN "dying" ELSE "live"

(* The destructor's last act returns the object's memory.                  *)
Destroy == /\ phase = "dying"
           /\ phase' = "freed"
           /\ UNCHANGED count

Next == Birth \/ Acquire \/ Drop \/ Destroy

Spec == Init /\ [][Next]_lifetimeVars
=============================================================================

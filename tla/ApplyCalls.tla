----------------------------- MODULE ApplyCalls -----------------------------
(***************************************************************************)
(* An apply as its caller sees it: three calls in a row, find_ap, the PUT  *)
(* of set_radio and its re-fetch, each of which succeeds or fails for      *)
(* good.  Only the PUT changes the radio, once and to what was asked for,  *)
(* and a PUT that fails may have done so.  FindAp, PutRadio and Refetch of *)
(* Scheduler rest on exactly this.                                         *)
(***************************************************************************)
CONSTANT Combos

VARIABLES step,      \* the call in progress, "idle" between applies
          want,      \* the combination to apply
          setting,   \* the combination the target radio is configured for
          result     \* how the last apply ended, "none" before it did

vars == <<step, want, setting, result>>

Fail == step' = "idle" /\ result' \in {"unifi", "net"}

Begin == /\ step = "idle" /\ step' = "find"
         /\ want' \in Combos /\ result' = "none"
         /\ UNCHANGED setting

FindAp == /\ step = "find"
          /\ (step' = "put" /\ UNCHANGED result) \/ Fail
          /\ UNCHANGED <<want, setting>>

PutRadio == /\ step = "put"
            /\ \/ step' = "refetch" /\ setting' = want /\ UNCHANGED result
               \/ Fail /\ setting' \in {setting, want}
            /\ UNCHANGED want

Refetch == /\ step = "refetch"
           /\ (step' = "idle" /\ result' = "ok") \/ Fail
           /\ UNCHANGED <<want, setting>>

Init == step = "idle" /\ want \in Combos /\ setting \in Combos /\ result = "none"

Next == Begin \/ FindAp \/ PutRadio \/ Refetch

Spec == Init /\ [][Next]_vars
=============================================================================

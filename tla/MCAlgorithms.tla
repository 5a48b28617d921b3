---------------------------- MODULE MCAlgorithms ----------------------------
(***************************************************************************)
(* The three small components that are functions of their input, in one    *)
(* state space: updates of a screen of ten rows, whose middle band has     *)
(* room for gaps that are absorbed and for one that stays open; a review   *)
(* of two configuration files of two regions; and a material file.  Each   *)
(* moves while the other two have not begun.                               *)
(***************************************************************************)
EXTENDS RowRuns, BasePlan, MaterialCache, TLC

SmallBands == <<<<0, 2>>, <<2, 8>>, <<8, 10>>>>

\* Vendor texts with the regions v and w, and a local change x in either region.
SmallTexts == {<<"v", "v">>, <<"x", "v">>, <<"v", "w">>, <<"w", "x">>}

SmallLines ==
  {[kind |-> "section", name |-> n] : n \in {"slot", "other"}} \cup
  {[kind |-> "setting", slot |-> 0, value |-> v] : v \in {3, 99, Unparsable}}
SmallHeats == 0 :> 220 @@ 3 :> 250

Init == RowsInit /\ UpdateInit /\ CacheInit
Next ==
  \/ stage = "off" /\ file = NoFile /\ now = 0 /\ RowsNext /\ UNCHANGED <<updateVars, cacheVars>>
  \/ changed = {} /\ file = NoFile /\ now = 0 /\ UpdateNext /\ UNCHANGED <<changed, cacheVars>>
  \/ changed = {} /\ stage = "off" /\ CacheNext /\ UNCHANGED <<changed, updateVars>>
Spec == Init /\ [][Next]_<<changed, updateVars, cacheVars>>
=============================================================================

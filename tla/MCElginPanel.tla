----------------------------- MODULE MCElginPanel -----------------------------
(***************************************************************************)
(* Instances of ElginPanel: two levels a user may ask for besides the      *)
(* default.                                                                *)
(***************************************************************************)
EXTENDS ElginPanel

ThreeLevels == {1, 2, 3}
===============================================================================

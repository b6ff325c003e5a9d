-------------------------------- MODULE Parts -------------------------------
(***************************************************************************)
(* Components examined by one run, one at a time.  A behaviour is one of   *)
(* the component that part names.  Its variables are the first of v1..v18, *)
(* in the order of its instance; the others are not used.  The states of   *)
(* such a run are the states of its components together: the components do *)
(* not interact in it.                                                     *)
(***************************************************************************)
EXTENDS Naturals, TLC

CONSTANT None

VARIABLES part, v1, v2, v3, v4, v5, v6, v7, v8, v9, v10, v11, v12, v13, v14, v15, v16, v17,
          v18

vars == <<part, v1, v2, v3, v4, v5, v6, v7, v8, v9, v10, v11, v12, v13, v14, v15, v16, v17,
          v18>>

\* A condition on the component p.
In(p, condition) == part = p /\ condition

\* A component of n variables leaves the others alone.
Unused(n) ==
    /\ IF n < 1 THEN v1 = None ELSE TRUE
    /\ IF n < 2 THEN v2 = None ELSE TRUE
    /\ IF n < 3 THEN v3 = None ELSE TRUE
    /\ IF n < 4 THEN v4 = None ELSE TRUE
    /\ IF n < 5 THEN v5 = None ELSE TRUE
    /\ IF n < 6 THEN v6 = None ELSE TRUE
    /\ IF n < 7 THEN v7 = None ELSE TRUE
    /\ IF n < 8 THEN v8 = None ELSE TRUE
    /\ IF n < 9 THEN v9 = None ELSE TRUE
    /\ IF n < 10 THEN v10 = None ELSE TRUE
    /\ IF n < 11 THEN v11 = None ELSE TRUE
    /\ IF n < 12 THEN v12 = None ELSE TRUE
    /\ IF n < 13 THEN v13 = None ELSE TRUE
    /\ IF n < 14 THEN v14 = None ELSE TRUE
    /\ IF n < 15 THEN v15 = None ELSE TRUE
    /\ IF n < 16 THEN v16 = None ELSE TRUE
    /\ IF n < 17 THEN v17 = None ELSE TRUE
    /\ IF n < 18 THEN v18 = None ELSE TRUE

Still(n) ==
    /\ UNCHANGED part
    /\ IF n < 1 THEN UNCHANGED v1 ELSE TRUE
    /\ IF n < 2 THEN UNCHANGED v2 ELSE TRUE
    /\ IF n < 3 THEN UNCHANGED v3 ELSE TRUE
    /\ IF n < 4 THEN UNCHANGED v4 ELSE TRUE
    /\ IF n < 5 THEN UNCHANGED v5 ELSE TRUE
    /\ IF n < 6 THEN UNCHANGED v6 ELSE TRUE
    /\ IF n < 7 THEN UNCHANGED v7 ELSE TRUE
    /\ IF n < 8 THEN UNCHANGED v8 ELSE TRUE
    /\ IF n < 9 THEN UNCHANGED v9 ELSE TRUE
    /\ IF n < 10 THEN UNCHANGED v10 ELSE TRUE
    /\ IF n < 11 THEN UNCHANGED v11 ELSE TRUE
    /\ IF n < 12 THEN UNCHANGED v12 ELSE TRUE
    /\ IF n < 13 THEN UNCHANGED v13 ELSE TRUE
    /\ IF n < 14 THEN UNCHANGED v14 ELSE TRUE
    /\ IF n < 15 THEN UNCHANGED v15 ELSE TRUE
    /\ IF n < 16 THEN UNCHANGED v16 ELSE TRUE
    /\ IF n < 17 THEN UNCHANGED v17 ELSE TRUE
    /\ IF n < 18 THEN UNCHANGED v18 ELSE TRUE
=============================================================================

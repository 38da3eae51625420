-------------------------------- MODULE MCSay --------------------------------
(* Three posts: two for one file, the second with --force or without, and one  *)
(* that prints its record.                                                     *)
EXTENDS Say, TLC

CONSTANTS p1, p2, p3, path1

MCRecord == p1 :> path1 @@ p2 :> path1 @@ p3 :> None
=============================================================================

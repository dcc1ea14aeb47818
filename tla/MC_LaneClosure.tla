--------------------------- MODULE MC_LaneClosure ---------------------------
(* A small navigation graph for LaneClosure:                               *)
(*                                                                         *)
(*     W0 (0,0) --0--> W1 (2,0) --1--> W2 (4,0) --2--> W3 (4,2)            *)
(*        <----3----                                                        *)
(*                                                                         *)
(* Lane 0 has a reverse lane (3); lanes 1 and 2 do not.  The plan starts   *)
(* at W0, reaches W2 over the collinear lanes 0 and 1 (one plan waypoint   *)
(* with two approach lanes), then W3 over lane 2.  Robot locations cover   *)
(* the lanes, their endpoints and points beside them.                      *)
EXTENDS LaneClosure

MC_Location == [w \in 0..3 |-> CASE w = 0 -> <<0, 0>>
                                 [] w = 1 -> <<2, 0>>
                                 [] w = 2 -> <<4, 0>>
                                 [] w = 3 -> <<4, 2>>]
MC_Entry == [l \in 0..3 |-> CASE l = 0 -> 0 [] l = 1 -> 1 [] l = 2 -> 2 [] l = 3 -> 1]
MC_Exit == [l \in 0..3 |-> CASE l = 0 -> 1 [] l = 1 -> 2 [] l = 2 -> 3 [] l = 3 -> 0]
MC_Approach == [i \in 0..2 |-> CASE i = 0 -> {} [] i = 1 -> {0, 1} [] i = 2 -> {2}]
MC_Positions == (0..4) \X (-1..1) \cup {<<5, 1>>, <<4, 3>>}
=============================================================================

---------------------------- MODULE CloudSource ----------------------------
(***************************************************************************)
(* What a source of point clouds promises to the application that drains   *)
(* it (cwipc_util/api.h, class cwipc_source, and the contract of           *)
(* get_pointcloud() in internal/capturers.hpp: "The caller is now the      *)
(* owner of this point cloud").                                            *)
(*                                                                         *)
(* Clouds are numbered in the order in which the source makes them.  A     *)
(* cloud belongs to the source from its creation until it is either handed *)
(* to the application or freed.  The application receives clouds in the    *)
(* order they were made, each at most once, and what the application owns  *)
(* the source never frees: there is no action from "caller".               *)
(***************************************************************************)
EXTENDS Naturals

CONSTANT MaxClouds      \* bound on the number of clouds the source makes

VARIABLES
    where,              \* where[i]: the owner of cloud i, or what became of it
    last                \* the most recent cloud handed out, 0 before the first

Clouds == 1 .. MaxClouds

Places == {"unmade", "source", "caller", "freed"}

Init ==
    /\ where = [i \in Clouds |-> "unmade"]
    /\ last = 0

Make(i) ==
    /\ where[i] = "unmade"
    /\ \A j \in Clouds : j < i => where[j] # "unmade"
    /\ where' = [where EXCEPT ![i] = "source"]
    /\ UNCHANGED last

Deliver(i) ==
    /\ where[i] = "source"
    /\ last < i
    /\ where' = [where EXCEPT ![i] = "caller"]
    /\ last' = i

Discard(i) ==
    /\ where[i] = "source"
    /\ where' = [where EXCEPT ![i] = "freed"]
    /\ UNCHANGED last

Next == \E i \in Clouds : Make(i) \/ Deliver(i) \/ Discard(i)

Spec == Init /\ [][Next]_<<where, last>>
=============================================================================

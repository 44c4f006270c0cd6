---------------------------- MODULE MCLoginSystem ----------------------------
(***************************************************************************)
(* Two sides of one run.  On the side "any" the clients do to the server   *)
(* whatever clients may do, and the server is stopped.  On the side "one"  *)
(* the client of LoginClient is watched until it leaves or a receive       *)
(* returns several messages; the server goes on, and no send fails.        *)
(***************************************************************************)
EXTENDS LoginSystem

CONSTANTS i1, n1

VARIABLE side

MCKnown == {[id |-> i1, nick |-> n1]}

watched == <<all, side>>

MCInit ==
    /\ side \in {"any", "one"}
    /\ JointInit
    /\ side = "any" => accounts = {}

MCNext ==
    /\ UNCHANGED side
    /\ \/ side = "any" /\ NetNext /\ ServerAlone
       \/ /\ side = "one" /\ JointNext
          /\ ~joined /\ life # "left"
          /\ ~event' /\ stop' = "none" /\ failing'[Me] = 0

MCSpec ==
    /\ MCInit /\ [][MCNext]_watched
    /\ ThreadFairness /\ PlayerFairness
    /\ \A w \in Worker : WF_all(side = "any" /\ HandlePacket(w) /\ ServerAlone)
=============================================================================

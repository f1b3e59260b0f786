---------------------------- MODULE OneShotLogin ----------------------------
(***************************************************************************)
(* What runWebLogin promises Login: one verdict, reached once and kept:    *)
(* a token some browser offered together with the state of this login, or  *)
(* an error.                                                               *)
(***************************************************************************)
CONSTANTS Posts,        \* what browsers post to the callback server
          Pending,      \* no verdict yet
          Error         \* the verdict that the login failed

VARIABLES offered,      \* the posts that offered a token
          verdict

Init == offered = {} /\ verdict = Pending

Offer == \E p \in Posts \ offered :
            offered' = offered \cup {p} /\ UNCHANGED verdict

Decide == /\ verdict = Pending
          /\ verdict' \in offered \cup {Error}
          /\ UNCHANGED offered

Next == Offer \/ Decide

Spec == Init /\ [][Next]_<<offered, verdict>> /\ WF_<<offered, verdict>>(Decide)
=============================================================================

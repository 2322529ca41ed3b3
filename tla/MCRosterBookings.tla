-------------------------- MODULE MCRosterBookings --------------------------
(* Two Runs, two Characters, two requests at a time.  The first Run is       *)
(* published or still open, the second is open and starts close to it or     *)
(* exactly the minimum gap later; its draft may hold a withdrawn offer.      *)
EXTENDS RosterBookings, TLC

CONSTANTS r1, r2

Offers(one, two) == (1 :> one @@ 2 :> two)

FirstRun == {[status |-> "PUBLISHED", draft |-> {1}, signup |-> Offers("SELECTED", "PENDING")],
             [status |-> "OPEN", draft |-> {}, signup |-> Offers("PENDING", "PENDING")]}
SecondRun == {[status |-> "OPEN", draft |-> {}, signup |-> Offers("PENDING", "NONE")],
              [status |-> "OPEN", draft |-> {}, signup |-> Offers("PENDING", "PENDING")],
              [status |-> "OPEN", draft |-> {1}, signup |-> Offers("WITHDRAWN", "PENDING")]}

MCInit == /\ \E first \in FirstRun, second \in SecondRun, at \in {1, 2} :
                 /\ first.status = "PUBLISHED" <=> second.signup[2] = "NONE"
                 /\ status = (r1 :> first.status @@ r2 :> second.status)
                 /\ draft = (r1 :> first.draft @@ r2 :> second.draft)
                 /\ signup = (r1 :> first.signup @@ r2 :> second.signup)
                 /\ start = (r1 :> 0 @@ r2 :> at)
          /\ Init

MCSpec == MCInit /\ [][Next]_vars

RequestSymmetry == Permutations(Requests)
=============================================================================

--------------------------- MODULE MCFoundation ----------------------------
(***************************************************************************)
(* Foundation on small instances: one person who signs up with requests    *)
(* that overlap or do not, and two creators who edit their profiles.       *)
(***************************************************************************)
EXTENDS Foundation, TLC

CONSTANTS u1, u2, p1, p2, t1, k1, k2

SignUp == [users |-> {u1}, tabs |-> {}, routes |-> {"signIn", "creator", "brand"},
           known |-> FALSE]
Overlapping == {[alone |-> FALSE, refs |-> r, others |-> o] @@ SignUp :
                  r \in BOOLEAN, o \in SUBSET {"other"}}
OneByOne == [alone |-> TRUE, refs |-> TRUE, others |-> {}] @@ SignUp
Profiles == [users |-> {u1, u2}, tabs |-> {t1}, routes |-> {"save", "upload"},
             alone |-> TRUE, known |-> TRUE, refs |-> TRUE, others |-> {}]
AllWorkloads == Overlapping \cup {OneByOne, Profiles}
=============================================================================

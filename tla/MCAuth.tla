--------------------------------- MODULE MCAuth ---------------------------------
(***************************************************************************)
(* Model values for the runs of Auth.                                      *)
(***************************************************************************)
EXTENDS Auth, TLC

CONSTANTS h1, h2, e1, e2, n1, n2, w1, w2

\* Both addresses begin alike.
SamePrefix == [e \in Emails |-> n1]
\* Registrations by address alone, and two that leave the address out.
Plain == (Emails \X {Undefined}) \cup ({Undefined} \X {n2, Undefined})
\* Every combination of an address and a nickname, or none.
Full == Emails \X {n2, Undefined}
NoSeeds == << >>
\* The seeded accounts have names a registration can choose or be given.
SeededPair == <<[username |-> n2, email |-> e2, password |-> w2],
                [username |-> n1, email |-> e1, password |-> w2]>>

\* The seeds tell addresses, names and passwords apart; handlers are alike.
Symmetry == Permutations(Handlers)
=============================================================================

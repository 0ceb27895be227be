---------------------------- MODULE MCOperators ----------------------------
EXTENDS Operators

CONSTANTS p1, k1, i1, i2, d1, d2, e1

\* The two clients are interchangeable.
MCSymmetry == Permutations(Clients)

MCSpecification(devices, sample) ==
    [location |-> None, bridge |-> None, interfaces |-> i1 :> [name |-> "can0", sample |-> sample],
     devices |-> [d \in devices |-> [interface |-> i1, description |-> None,
                                     tags |-> {"text"}]],
     executors |-> <<>>]

\* A file with a peer and a cluster; the same peer with an Executable; a peer
\* whose devices name an interface it does not have; a sample point of one.
MCFiles ==
    {<<[peer |-> p1, spec |-> MCSpecification({d1, d2}, 999)],
       [cluster |-> k1, devices |-> {d1}]>>,
     <<[peer |-> p1, spec |-> [MCSpecification({d1}, None) EXCEPT
           !.executors = e1 :> [image |-> None, name |-> None, results |-> None]]]>>,
     <<[peer |-> p1, spec |-> [MCSpecification({d1}, None) EXCEPT
           !.interfaces = i2 :> [name |-> "can0", sample |-> None]]]>>,
     <<[peer |-> p1, spec |-> MCSpecification({}, 1000)]>>}
=============================================================================

----------------------------- MODULE MCGateway -----------------------------
EXTENDS Gateway, TLC
CONSTANTS d1, d2

Line == [devices |-> {d1, d2},
         consents |-> {{"monitor"}, {"monitor", "takeover"}},
         services |-> {"aokie"}, owner |-> 2,
         leases |-> 2, gens |-> 0, asks |-> 0, ends |-> 0, mutes |-> 0,
         queue |-> 1]
Help == [devices |-> {d1},
         consents |-> {{"takeover", "consult", "help"}},
         services |-> {"aokie"}, owner |-> 2,
         leases |-> 1, gens |-> 1, asks |-> 2, ends |-> 0, mutes |-> 0,
         queue |-> 0]
End == [devices |-> {d1}, consents |-> {{"takeover"}},
        services |-> {"aokie", "takeover"}, owner |-> 2,
        leases |-> 1, gens |-> 2, asks |-> 0, ends |-> 2, mutes |-> 1,
        queue |-> 0]
MCScopes == {Line, Help, End}
Symmetry == Permutations({d1, d2})
=============================================================================

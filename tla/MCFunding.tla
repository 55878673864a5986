------------------------------ MODULE MCFunding ------------------------------
EXTENDS Funding, TLC

\* Principals that the specification treats alike, and call contexts.
Interchangeable ==
    Permutations(Principals \ NonAuthenticating) \cup Permutations(Calls)

=============================================================================

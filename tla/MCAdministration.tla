--------------------------- MODULE MCAdministration ---------------------------
(***************************************************************************)
(* An instance of Administration: three tokens, a token that two requests  *)
(* describe differently, one whose scale does not fit, and requests that   *)
(* each break one rule.                                                    *)
(***************************************************************************)
EXTENDS Administration

CONSTANTS alice, bob, none, open, restricted, A, B, C

MCCallers == {alice, bob}
MCControllers == {alice}

\* A request that lists base/quote with the given decimals, tick and lot.
Ask(base, bd, quote, qd, tick, lot) ==
    [base |-> base, base_metadata |-> bd, quote |-> quote,
     quote_metadata |-> qd, tick |-> tick, lot |-> lot,
     min |-> 1, max |-> none, maker |-> 0, taker |-> 1]

Good ==
    {Ask(A, 1, B, 2, 5, 2), Ask(B, 2, A, 1, 10, 10), Ask(B, 1, A, 1, 5, 4),
     Ask(C, 0, A, 1, 1, 1), Ask(A, 1, C, 0, 10, 1), Ask(A, 0, C, 0, 3, 1),
     Ask(A, 1, C, 1, 2, 5), Ask(B, 1, C, 0, 5, 2), Ask(A, 1, B, 2, 10, 3)}

Bad ==
    {[Ask(A, 1, B, 2, 5, 2) EXCEPT !.tick = 0],
     [Ask(A, 1, B, 2, 5, 2) EXCEPT !.lot = 0],
     [Ask(A, 1, B, 2, 5, 2) EXCEPT !.maker = 3],
     [Ask(A, 1, B, 2, 5, 2) EXCEPT !.min = 3, !.max = 2],
     Ask(A, 1, A, 1, 5, 2), Ask(A, 1, C, 0, 3, 1), Ask(C, 1, B, 0, 3, 1)}

MCRequests == Good \cup Bad

MCInitArgs ==
    {[mode |-> open, chunk |-> 1, budget |-> 1, units |-> none],
     [mode |-> restricted, chunk |-> 0, budget |-> 1, units |-> 2]}

MCUpgradeArgs ==
    {none,
     [mode |-> restricted, chunk |-> none, budget |-> none, units |-> none],
     [mode |-> none, chunk |-> 2, budget |-> none, units |-> none],
     [mode |-> none, chunk |-> none, budget |-> 2, units |-> 1],
     [mode |-> open, chunk |-> none, budget |-> 3, units |-> none],
     [mode |-> none, chunk |-> none, budget |-> none, units |-> 0]}
=============================================================================

------------------------------ MODULE MCAccounts ------------------------------
(* Model checking of Accounts and Relations.                                *)
EXTENDS Relations, TLC

CONSTANTS a1, a2, a3, g, p1, p2, t1, t2, r0, r1, r2, r3, r4

SomeAddressOf == (g :> a2)

Lower(as) == [address : as, lower : {TRUE}]

S(o, ac, pe, em) == [overlap |-> o, access |-> ac, people |-> pe, emails |-> em]

SomeModes == { S(TRUE, TRUE, FALSE, Lower({a1, a2})),
               S(TRUE, FALSE, FALSE, [address : {a1, a2}, lower : BOOLEAN]),
               S(TRUE, FALSE, TRUE, Lower({a1, a2})),
               S(FALSE, FALSE, TRUE, Lower({a1, a2, a3})) }

Interchangeable == Permutations({p1, p2}) \cup Permutations({t1, t2})
                   \cup Permutations({r1, r2, r3, r4})
=============================================================================

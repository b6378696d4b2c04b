--------------------------- MODULE MCProposalCheck ---------------------------
(* ProposalCheck with two burns and a failed deposit, for TLC. *)
EXTENDS ProposalCheck, TLC

CONSTANTS b1, b2, d1, alice, bob, frozen

Pays(to, amount, cross) == [to |-> to, amount |-> amount, cross |-> cross]

\* One asset; one that a rate of 2 divides; one of which it leaves a fraction;
\* one with too small a fee; two; one that may be paid of two.
Plain == <<Pays(alice, 5, 3)>>
Other == <<Pays(alice, 12, 8)>>
Odd   == <<Pays(alice, 10, 7)>>
Small == <<Pays(alice, 4, 4)>>
Two   == <<Pays(bob, 3, 1), Pays(alice, 3, 1)>>
Part  == <<Pays(bob, 4, 2), Pays(frozen, 4, 2)>>

\* The deposit of alice went to two side chains; or the rate of 2 divides it;
\* or its payload does not list all it sent to this one.
Listed   == <<[to |-> Bank, value |-> 5, listed |-> TRUE],
              [to |-> None, value |-> 2, listed |-> TRUE]>>
Halved   == <<[to |-> Bank, value |-> 10, listed |-> TRUE]>>
Unlisted == <<[to |-> Bank, value |-> 2, listed |-> TRUE],
              [to |-> Bank, value |-> 1, listed |-> FALSE]>>
DepositSender == d1 :> alice

World(r, first, second, outs, sent) ==
  [rate |-> r, burnt |-> b1 :> first @@ b2 :> second, deposited |-> d1 :> outs,
   listSent |-> sent]

ThreeWorlds == {World(1, Plain, Small, Listed, FALSE), World(2, Odd, Other, Halved, TRUE),
                World(1, Two, Part, Unlisted, TRUE)}

Purse == <<5, 5>>
===============================================================================

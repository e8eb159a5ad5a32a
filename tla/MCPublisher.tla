---------------------------- MODULE MCPublisher ----------------------------
(* Instances of Publisher for TLC.                                          *)
EXTENDS Publisher, TLC

Symmetry == Permutations(Subscribers)

\* What the code allows Subscribers to do: call the Publisher again while
\* nobody expires, or expire while nobody calls it again.
SafeContracts == {{"publish", "subscribe", "throw"}, {"publish", "subscribe"},
                  {"expire", "throw"}, {"expire"}}
=============================================================================

----------------------- MODULE MCCheckoutConversation -----------------------
(* A small instance of CheckoutConversation for TLC.                       *)
EXTENDS CheckoutConversation, TLC

CONSTANTS a1, a2, u1, u2

\* The handlers are alike.
UpdateSymmetry == Permutations(Updates)
=============================================================================

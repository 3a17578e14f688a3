----------------------------- MODULE MCCMarshal -----------------------------
(***************************************************************************)
(* Messages for CMarshal: nested twice, with a text too long for what a    *)
(* size_t leaves, a missing message, and a NULL string two levels down.    *)
(***************************************************************************)
EXTENDS CMarshal

MCFields ==
  [Empty |-> <<>>,
   Leaf |-> <<Fixed(4), Text(3)>>,
   Broken |-> <<Fixed(1), NullText>>,
   Middle |-> <<Nested("Leaf"), Fixed(8), Nested("Empty")>>,
   Root |-> <<Text(30), Nested("Middle"), Missing, Nested("Broken")>>,
   Pair |-> <<Nested("Middle"), Text(2), Nested("Leaf")>>]

MCTypes == DOMAIN MCFields
=============================================================================

------------------------------- MODULE MCLive -------------------------------
(***************************************************************************)
(* Three failed payments of one order under the authored configuration,    *)
(* with the keys of EMISSIONS and a text that was never read.              *)
(***************************************************************************)
EXTENDS Live, AuthoredConfig

Emitted3 == {AuthoredEmissions[r][c] : r \in {"upi", "card", "emandate"}, c \in FailureClass}
Unread == {k @@ ("file" :> NoFile) : k \in Emitted3}
NoFamilies == [m \in {} |-> {}]
=============================================================================

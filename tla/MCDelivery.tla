----------------------------- MODULE MCDelivery -----------------------------
(* Small instances of Delivery for TLC. *)
EXTENDS Delivery

\* E-mail has far fewer states than push.
MCMaxEvents == [email |-> 3, push |-> 1]
=============================================================================

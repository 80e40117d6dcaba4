------------------------ MODULE MCSubscriberEndpoint ------------------------
(* Instances of SubscriberEndpoint for TLC. *)
EXTENDS SubscriberEndpoint

Both == BOOLEAN

=============================================================================

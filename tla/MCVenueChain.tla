------------------------------ MODULE MCVenueChain ------------------------------
(* Instances of VenueChain for TLC. *)
EXTENDS VenueChain, MarketStudyChecks

CONSTANTS r1, r2

TwoRequests == {r1, r2}
=================================================================================

------------------------------ MODULE MCRacing ------------------------------
(***************************************************************************)
(* Two request threads of the credit service.  What the clients ask for is *)
(* chosen at the start: claims on the same rows, which end with MaxOps, or *)
(* a listing read while it changes.                                        *)
(***************************************************************************)
EXTENDS MCCredits

VARIABLE asked

RacingInit == asked \in {Claims, Browsing} /\ Init

RacingNext ==
  /\ Next
  /\ \A w \in Workers : session'[w].req \in asked \cup {NoRequest}
  /\ UNCHANGED asked

(* A step never changes what a worker was asked, so the fairness of        *)
(* Credits is that of this specification.                                  *)
RacingSpec == RacingInit /\ [][RacingNext]_<<vars, asked>> /\ Fairness
=============================================================================

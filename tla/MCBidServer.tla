----------------------------- MODULE MCBidServer -----------------------------
(***************************************************************************)
(* Instances of BidServer for TLC, with the campaigns of MCReservation.    *)
(* "open" outbids "even", so the two-impression request tells the best     *)
(* candidate from the first one.                                           *)
(***************************************************************************)
EXTENDS BidServer, TLC

MCCampaigns == {"even", "open"}
MCBidCPM == [c \in MCCampaigns |-> IF c = "even" THEN 2 ELSE 3]
MCDailyBudget == [c \in MCCampaigns |-> IF c = "even" THEN 6 ELSE 7]
MCQPS == [c \in MCCampaigns |-> IF c = "even" THEN 0 ELSE 1]
MCEvenPaced == {"even"}
MCPacingTolerance == [c \in MCCampaigns |-> 0]
MCRank == [c \in MCCampaigns |-> IF c = "even" THEN 1 ELSE 2]

Request(fault, tmax, imps) == [fault |-> fault, tmax |-> tmax, imps |-> imps]

MCRequests ==
  { Request("none", 1, <<{"open"}>>),
    Request("none", 0, <<{"even"}, {"even", "open"}>>),
    Request("none", 0, <<{}>>),
    Request("malformed", 0, <<{"open"}>>),
    Request("method_not_allowed", 0, <<{"open"}>>) }

(* Requests that bid: within a tmax, and also without one. *)
MCTimedRequests == {Request("none", 1, <<{"open"}>>)}

MCBidRequests == MCTimedRequests \cup {Request("none", 0, <<{"even"}>>)}

Symmetry == Permutations(Handlers)
=============================================================================

---------------------------- MODULE MCReservation ----------------------------
(***************************************************************************)
(* Instances of Reservation for TLC.  "even" is paced over its budget with *)
(* the default tolerance and has no QPS limit; "open" bids as soon as it   *)
(* can within a budget of two bids and one bid a second.                   *)
(***************************************************************************)
EXTENDS Reservation

MCCampaigns == {"even", "open"}
MCBidCPM == [c \in MCCampaigns |-> IF c = "even" THEN 2 ELSE 3]
MCDailyBudget == [c \in MCCampaigns |-> IF c = "even" THEN 10 ELSE 7]
MCQPS == [c \in MCCampaigns |-> IF c = "even" THEN 0 ELSE 1]
MCEvenPaced == {"even"}
MCPacingTolerance == [c \in MCCampaigns |-> 0]
=============================================================================

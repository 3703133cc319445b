-------------------------- MODULE MCLiveSubscription --------------------------
(* Bounded instances of the live subscriptions for TLC.                    *)
EXTENDS LiveSubscription, TLC

CONSTANTS u1, u2, h1, h2

(* Two streams of two subscribers. *)
MCSubscriberOf == (h1 :> u1) @@ (h2 :> u2)
=============================================================================

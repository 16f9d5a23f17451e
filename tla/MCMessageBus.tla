---------------------------- MODULE MCMessageBus ----------------------------
(***************************************************************************)
(* A small instance of MessageBus for TLC: three messages on a stream that *)
(* never drops and two on one that does.                                   *)
(***************************************************************************)
EXTENDS MessageBus, TLC

CONSTANTS m1, m2, m3, a1, a2, inbound, audio, gateway, deferred

AllMessages == {m1, m2, m3, a1, a2}
AllStreams == {inbound, audio}
StreamOfAll == (m1 :> inbound @@ m2 :> inbound @@ m3 :> inbound @@ a1 :> audio @@ a2 :> audio)
LossyStreams == {audio}
AllClosers == {gateway, deferred}
=============================================================================

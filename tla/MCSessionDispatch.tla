-------------------------- MODULE MCSessionDispatch --------------------------
(***************************************************************************)
(* Small instances of SessionDispatch for TLC.  Messages m1, m2, m3 belong *)
(* to session s1 and the others to s2, except in the runs that put every   *)
(* message on s1.                                                          *)
(***************************************************************************)
EXTENDS SessionDispatch

CONSTANTS m1, m2, m3, m4, s1, s2

OneSession == [m \in Msgs |-> s1]
TwoSessions == [m \in Msgs |-> IF m \in {m1, m2, m3} THEN s1 ELSE s2]

AllTelegram == [m \in Msgs |-> "telegram"]
AllOther == [m \in Msgs |-> "other"]
\* s1 is a Telegram chat; m4 comes from another channel on s2.
OneOfEach == [m \in Msgs |-> IF m = m4 THEN "other" ELSE "telegram"]
\* A system message next to a steering session.
WithSystem == [m \in Msgs |-> IF m = m4 THEN "system" ELSE "other"]

AllChat == [m \in Msgs |-> "chat"]
OneCommand == [m \in Msgs |-> IF m = m2 THEN "command" ELSE "chat"]
OneStop == [m \in Msgs |-> IF m = m3 THEN "stop" ELSE "chat"]
CommandAndStop ==
  [m \in Msgs |-> IF m = m2 THEN "command" ELSE IF m = m3 THEN "stop" ELSE "chat"]
=============================================================================

--------------------------- MODULE MCSessionTurns ---------------------------
(* Small instances of SessionTurns.                                        *)
EXTENDS SessionTurns

CONSTANTS m1, m2

\* How often each disturbance happens in a run.
Nothing == [kind \in Disturbances |-> 0]
Once(kinds) == [kind \in Disturbances |-> IF kind \in kinds THEN 1 ELSE 0]

Undisturbed == Nothing
TwoClicks == [Nothing EXCEPT !["click"] = 2]
OneStop == Once({"stop"})
OneReset == Once({"reset"})
OneCrash == Once({"crash"})
OneText == Once({"text"})
OneSendFailure == Once({"sendFailure"})
StopAndSendFailure == Once({"stop", "sendFailure"})
EverythingOnce == Once({"stop", "crash", "reset", "text", "click", "sendFailure"})
=============================================================================

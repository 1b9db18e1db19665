---------------------------- MODULE MCPushIngest ----------------------------
(* Instances of PushIngest for TLC. *)
EXTENDS PushIngest

Setting(source, maxretries, resend, upsideDown, in_turn) ==
    [source |-> source, maxretries |-> maxretries, resendInterval |-> resend,
     upsideDown |-> upsideDown, codeOnly |-> FALSE, in_turn |-> in_turn, windows |-> in_turn]

(* Every source with beats in turn and windows; pushes that overlap, either *)
(* way up.                                                                  *)
AllSettings ==
    { Setting("push", 2, 2, FALSE, TRUE),
      Setting("push", 1, 0, TRUE, TRUE), Setting("otel", 1, 2, FALSE, TRUE),
      Setting("federation", 0, 3, FALSE, TRUE), Setting("federation", 0, 0, TRUE, TRUE),
      Setting("push", 1, 0, FALSE, FALSE), Setting("push", 1, 0, TRUE, FALSE) }

ImpatientSettings == { Setting("push", 0, 0, FALSE, FALSE) }
=============================================================================

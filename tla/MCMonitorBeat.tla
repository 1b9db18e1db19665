---------------------------- MODULE MCMonitorBeat ----------------------------
(* Instances of MonitorBeat for TLC. *)
EXTENDS MonitorBeat

Config(type, maxretries, resend, upsideDown, codeOnly) ==
    [type |-> type, maxretries |-> maxretries, resendInterval |-> resend,
     upsideDown |-> upsideDown, codeOnly |-> codeOnly]

(* Edits between retry limits, reminder paces and orientations. *)
EditedConfigs == { Config("http", 0, 2, FALSE, FALSE),
                   Config("http", 2, 3, FALSE, FALSE),
                   Config("http", 1, 0, TRUE, FALSE),
                   Config("json-query", 1, 2, FALSE, TRUE),
                   Config("manual", 1, 2, FALSE, FALSE),
                   Config("docker", 1, 0, FALSE, FALSE) }

(* One unedited monitor each. *)
DockerConfigs    == { Config("docker", 1, 0, FALSE, FALSE) }
TcpConfigs       == { Config("tcp", 1, 0, FALSE, FALSE) }

AllFaults == {"crash", "database"}
NoFaults  == {}
=============================================================================

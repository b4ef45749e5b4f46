---------------------------- MODULE MCDashboard ----------------------------
(* Two devices: one is reached by telnet, of the other a risk is known     *)
(* whose severity is none of the three.                                    *)
EXTENDS Dashboard, TLC

MCAccess == "core" :> "telnet" @@ "edge" :> "ssh"
MCRisks  == {[device |-> "edge", severity |-> "high", about |-> "lease"]}
=============================================================================

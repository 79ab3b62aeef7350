---------------------------- MODULE MCSimulator -----------------------------
(* Instances of Simulator for TLC. *)
EXTENDS Simulator

MCConns    == {"host_a", "host_b"}
MCVersions == {"v60"}
MCFactory  == "v56"
MCNoVersion == "unknown"
=============================================================================

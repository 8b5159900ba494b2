-------------------------- MODULE MCSyslogHandler --------------------------
(* Instances of SyslogHandler for TLC. *)
EXTENDS SyslogHandler
============================================================================

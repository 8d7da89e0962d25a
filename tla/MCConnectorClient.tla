--------------------------- MODULE MCConnectorClient ---------------------------
(* Two concurrent scans over one client; the bounds are in the .cfg files. *)
EXTENDS ConnectorClient
================================================================================

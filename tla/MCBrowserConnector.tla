-------------------------- MODULE MCBrowserConnector --------------------------
(* Two submissions and one upload on one page, in each build. *)
EXTENDS BrowserConnector
================================================================================

--------------------------- MODULE MCPeerJournal ---------------------------
(* The instance of PeerJournal that TLC checks: every constant is given by    *)
(* the configuration, and symmetry is not used because the run checks         *)
(* liveness.                                                                  *)
EXTENDS PeerJournal
=============================================================================

--------------------------- MODULE MCDownloadQueue ---------------------------
(* Instance of DownloadQueue for TLC. *)
EXTENDS DownloadQueue
=============================================================================

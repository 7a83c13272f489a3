------------------------- MODULE MCDownloadControl -------------------------
(* DownloadControl for TLC.                                                 *)
EXTENDS DownloadControl
=============================================================================

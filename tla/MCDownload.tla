------------------------------ MODULE MCDownload ------------------------------
(* One download server, a few requests, and queues short enough to fill. *)
EXTENDS DownloadServer
=============================================================================

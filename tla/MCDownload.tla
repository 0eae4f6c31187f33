----------------------------- MODULE MCDownload -----------------------------
(* Two chats ask for one song of two pieces. *)
EXTENDS Download

CONSTANTS l1, l2
=============================================================================

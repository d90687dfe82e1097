----------------------------- MODULE MCArchive -----------------------------
(* Two clients, a timer callback and the final flush on a queue of batches of two. *)
EXTENDS MseedArchive
=============================================================================

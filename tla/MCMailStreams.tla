---------------------------- MODULE MCMailStreams ----------------------------
(* MailStreams on a small instance: two desktops share one feed.            *)
EXTENDS MailStreams
=============================================================================

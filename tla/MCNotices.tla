----------------------------- MODULE MCNotices ------------------------------
(* Small instances of Notices.                                             *)
EXTENDS Notices
=============================================================================

----------------------------- MODULE MCInstall ------------------------------
(* Small instances of Install.                                             *)
EXTENDS Install
HasGroup == {<< <<"user", 1>> >>}
=============================================================================

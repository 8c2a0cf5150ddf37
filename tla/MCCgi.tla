-------------------------------- MODULE MCCgi --------------------------------
(* Instances of Cgi for TLC; the constants are in the .cfg files.          *)
EXTENDS Cgi

\* Requests without a body, and with the fields.
BareOrFull == {{}, Fields}
=============================================================================

-------------------------------- MODULE MCUsers --------------------------------
\* Two browsers and two usernames; all constants have their values in the cfg.
EXTENDS Users
=============================================================================

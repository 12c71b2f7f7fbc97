-------------------------- MODULE MCSecretRotation --------------------------
(***************************************************************************)
(* A small instance of SecretRotation: the database credentials and the    *)
(* API keys, threads that are all alike, one caller.                       *)
(***************************************************************************)
EXTENDS SecretRotation, TLC

CONSTANTS database_credentials, api_keys, w1, w2, w3, c1
=============================================================================

-------------------------------- MODULE MCCli --------------------------------
(* One image of ours and one of docker.io, which the host has already.      *)
EXTENDS Cli

CONSTANTS api, bitcoind, alice
=============================================================================

------------------------------- MODULE MCCli --------------------------------
EXTENDS CliMain
=============================================================================

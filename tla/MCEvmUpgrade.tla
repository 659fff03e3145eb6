---------------------------- MODULE MCEvmUpgrade ----------------------------
EXTENDS EvmUpgrade

CONSTANTS n1, n2, submit, exec, reset, other

=============================================================================

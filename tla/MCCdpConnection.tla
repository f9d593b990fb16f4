--------------------------- MODULE MCCdpConnection ---------------------------
EXTENDS CdpConnection, TLC

CONSTANTS c1, c2, c3

=============================================================================

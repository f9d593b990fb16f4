---------------------------- MODULE MCBrowserPool ----------------------------
EXTENDS BrowserPool, TLC

CONSTANTS r1, r2, s1, s2, s3

=============================================================================

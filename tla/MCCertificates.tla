--------------------------- MODULE MCCertificates ---------------------------
EXTENDS Certificates
CONSTANTS k1, k2, k3, r1, r2
=============================================================================

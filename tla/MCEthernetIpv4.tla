--------------------------- MODULE MCEthernetIpv4 ---------------------------
EXTENDS EthernetIpv4
=============================================================================

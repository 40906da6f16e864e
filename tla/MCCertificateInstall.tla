------------------------- MODULE MCCertificateInstall -------------------------
(* Bounded instance of CertificateInstall.                                    *)
EXTENDS CertificateInstall
CONSTANTS b1, b2
===============================================================================

------------------------------ MODULE MCAccess ------------------------------
EXTENDS Access, TLC
CONSTANTS mac, laptop, phone, qr
=============================================================================

-------------------------- MODULE MCSubPub --------------------------
EXTENDS SubPub
=====================================================================

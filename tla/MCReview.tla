------------------------------ MODULE MCReview -------------------------------
EXTENDS Review

MCChanges == Change
=============================================================================

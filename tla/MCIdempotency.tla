---------------------------- MODULE MCIdempotency -----------------------------
EXTENDS Idempotency
=============================================================================

------------------------------ MODULE MCLifespan ------------------------------
EXTENDS Lifespan, TLC
=============================================================================

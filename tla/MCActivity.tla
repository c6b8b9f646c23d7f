------------------------------ MODULE MCActivity ------------------------------
EXTENDS Activity, TLC

CONSTANTS c1, c2, c3

\* One call of each of two sessions, with the same id, and a batch.
Batch == c1 :> <<1>> @@ c2 :> <<1>> @@ c3 :> <<2, 3>>
=============================================================================

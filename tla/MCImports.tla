------------------------------ MODULE MCImports ------------------------------
EXTENDS Imports

TwoCards == {"readings", "events"}
GoodFile == {"good"}
BadFile == {"bad"}
RefusedFile == {"pdf"}

=============================================================================

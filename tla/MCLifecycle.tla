------------------------------ MODULE MCLifecycle ------------------------------
EXTENDS Lifecycle

CONSTANTS c1, c2, c3
===============================================================================

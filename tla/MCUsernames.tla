------------------------------ MODULE MCUsernames ------------------------------
EXTENDS Usernames

\* One dimension, the session, and the chain: the other dimensions are parsed
\* as country is.
MCTagKeys == {"country", "session"}
===============================================================================

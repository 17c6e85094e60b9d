---- MODULE MCAccessTokens ----
\* One token is enough, tokens do not meet; seconds of two ticks show what is cut
\* off below a second, and three requests behind the login are a fill, a logout
\* and a later use; two failures make both lookups of one request fail.
EXTENDS AccessTokens, TLC

Symmetry == Permutations(Request)
====

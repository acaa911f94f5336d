---------------------------- MODULE MCTokenRefresh ----------------------------
EXTENDS TokenRefresh, TLC

CONSTANTS app1, ext1, r1, r2, r3

\* Two requests of the application, one of its extension.
Shared == r1 :> app1 @@ r2 :> app1 @@ r3 :> ext1
=============================================================================

----------------------------- MODULE MCDeviceList -----------------------------
EXTENDS DeviceList, TLC

\* The operations that may be made are alike.
Alike == Permutations(Operation)
=============================================================================

------------------------------ MODULE MCWallet -------------------------------
\* Model values and symmetry for checking Wallet.
EXTENDS Wallet, TLC

Symmetry == Permutations(Sessions) \cup Permutations(Keys)
==============================================================================

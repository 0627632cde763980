------------------------------ MODULE MCAccounts ------------------------------
(* Small instances of Accounts for TLC.                                    *)
EXTENDS Accounts, TLC

CONSTANTS b1, b2, h1, h2, n1, n2, p1, p2

MCBrowsers == {b1, b2}
MCBrowserOne == {b1}
MCHosts == {h1, h2}
MCHostOne == {h1}
MCNames == {n1, n2}
MCPasswords == {p1, p2}
MCPasswordOne == {p1}

(* Browsers, addresses, names and passwords are interchangeable.           *)
MCSymmetry ==
  Permutations(Browsers) \cup Permutations(Hosts)
    \cup Permutations(Names) \cup Permutations(Passwords)
=============================================================================

\* Two owners, one of them also a delegate, and one more delegate; two proxies for
\* each owner are enough for one delegate to add, and to remove, another,
\* and for charlie to reach alice's proxies through bob.
SPECIFICATION Spec
CONSTANTS
  Owners = {alice, bob}
  Delegates = {bob, charlie}
  MaxProxies = 2
INVARIANTS TypeOK PowersShrink OnlyTrustedSpend NarrowGrantsReachNothing

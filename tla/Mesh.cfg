\* s1 and s2 are each other's seeds, s2 hears the beacons of s1, and operators
\* register s3 and s2 itself at s2.  Ages: alive, kept though no longer alive,
\* due to be removed.
CONSTANTS
    s1 = s1
    s2 = s2
    s3 = s3
    None = None
    Servers = {s1, s2, s3}
    Hosted = {s1, s2}
    Addrs = {s1, s2, s3}
    Addr <- OwnAddress
    Seeds <- Mutual
    Reach <- Subnets
    Registrations <- ByHand
    Cutoff = 1
SPECIFICATION Spec
INVARIANTS NeverOwnPeer
PROPERTIES ForgottenForGood

----------------------------- MODULE MCSaveStore -----------------------------
(* Small instances of SaveStore for TLC: one user with one or two phones and saves. *)
EXTENDS SaveStore, TLC

CONSTANTS u1, c1, c2, s1, s2, h1, h2, d1, d2

PhonesToU1 == [c \in Clients |-> u1]
SavesOfU1 == [s \in Saves |-> u1]
OneRom == [s \in Saves |-> "rom"]
KeepOne == [s \in Saves |-> 1]
AgeZero == [s \in Saves |-> 0]

Symmetry == Permutations(Handlers) \cup Permutations(Digests)
            \cup Permutations(Clients) \cup Permutations(Saves)
=============================================================================

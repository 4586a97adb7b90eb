--------------------------- MODULE MCLinkLifecycle ---------------------------
(* LinkLifecycle on small instances: the sets TLC may permute and what the *)
(* stream makes of the short codes.                                        *)
EXTENDS LinkLifecycle, TLC

\* No code looks like a JSON number with an exponent.
PlainReadBack == [c \in Codes |-> c]

CodeSymmetry == Permutations(Codes)
ActorSymmetry == Permutations(Readers) \union Permutations(Creators)
                   \union Permutations(Deleters) \union Permutations(Workers)
OwnerSymmetry == Permutations(Users)
AllSymmetry == CodeSymmetry \union ActorSymmetry \union OwnerSymmetry
=============================================================================

---- MODULE MCNft ----
EXTENDS NftCollect, TLC
CONSTANTS t1, t2, c1, c2, o1
MCColOf == [t \in Tokens |-> c1]
MCCreatorOf == [c \in Collections |-> o1]
MCNameOf == [c \in Collections |-> "name"]
Symmetry == Permutations(Tokens)
====

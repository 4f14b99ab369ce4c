----------------------------- MODULE MCWriteOps -----------------------------
(* Instances of WriteOps for TLC. *)
EXTENDS WriteOps

CONSTANTS a, b, u, v, w1, w2

Plain(kind, words) == [kind |-> kind, words |-> words, status |-> "open",
                       supersedes |-> NoId, answers |-> NoId, same_as |-> NoId]

\* A claim and a question, in words of their own.
ClaimAndQuestion == {Plain("claim", u), Plain("question", v)}

\* The writers are alike, and so are the ids.
Alike == Permutations(Writers) \cup Permutations(Ids)
=============================================================================

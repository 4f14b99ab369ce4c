---------------------------- MODULE MCFoldCheck ----------------------------
(* Instances of FoldCheck for TLC. *)
EXTENDS FoldCheck

CONSTANTS a, b, u, v

Fact(w) == [kind |-> "claim", words |-> w, status |-> "open",
            supersedes |-> NoId, answers |-> NoId, same_as |-> NoId]

TwoFacts == {Fact(u), Fact(v)}
=============================================================================

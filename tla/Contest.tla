------------------------------ MODULE Contest -------------------------------
(***************************************************************************)
(* One single-valued fact under a stream of challengers, when every        *)
(* challenger that wins is trusted before the next one arrives.  It is     *)
(* the reference for what resolution promises about a fact over time; the  *)
(* store itself (BeliefStore) also has pending and refused challengers.    *)
(*                                                                         *)
(* Which of the replaced claims "defeated" remembers is left open, so that *)
(* what holds of it holds of all of them.                                  *)
(***************************************************************************)
EXTENDS Precedence

VARIABLES champion,   \* the claim that currently stands for the fact
          defeated    \* one of the claims replaced since the last correction

vars == <<champion, defeated>>

TypeOK ==
    /\ champion \in Claim
    /\ defeated \subseteq Claim
    /\ \A c, d \in defeated : c = d

Init ==
    /\ champion \in Claim
    /\ defeated = {}

\* An ingested challenger takes over only if the precedence says so.
Ingested(c) ==
    /\ ResolvePrecedence(c, champion, FALSE).resolution = "challenger_supersedes"
    /\ champion' = c
    /\ defeated' \in {defeated, {champion}}

\* A correction takes over whatever the precedence says, and starts anew.
Corrected(c) ==
    /\ ResolvePrecedence(c, champion, TRUE).resolution = "challenger_supersedes"
    /\ champion' = c
    /\ defeated' = {}

Next == \E c \in Claim : Ingested(c) \/ Corrected(c)

Spec == Init /\ [][Next]_vars

(***************************************************************************)
(* No comeback: a claim that was replaced, directly or through a chain of  *)
(* later winners, loses against the standing claim on the merits when it   *)
(* is submitted again (the same document ingested twice, say).  The        *)
(* precedence of _resolve_precedence is then free of cycles: it is         *)
(* transitive and irreflexive, although confidences are compared with a    *)
(* tolerance.                                                              *)
(***************************************************************************)
NoComeback ==
    \A d \in defeated :
        ResolvePrecedence(d, champion, FALSE).resolution = "incumbent_retained"
=============================================================================

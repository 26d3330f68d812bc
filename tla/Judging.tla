------------------------------- MODULE Judging -------------------------------
(***************************************************************************)
(* The two ways in which beliefs are judged, that share nothing: a         *)
(* behaviour is one of the gate's score, alone or in an evaluation         *)
(* (RedTeam), or one of the precedence between claims about one fact       *)
(* (Contest).                                                              *)
(***************************************************************************)
EXTENDS RedTeam, Contest

VARIABLE question

judgingVars == <<gateVars, evalVars, vars, question>>

JudgingInit ==
    /\ question \in {"score", "precedence"}
    /\ ScoringInit /\ Init
    /\ question = "score" => champion = CHOOSE c \in Claim : TRUE

Scored == question = "score" /\ ScoringNext /\ UNCHANGED <<vars, question>>

Preceded ==
    question = "precedence" /\ Next /\ UNCHANGED <<gateVars, evalVars, question>>

JudgingNext == Scored \/ Preceded

JudgingSpec == JudgingInit /\ [][JudgingNext]_judgingVars

JudgingTypeOK == GateTypeOK /\ RedTeamTypeOK /\ TypeOK
=============================================================================

---------------------------- MODULE MCApprovalGate ----------------------------
(* A gate that four people may answer: two who may, one the policy refuses    *)
(* and one whose payload is malformed.                                        *)
EXTENDS ApprovalGate, TLC

CONSTANTS ann, ben, eve, mal

Entitled == {ann, ben}
Outsiders == {eve}
Malformers == {mal}
Everyone == Entitled \cup Outsiders \cup Malformers
OneOfEach == {ann, eve, mal}
================================================================================

-------------------------- MODULE MCClickPipeline --------------------------
(* Instances of ClickPipeline for TLC.  Workers are interchangeable, and so *)
(* are the codes that stay strings.                                        *)
EXTENDS ClickPipeline, TLC

Symmetry == Permutations(Workers) \union Permutations(Codes \ NumericCodes)
=============================================================================

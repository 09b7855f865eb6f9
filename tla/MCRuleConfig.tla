---------------------------- MODULE MCRuleConfig ----------------------------
(***************************************************************************)
(* Small instances of RuleConfig for TLC.                                  *)
(***************************************************************************)
EXTENDS RuleConfig, TLC

CONSTANTS o1, o2  \* operators

Setting(terms, action, priority, enabled) ==
    [terms |-> terms, action |-> action, priority |-> priority, enabled |-> enabled]

\* Two rules for one term with the same priority, a higher one for two terms, and the first
\* disabled.
SomeSettings ==
    { Setting({"tuikuan"}, "reply", 1, TRUE),
      Setting({"tuikuan"}, "handoff", 1, TRUE),
      Setting({"tuikuan", "zhuxiao"}, "reply", 2, TRUE),
      Setting({"tuikuan"}, "reply", 1, FALSE) }

SomeMessages ==
    { [words |-> w, folded |-> w] : w \in { {"tuikuan"}, {"zhuxiao"}, {"tuikuan", "zhuxiao"}, {} } }

OperatorSymmetry == Permutations(Operators)
=============================================================================

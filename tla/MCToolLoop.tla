----------------------------- MODULE MCToolLoop -----------------------------
EXTENDS ToolLoop
RulesDef == <<"blessing", "agi">>
=============================================================================

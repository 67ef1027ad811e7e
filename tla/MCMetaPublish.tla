----------------------------- MODULE MCMetaPublish -----------------------------
EXTENDS MetaPublish
CONSTANTS p1, r1
MCPlan == {p1}
MCRival == {r1}
================================================================================

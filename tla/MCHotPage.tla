----------------------------- MODULE MCHotPage -----------------------------
EXTENDS HotPage
=============================================================================

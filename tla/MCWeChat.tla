------------------------------- MODULE MCWeChat -------------------------------
EXTENDS WeChat
=============================================================================

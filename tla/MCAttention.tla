---- MODULE MCAttention ----
EXTENDS Attention
====

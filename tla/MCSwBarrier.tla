----------------------------- MODULE MCSwBarrier -----------------------------
(* Four harts, and an iteration counter that wraps at its smallest sound    *)
(* value, so that every run goes round it.                                  *)
EXTENDS SwBarrier
==============================================================================

---------------------------- MODULE TradeLifecycle ----------------------------
(***************************************************************************)
(* What the paper trader promises about its decisions, whatever prices,    *)
(* sizes and guardrails do: a portfolio decides a signal at most once, to  *)
(* miss it or to open a trade; an open trade can only close, and never in  *)
(* the cycle that opened it.  A cycle takes effect in one step, for every  *)
(* portfolio together (docs/PHASE4_DESIGN.md, flag 2 and section 4).       *)
(***************************************************************************)
CONSTANTS Portfolios, Signals

VARIABLE decision   \* what each portfolio has made of each signal

Allowed ==
  {<<"none", "none">>, <<"none", "MISSED">>, <<"none", "OPEN">>, <<"MISSED", "MISSED">>,
   <<"OPEN", "OPEN">>, <<"OPEN", "CLOSED">>, <<"CLOSED", "CLOSED">>}

Init == decision = [k \in Portfolios \X Signals |-> "none"]

Cycle ==
  /\ decision' = [k \in Portfolios \X Signals |-> decision'[k]]
  /\ \A k \in Portfolios \X Signals : <<decision[k], decision'[k]>> \in Allowed

Spec == Init /\ [][Cycle]_decision
=============================================================================

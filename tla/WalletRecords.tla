---------------------------- MODULE WalletRecords ----------------------------
(***************************************************************************)
(* What the collectors recorded of the wallets before a job of             *)
(* app/optimization rebuilds its statistics from it.                       *)
(***************************************************************************)
EXTENDS Integers, SequencesExt

CONSTANTS
  TrackedWallets,   \* wallets with is_tracked
  History,          \* position_history, a set of [wallet, market, side, at, event, bootstrap, usd]
  Held              \* positions, a sequence of [wallet, category, open, pnl, age], age being
                    \* since it closed, or since its market's end_date while it is open

ASSUME RecordsAssumption ==
  IsFiniteSet(History) /\ \A e \in History : e.at \in Int /\ e.usd \in Int

\* A bootstrap row says when a position was first seen, not when it was opened.
Observed == {e \in History : ~e.bootstrap /\ e.wallet \in TrackedWallets}

FreshOpens == {e \in Observed : e.event = "OPENED"}
=============================================================================

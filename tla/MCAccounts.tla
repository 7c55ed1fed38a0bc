------------------------------- MODULE MCAccounts ------------------------------
(* The two accounts that positions come to outside the live pipeline: the paper    *)
(* trader's own, and the exchange account a user trades on by hand. They share      *)
(* nothing, so one of them stays at its start.                                      *)
(* Paper: one coin with a long and a short signal, a long one with a nearer stop at *)
(* a lower price to add with, and a second coin that takes room and risk.           *)
(* By hand: two requests at a time; they are alike and can be exchanged.            *)
EXTENDS PaperAccount, ExchangeAccounts, TLC

CONSTANTS BTC, ETH
S(coin, dir, entry, sl, tp, lev) ==
    [coin |-> coin, dir |-> dir, entry |-> entry, sl |-> sl, tp |-> tp, lev |-> lev,
     confident |-> TRUE]
MCSignals == {S(BTC, "LONG", 100, 96, 108, 10), S(BTC, "SHORT", 98, 102, 90, 10),
              S(BTC, "LONG", 98, 96, 102, 10), S(ETH, "LONG", 50, 48, 54, 5)}
MCPrices  == [c \in {BTC, ETH} |-> IF c = BTC THEN {96} ELSE {54}]

CONSTANTS r1, r2
TwoRequests == {r1, r2}
Alike == Permutations(TwoRequests)

both == <<vars, accountVars>>
BothInit == Init /\ AccountsInit
BothSpec ==
    /\ BothInit
    /\ [][ \/ AccountsInit /\ Next /\ UNCHANGED accountVars
           \/ Init /\ AccountsNext /\ UNCHANGED vars ]_both
================================================================================

----------------------------- MODULE MCExplorer -----------------------------
(***************************************************************************)
(* A small explorer: two subjects, one wallet, bars with two pages, and a  *)
(* few visits and clicks on each kind of page, fewer where many requests   *)
(* are under way at once.                                                  *)
(***************************************************************************)
EXTENDS Explorer

CONSTANTS s1, s2, w1

MCSubjects == {s1, s2}
MCWallets == {w1}
MCKinds == {"validator", "account", "staking", "dashboard", "proposal", "gov", "customize", "tx",
  "accountList", "supply", "params", "stateSync", "ibc", "codes", "contracts", "contract",
  "verification", "accounts", "portfolio", "keplr", "suggest", "unisat", "block", "startUp",
  "blocks", "uptime", "consensus"}

MCMaxOpens == [k \in MCKinds |-> IF k \in {"dashboard", "startUp"} THEN 1 ELSE 2]
MCMaxClicks == [k \in MCKinds |-> IF k \in {"dashboard", "startUp", "validator", "gov"} THEN 1 ELSE 2]
MCMaxFails == [k \in MCKinds |-> IF k \in {"dashboard", "startUp", "validator", "account", "gov"} THEN 0 ELSE 1]
=============================================================================

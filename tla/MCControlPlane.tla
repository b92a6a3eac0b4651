--------------------------- MODULE MCControlPlane ---------------------------
(***************************************************************************)
(* ControlPlane for TLC: one symbol streamed from the start and one that   *)
(* can be added.  Which of them Coinbase lists is up to the run.           *)
(***************************************************************************)
EXTENDS ControlPlane

CONSTANTS btc, sol

MCSymbols == {btc, sol}
MCBoot    == {btc}
MCListed  == {btc, sol}
MCDelisted == {sol}     \* the boot symbol has gone from the catalog
=============================================================================

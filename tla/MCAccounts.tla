------------------------------ MODULE MCAccounts ------------------------------
(***************************************************************************)
(* Accounts for TLC: one telephone written in two ways, one of them        *)
(* configured for the bypass code, and the number of the kiosk.            *)
(***************************************************************************)
EXTENDS Accounts, TLC

CONSTANTS Intl, Local, Desk

MCIdentity == Intl :> Intl @@ Local :> Intl @@ Desk :> Desk @@ Placeholder :> Placeholder
MCBypass == Intl :> "CLIENT"
=============================================================================

--------------------------- MODULE MCVenueAccounts ---------------------------
(* Nine kinds of account and five symbols, two of them not known. *)
EXTENDS VenueAccounts, TLC

CONSTANTS usdc, coin, opt, spot, new

MCAccounts == AllAccounts
MCProductOf == usdc :> "usdc" @@ coin :> "inverse" @@ opt :> "option"
               @@ spot :> "spot" @@ new :> "usdc"
MCContractSize == [s \in DOMAIN MCProductOf |-> IF s = coin THEN 2 ELSE 1]
=============================================================================

------------------------------- MODULE MCDelivery -------------------------------
(* An instance of Outlets with Delivery: two recipients in one domain, the *)
(* first of whom is the archive in the histories about archives.           *)
EXTENDS Outlets

OneDomain == [r \in Rcpts |-> 1]
MCArchivers == <<"prototype", "mail-archive", "mhonarc">>
================================================================================

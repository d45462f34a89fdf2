--------------------------- MODULE MCTenantCatalog ---------------------------
(***************************************************************************)
(* TenantCatalog with the catalogues an operator may have written by hand: *)
(* one with a gap in ports and tags, and one whose tags collide.           *)
(***************************************************************************)
EXTENDS TenantCatalog

CONSTANTS inn, keep   (* tenant names                                       *)

MCHandEdits ==
  { <<Entry(inn, BasePort + 1, 2)>>,
    <<Entry(inn, BasePort, 1), Entry(keep, BasePort + 1, 1)>> }
=============================================================================

--------------------------- MODULE RowsAndFilters ---------------------------
(***************************************************************************)
(* The rows that are kept, and the filters that are read with.             *)
(***************************************************************************)
EXTENDS Governance

CONSTANTS Rows, Filters

ASSUME RowsAndFiltersAssumption == Rows \subseteq MemoryEntry /\ Filters \subseteq RetrievalFilter
=============================================================================

---------------------------- MODULE MCSqlConsole ----------------------------
(* SqlConsole for TLC: one page, two queries, one slot.                    *)
EXTENDS SqlConsole
=============================================================================

----------------------------- MODULE ItemCustody -----------------------------
(***************************************************************************)
(* What a QueueRunner promises about the items of its stored queue: an     *)
(* item is stored, held in memory, settled (processed, or handed to the    *)
(* retry or the restart queue) or lost.  Items are lost only by a runner   *)
(* that is closing, at most LossBound of them, and settled and lost are    *)
(* final.                                                                  *)
(***************************************************************************)
EXTENDS Integers, FiniteSets

CONSTANTS Items, LossBound

VARIABLES stored, held, settled, lost, closing

custodyVars == <<stored, held, settled, lost, closing>>

Init ==
  /\ stored = Items
  /\ held = {} /\ settled = {} /\ lost = {}
  /\ closing = FALSE

HandOut(items) ==
  /\ items \subseteq stored
  /\ stored' = stored \ items
  /\ held' = held \cup items
  /\ UNCHANGED <<settled, lost, closing>>

Settle(items) ==
  /\ items \subseteq held
  /\ held' = held \ items
  /\ settled' = settled \cup items
  /\ UNCHANGED <<stored, lost, closing>>

\* The runner closes, or is closing, and drops some of the items it holds.
Drop(items) ==
  /\ items \subseteq held
  /\ held' = held \ items
  /\ lost' = lost \cup items
  /\ Cardinality(lost') <= LossBound
  /\ closing' = TRUE
  /\ UNCHANGED <<stored, settled>>

Next == \E items \in SUBSET Items : HandOut(items) \/ Settle(items) \/ Drop(items)

Spec == Init /\ [][Next]_custodyVars
=============================================================================

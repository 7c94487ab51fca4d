--------------------------- MODULE AlertDelivery ---------------------------
(***************************************************************************)
(* What the event stream and its notifier promise together: only events    *)
(* that a command emitted reach the chat, only those of sufficient         *)
(* severity, and each of them at least once.                               *)
(***************************************************************************)
CONSTANTS EventIds, Severe

VARIABLES emitted, delivered

deliveryVars == <<emitted, delivered>>

DeliveryInit == emitted = {} /\ delivered = {}

EmitEvent(e) ==
  /\ e \notin emitted
  /\ emitted' = emitted \cup {e}
  /\ UNCHANGED delivered

DeliverEvent(e) ==
  /\ e \in emitted \cap Severe
  /\ delivered' = delivered \cup {e}
  /\ UNCHANGED emitted

DeliveryNext == \E e \in EventIds : EmitEvent(e) \/ DeliverEvent(e)

EachDelivered == \A e \in EventIds : e \in emitted \cap Severe ~> e \in delivered

\* The safety part; with EachDelivered, the whole promise.
DeliverySafe == DeliveryInit /\ [][DeliveryNext]_deliveryVars

DeliverySpec == DeliverySafe /\ EachDelivered

=============================================================================

------------------------------ MODULE WireEnds -------------------------------
(***************************************************************************)
(* The ends that wires and links join: properties of instances.  What the  *)
(* clients of the fabric may wire, link and handle is a parameter.         *)
(***************************************************************************)
EXTENDS Null, Naturals, Sequences

CONSTANTS Insts,      \* instances
          Ports,      \* property names
          WiringPort, \* the property Connect and Disconnect bump on the sink
          Wirable,    \* the pairs of ends clients wire
          Linkable,   \* the pairs <<slot, target>> clients link
          Handled,    \* the ends a class may put a handler on
          MaxSends    \* bound: envelopes in flight

Ends == Insts \X Ports

\* The properties clients write and send out of: the others have no wires.
Written == {w[1] : w \in Wirable} \cup {l[1] : l \in Linkable}

ASSUME EndsAssumption ==
    /\ WiringPort \in Ports /\ NULL \notin Ends /\ NULL \notin Insts
    /\ Wirable \subseteq Ends \X Ends /\ Linkable \subseteq Ends \X Ends
    /\ Handled \subseteq Ends /\ MaxSends \in Nat
==============================================================================

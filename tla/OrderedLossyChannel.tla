------------------------- MODULE OrderedLossyChannel -------------------------
(***************************************************************************)
(* What Tight's command channel promises the application, stated without   *)
(* sequence windows, reorder waits or threads: the commands handed to the  *)
(* application during one receiver session were all sent, and they leave   *)
(* in strictly increasing sequence order.  Commands may be lost, and a     *)
(* (re)handshake starts a fresh session.                                   *)
(***************************************************************************)
EXTENDS Naturals, Sequences

CONSTANT Packets        \* the Command packets: records with a field seq

VARIABLES sent,         \* the packets that were put on the wire
          handed        \* the packets handed out in this receiver session

\* The packets of the log leave in strictly increasing sequence order.
StrictlyOrdered(log) ==
    \A i, j \in DOMAIN log : i < j => log[i].seq < log[j].seq

Init == /\ sent = {}
        /\ handed = << >>

Send(p) == /\ sent' = sent \cup {p}
           /\ UNCHANGED handed

\* The log grows by a batch of sent packets that keeps it ordered.
HandOut == /\ handed' \in Seq(sent)
           /\ Len(handed') > Len(handed)
           /\ SubSeq(handed', 1, Len(handed)) = handed
           /\ StrictlyOrdered(handed')
           /\ UNCHANGED sent

Restart == /\ handed' = << >>
           /\ UNCHANGED sent

Next == (\E p \in Packets : Send(p)) \/ HandOut \/ Restart

Spec == Init /\ [][Next]_<<sent, handed>>
=============================================================================

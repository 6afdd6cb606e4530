---------------------------- MODULE MC_Kernelbuf ----------------------------
(* Three kernels of one and two bytes, a two-byte size field of base-4    *)
(* bytes: enough for packets to be split between the peer's reads at the *)
(* size field and inside the payload, and for several packets to be      *)
(* framed before one flush writes them together.                           *)
EXTENDS Kernelbuf

MC_Payload == [k \in Kernel |-> CASE k = "k1" -> <<1>>
                                  [] k = "k2" -> <<2, 3>>
                                  [] k = "k3" -> <<3>>]
=============================================================================

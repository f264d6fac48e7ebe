--------------------------- MODULE MCTelegramChannel ---------------------------
(* Instances of TelegramChannel for TLC. *)
EXTENDS TelegramChannel

CONSTANTS k1

MCKeyOf == [w \in Callers |-> k1]
=============================================================================

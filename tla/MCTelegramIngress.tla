------------------------- MODULE MCTelegramIngress -------------------------
(* TelegramIngress with two or three updates; an update is given up after two *)
(* attempts.                                                                  *)
EXTENDS TelegramIngress
=============================================================================

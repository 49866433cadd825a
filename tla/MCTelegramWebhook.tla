------------------------ MODULE MCTelegramWebhook ------------------------
(* Instances of TelegramWebhook for TLC. *)
EXTENDS TelegramWebhook

CONSTANTS t1, d1, r1, r2, u1

OneTgUser   == {t1}
OneErpUser  == {d1}
TwoRequests == {r1, r2}
OneUpdate   == {u1}
=============================================================================

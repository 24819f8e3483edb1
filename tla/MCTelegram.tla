----------------------------- MODULE MCTelegram -----------------------------
(* Instances of Telegram for TLC.                                          *)
EXTENDS Telegram, TLC

MCSymmetry == Permutations(Chats) \cup Permutations(Sessions)
=============================================================================

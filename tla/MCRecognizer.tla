---------------------------- MODULE MCRecognizer ----------------------------
(* Recognizer in every mode on a small instance.                            *)
EXTENDS Recognizer

MCModes == {"batch", "chat", "realtime", "sbpn"}
=============================================================================

---------------------------- MODULE MCRtpReceiver -----------------------------
(* A stream that wraps its sequence numbers; one packet of each odd kind. *)
EXTENDS RtpReceiver

CONSTANTS BadAt, DudAt
MCPayload == (0 .. N - 1) \ BadAt
=============================================================================
